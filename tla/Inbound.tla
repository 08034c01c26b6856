------------------------------ MODULE Inbound ------------------------------
(***************************************************************************)
(* Inbound messaging: a webhook request of Instagram carries a batch of    *)
(* events; WebhooksService stores each one once and adds a BullMQ job with *)
(* its id; InboundProcessor takes the job, stores contact, conversation    *)
(* and message in one transaction, offers a new message to its handlers in *)
(* order - a person, a waiting flow, the automations, a flow trigger, the  *)
(* AI - and marks the event processed.  Requests may be repeated, both     *)
(* processes may die anywhere, and BullMQ runs a job at least once.        *)
(*                                                                         *)
(* Every transaction is one step; the awaits between them are where other  *)
(* executions and the agents come in.  One channel, whose settings may     *)
(* change between any two reads; what the handlers do inside is left to    *)
(* their own modules, and conversations.status, which nothing here reads,  *)
(* is left out.  Every event has a mid: only a postback may come without   *)
(* one, and then no UNIQUE tells a second copy of it apart.  Read receipts *)
(* and unknown events, which ingest skips, are not among the events.       *)
(***************************************************************************)
EXTENDS Naturals, Sequences

CONSTANTS
  Events,         (* webhook events by (externalId, eventType)             *)
  Echoes,         (* the events that echo what the business sent           *)
  Contacts,
  ContactOf,      (* ContactOf[e]: the person on the other side            *)
  Stamp,          (* Stamp[e]: the time Instagram gave the event           *)
  MaxStamp,
  Requests,       (* webhook requests, repeated deliveries among them      *)
  BatchOf,        (* BatchOf[r]: the events request r carries, in order    *)
  Workers,        (* concurrent executions of the processor                *)
  MaxAttempts,    (* defaultJobOptions.attempts of the queue               *)
  MaxStalls,      (* BullMQ's maxStalledCount                              *)
  DbMayFail,      (* whether a database transaction may fail               *)
  QueueMayFail,   (* whether adding a job may fail                         *)
  Mortal,         (* the executions whose process may die                  *)
  Slow,           (* those that may lose their job's lock and go on        *)
  None

ASSUME InboundAssumption ==
  /\ Echoes \subseteq Events
  /\ ContactOf \in [Events -> Contacts]
  /\ MaxStamp \in Nat
  /\ Stamp \in [Events -> 1..MaxStamp]
  /\ BatchOf \in [Requests -> Seq(Events)]
  /\ MaxAttempts \in Nat \ {0}
  /\ MaxStalls \in Nat
  /\ {DbMayFail, QueueMayFail} \subseteq BOOLEAN
  /\ Mortal \union Slow \subseteq Workers
  /\ None \notin Events

VARIABLES
  step,        (* step[r]: what the handler of request r does next         *)
  at,          (* at[r]: the event of the batch it is at                   *)
  stored,      (* webhook_events: the events that have a row               *)
  processed,   (* those whose processedAt is set                           *)
  dropped,     (* those whose error says there was no connected channel    *)
  talking,     (* the contacts that have a row and a conversation          *)
  mode,        (* mode[c]: conversations.mode                              *)
  lastInbound, (* lastInbound[c]: lastInboundAt; windowExpiresAt is 24h on *)
  messages,    (* messages: the events whose message is stored (mid UNIQUE)*)
  waiting,     (* waiting[c]: a flow execution waits for c's answer        *)
  acted,       (* acted[e]: how many handlers have acted on e              *)
  job,         (* job[e]: state of the BullMQ job of e                     *)
  made,        (* made[e]: job.attemptsMade                                *)
  stalls,      (* stalls[e]: job.stalledCounter                            *)
  pc,          (* pc[w]: the step execution w takes next                   *)
  cur,         (* cur[w]: the event w works on                             *)
  tries,       (* tries[w]: the attemptsMade w saw in its job              *)
  locked       (* locked[w]: w still holds the lock of its job             *)

requestVars == <<step, at>>
eventVars == <<stored, processed, dropped>>
inboxVars == <<talking, mode, lastInbound, messages>>
routeVars == <<waiting, acted>>
jobVars == <<job, made, stalls>>
runVars == <<cur, tries, locked>>
vars == <<requestVars, eventVars, inboxVars, routeVars, jobVars,
          pc, runVars>>

-----------------------------------------------------------------------------
RequestStep == {"idle", "store", "add", "acked", "dead"}
Mode == {"ai", "human"}
JobState == {"none", "waiting", "active", "completed", "failed"}
RouteStep == {"flow", "resume", "automations", "trigger", "ai"}
RunStep == RouteStep \union
  {"idle", "read", "channel", "drop", "upsert", "mark",
   "error", "done", "throw"}

TypeOK ==
  /\ step \in [Requests -> RequestStep]
  /\ at \in [Requests -> Nat]
  /\ stored \subseteq Events
  /\ processed \subseteq stored
  /\ dropped \subseteq processed
  /\ talking \subseteq Contacts
  /\ mode \in [Contacts -> Mode]
  /\ lastInbound \in [Contacts -> 0..MaxStamp]
  /\ messages \subseteq stored
  /\ waiting \in [Contacts -> BOOLEAN]
  /\ acted \in [Events -> Nat]
  /\ job \in [Events -> JobState]
  /\ made \in [Events -> 0..MaxAttempts]
  /\ stalls \in [Events -> 0..MaxStalls]
  /\ pc \in [Workers -> RunStep]
  /\ cur \in [Workers -> Events \union {None}]
  /\ tries \in [Workers -> 0..MaxAttempts]
  /\ locked \in [Workers -> BOOLEAN]

\* Nothing has arrived yet.  A contact is new, or is in a conversation where a
\* flow waits for the answer.
Init ==
  /\ step = [r \in Requests |-> "idle"]
  /\ at = [r \in Requests |-> 1]
  /\ stored = {} /\ processed = {} /\ dropped = {}
  /\ talking \in SUBSET Contacts
  /\ mode = [c \in Contacts |-> IF c \in talking THEN "ai" ELSE "human"]
  /\ lastInbound = [c \in Contacts |-> 0]
  /\ messages = {}
  /\ waiting = [c \in Contacts |-> c \in talking]
  /\ acted = [e \in Events |-> 0]
  /\ job = [e \in Events |-> "none"]
  /\ made = [e \in Events |-> 0]
  /\ stalls = [e \in Events |-> 0]
  /\ pc = [w \in Workers |-> "idle"]
  /\ cur = [w \in Workers |-> None]
  /\ tries = [w \in Workers |-> 0]
  /\ locked = [w \in Workers |-> FALSE]

-----------------------------------------------------------------------------
(* WebhooksController.receive and WebhooksService.ingest *)

\* The event request r is at, once it is past its signature.
EventOf(r) == BatchOf[r][at[r]]

\* Request r goes on with the next event of its batch, or is acknowledged.
Advance(r) ==
  /\ at' = [at EXCEPT ![r] = @ + 1]
  /\ step' = [step EXCEPT ![r] = IF at[r] < Len(BatchOf[r]) THEN "store" ELSE "acked"]

Receive(r) ==
  /\ step[r] = "idle"
  /\ step' = [step EXCEPT ![r] = IF BatchOf[r] = <<>> THEN "acked" ELSE "store"]
  /\ UNCHANGED <<at, eventVars, inboxVars, routeVars, jobVars,
                 pc, runVars>>

\* One transaction; an event that has a row already is left out.
StoreEvent(r) ==
  /\ step[r] = "store"
  /\ IF EventOf(r) \in stored
       THEN /\ Advance(r)
            /\ UNCHANGED stored
       ELSE /\ stored' = stored \union {EventOf(r)}
            /\ step' = [step EXCEPT ![r] = "add"]
            /\ UNCHANGED at
  /\ UNCHANGED <<processed, dropped, inboxVars, routeVars,
                 jobVars, pc, runVars>>

\* inboundQueue.add: the id of the job is the id of the row.
AddJob(r) ==
  /\ step[r] = "add"
  /\ job' = [job EXCEPT ![EventOf(r)] = "waiting"]
  /\ Advance(r)
  /\ UNCHANGED <<eventVars, inboxVars, routeVars, made, stalls,
                 pc, runVars>>

\* An error leaves the loop, and the controller acknowledges all the same.
IngestFails(r) ==
  /\ \/ DbMayFail /\ step[r] = "store"
     \/ QueueMayFail /\ step[r] = "add"
  /\ step' = [step EXCEPT ![r] = "acked"]
  /\ UNCHANGED <<at, eventVars, inboxVars, routeVars, jobVars,
                 pc, runVars>>

\* The API process dies; Instagram will repeat what was not acknowledged, as
\* another request.
IngestDies(r) ==
  /\ step[r] \in {"store", "add"}
  /\ step' = [step EXCEPT ![r] = "dead"]
  /\ UNCHANGED <<at, eventVars, inboxVars, routeVars, jobVars,
                 pc, runVars>>

-----------------------------------------------------------------------------
(* BullMQ *)

\* A free worker takes a waiting job and its lock.
StartJob(w, e) ==
  /\ pc[w] = "idle"
  /\ job[e] = "waiting"
  /\ job' = [job EXCEPT ![e] = "active"]
  /\ pc' = [pc EXCEPT ![w] = "read"]
  /\ cur' = [cur EXCEPT ![w] = e]
  /\ tries' = [tries EXCEPT ![w] = made[e]]
  /\ locked' = [locked EXCEPT ![w] = TRUE]
  /\ UNCHANGED <<requestVars, eventVars, inboxVars, routeVars,
                 made, stalls>>

\* Execution w is over; its slot takes another job later.
EndRun(w) ==
  /\ pc' = [pc EXCEPT ![w] = "idle"]
  /\ cur' = [cur EXCEPT ![w] = None]
  /\ tries' = [tries EXCEPT ![w] = 0]
  /\ locked' = [locked EXCEPT ![w] = FALSE]

\* The processor returned: the job is completed if the lock is still held.
AckJob(w) ==
  /\ pc[w] = "done"
  /\ job' = IF locked[w] THEN [job EXCEPT ![cur[w]] = "completed"] ELSE job
  /\ EndRun(w)
  /\ UNCHANGED <<requestVars, eventVars, inboxVars, routeVars,
                 made, stalls>>

\* The processor threw: the job waits for its next attempt or has failed.
NackJob(w) ==
  /\ pc[w] = "throw"
  /\ IF locked[w]
       THEN /\ made' = [made EXCEPT ![cur[w]] = tries[w] + 1]
            /\ job' = [job EXCEPT ![cur[w]] =
                         IF tries[w] + 1 < MaxAttempts THEN "waiting" ELSE "failed"]
       ELSE UNCHANGED <<made, job>>
  /\ EndRun(w)
  /\ UNCHANGED <<requestVars, eventVars, inboxVars, routeVars, stalls>>

\* The process running w dies.
Crash(w) ==
  /\ w \in Mortal
  /\ pc[w] # "idle"
  /\ EndRun(w)
  /\ UNCHANGED <<requestVars, eventVars, inboxVars, routeVars, jobVars>>

\* w lives on, but could not renew its lock in time.
LoseLock(w) ==
  /\ w \in Slow
  /\ locked[w]
  /\ locked' = [locked EXCEPT ![w] = FALSE]
  /\ UNCHANGED <<requestVars, eventVars, inboxVars, routeVars,
                 jobVars, pc, cur, tries>>

Owned(e) == \E w \in Workers : cur[w] = e /\ locked[w]

\* The stalled-jobs check: an active job nobody holds the lock of waits again,
\* or fails without running when it has stalled too often.
ReclaimStalled(e) ==
  /\ job[e] = "active"
  /\ ~Owned(e)
  /\ IF stalls[e] < MaxStalls
       THEN /\ stalls' = [stalls EXCEPT ![e] = @ + 1]
            /\ job' = [job EXCEPT ![e] = "waiting"]
       ELSE /\ job' = [job EXCEPT ![e] = "failed"]
            /\ UNCHANGED stalls
  /\ UNCHANGED <<requestVars, eventVars, inboxVars, routeVars, made,
                 pc, runVars>>

-----------------------------------------------------------------------------
(* InboundProcessor.process and handleEvent, up to the message *)

\* Execution w takes step s next, and nothing but its reads has changed.
Goto(w, s) == pc' = [pc EXCEPT ![w] = s]

\* An event that is processed is left alone.
ReadEvent(w) ==
  /\ pc[w] = "read"
  /\ Goto(w, IF cur[w] \in processed THEN "done" ELSE "channel")
  /\ UNCHANGED <<requestVars, eventVars, inboxVars, routeVars,
                 jobVars, runVars>>

\* The channel of the event may have been disconnected, or never existed.
ReadChannel(w) ==
  /\ pc[w] = "channel"
  /\ \E next \in {"upsert", "drop"} : Goto(w, next)
  /\ UNCHANGED <<requestVars, eventVars, inboxVars, routeVars,
                 jobVars, runVars>>

\* There is no connected channel: the event is processed, with a note.
DropEvent(w) ==
  /\ pc[w] = "drop"
  /\ processed' = processed \union {cur[w]}
  /\ dropped' = dropped \union {cur[w]}
  /\ Goto(w, "done")
  /\ UNCHANGED <<requestVars, stored, inboxVars, routeVars,
                 jobVars, runVars>>

\* The transaction on contact, conversation and message.  An echo opens no
\* window.  The mode of a new conversation comes from ai_profiles.enabled, which
\* was read before.  (So was whether the contact exists: it decides on a call to
\* the Graph API, whose failures are swallowed, and on what matches 'new_contact'.)
Upsert(w) ==
  LET e == cur[w]
      c == ContactOf[e]
  IN
  /\ talking' = talking \union {c}
  /\ IF c \in talking
       THEN UNCHANGED mode
       ELSE \E m \in Mode : mode' = [mode EXCEPT ![c] = m]
  /\ lastInbound' = IF e \in Echoes THEN lastInbound
                    ELSE [lastInbound EXCEPT ![c] = Stamp[e]]
  /\ messages' = messages \union {e}

\* Only a message of the contact is routed, and only where no person answers.
AfterUpsert(w) ==
  IF cur[w] \in Echoes \/ mode'[ContactOf[cur[w]]] = "human" THEN "mark" ELSE "flow"

\* (A fault for checking: a mid that exists already is not told apart.)
StoreAgain(w) ==
  /\ pc[w] = "upsert"
  /\ Upsert(w)
  /\ Goto(w, AfterUpsert(w))
  /\ UNCHANGED <<requestVars, eventVars, routeVars, jobVars, runVars>>

\* The UNIQUE mid rolls all of it back for a message that is stored already,
\* and then nothing is routed.
StoreMessage(w) ==
  /\ pc[w] = "upsert"
  /\ IF cur[w] \in messages
       THEN /\ Goto(w, "mark")
            /\ UNCHANGED inboxVars
       ELSE /\ Upsert(w)
            /\ Goto(w, AfterUpsert(w))
  /\ UNCHANGED <<requestVars, eventVars, routeVars, jobVars, runVars>>

-----------------------------------------------------------------------------
(* InboundProcessor.route: the first handler that takes the message ends it *)

\* Handler h acts on e.  It may leave a flow waiting for the next answer, and
\* flow and AI may hand the conversation to a person.
Handle(h, e) ==
  LET c == ContactOf[e] IN
  /\ acted' = [acted EXCEPT ![e] = @ + 1]
  /\ IF h \in {"flow", "trigger"}
       THEN \E more \in BOOLEAN : waiting' = [waiting EXCEPT ![c] = more]
       ELSE UNCHANGED waiting
  /\ \/ UNCHANGED mode
     \/ /\ h # "automation"
        /\ mode' = [mode EXCEPT ![c] = "human"]

\* (b) Is a flow waiting?  An error here ends the routing.
FindWaiting(w) ==
  /\ pc[w] = "flow"
  /\ \/ Goto(w, IF waiting[ContactOf[cur[w]]] THEN "resume" ELSE "automations")
     \/ DbMayFail /\ Goto(w, "mark")
  /\ UNCHANGED <<requestVars, eventVars, inboxVars, routeVars,
                 jobVars, runVars>>

\* (b) It is given the message; nothing checks that it still waits.
ResumeFlow(w) ==
  /\ pc[w] = "resume"
  /\ \/ Handle("flow", cur[w])
     \/ DbMayFail /\ UNCHANGED <<routeVars, mode>>
  /\ Goto(w, "mark")
  /\ UNCHANGED <<requestVars, eventVars, talking, lastInbound, messages,
                 jobVars, runVars>>

\* (c) One automation matches and runs, none does, or reading them fails: that
\* one error is not caught in route.
Automate(w) ==
  /\ pc[w] = "automations"
  /\ \/ /\ Handle("automation", cur[w])
        /\ Goto(w, "mark")
     \/ /\ \/ Goto(w, "trigger")
           \/ DbMayFail /\ Goto(w, "error")
        /\ UNCHANGED <<routeVars, mode>>
  /\ UNCHANGED <<requestVars, eventVars, talking, lastInbound, messages,
                 jobVars, runVars>>

\* (d) A published flow is started, none matches, or an error ends the routing.
Trigger(w) ==
  /\ pc[w] = "trigger"
  /\ \/ /\ Handle("trigger", cur[w])
        /\ Goto(w, "mark")
     \/ /\ \/ Goto(w, "ai")
           \/ DbMayFail /\ Goto(w, "mark")
        /\ UNCHANGED <<routeVars, mode>>
  /\ UNCHANGED <<requestVars, eventVars, talking, lastInbound, messages,
                 jobVars, runVars>>

\* (e) The AI answers, hands over, or does nothing; errors are caught.
ReplyWithAi(w) ==
  /\ pc[w] = "ai"
  /\ \/ Handle("ai", cur[w])
     \/ UNCHANGED <<routeVars, mode>>
  /\ Goto(w, "mark")
  /\ UNCHANGED <<requestVars, eventVars, talking, lastInbound, messages,
                 jobVars, runVars>>

-----------------------------------------------------------------------------
(* InboundProcessor.process: the end *)

MarkProcessed(w) ==
  /\ pc[w] = "mark"
  /\ processed' = processed \union {cur[w]}
  /\ Goto(w, "done")
  /\ UNCHANGED <<requestVars, stored, dropped, inboxVars, routeVars,
                 jobVars, runVars>>

\* (A fault for checking: an event that failed counts as processed.)
RecordAsProcessed(w) ==
  /\ pc[w] = "error"
  /\ processed' = processed \union {cur[w]}
  /\ Goto(w, "throw")
  /\ UNCHANGED <<requestVars, stored, dropped, inboxVars, routeVars,
                 jobVars, runVars>>

\* The error is written to the event's row and goes back to BullMQ.
RecordError(w) ==
  /\ pc[w] = "error"
  /\ Goto(w, "throw")
  /\ UNCHANGED <<requestVars, eventVars, inboxVars, routeVars,
                 jobVars, runVars>>

\* A transaction of the processor fails and is rolled back.
DbError(w) ==
  /\ DbMayFail
  /\ \/ pc[w] \in {"upsert", "mark"} /\ Goto(w, "error")
     \/ pc[w] \in {"read", "channel", "drop", "error"} /\ Goto(w, "throw")
  /\ UNCHANGED <<requestVars, eventVars, inboxVars, routeVars,
                 jobVars, runVars>>

-----------------------------------------------------------------------------
(* What people do meanwhile *)

\* ConversationsController.handover and returnToAi.
SwitchMode(c) ==
  /\ c \in talking
  /\ \E m \in Mode : mode' = [mode EXCEPT ![c] = m]
  /\ UNCHANGED <<requestVars, eventVars, talking, lastInbound, messages,
                 routeVars, jobVars, pc, runVars>>

-----------------------------------------------------------------------------
Ingesting(r) == Receive(r) \/ StoreEvent(r) \/ AddJob(r) \/ IngestFails(r)

Running(w) ==
  \/ ReadEvent(w) \/ ReadChannel(w) \/ DropEvent(w)
  \/ StoreMessage(w)
  \/ FindWaiting(w) \/ ResumeFlow(w) \/ Automate(w) \/ Trigger(w) \/ ReplyWithAi(w)
  \/ MarkProcessed(w) \/ RecordError(w) \/ DbError(w)
  \/ AckJob(w) \/ NackJob(w)

Next ==
  \/ \E r \in Requests : Ingesting(r) \/ IngestDies(r)
  \/ \E w \in Workers, e \in Events : StartJob(w, e)
  \/ \E w \in Workers : Running(w) \/ Crash(w) \/ LoseLock(w)
  \/ \E e \in Events : ReclaimStalled(e)
  \/ \E c \in Contacts : SwitchMode(c)

Spec == Init /\ [][Next]_vars

-----------------------------------------------------------------------------
(* Properties *)

\* However often a request is repeated, a job is retried or two executions of
\* it overlap, one inbound message is acted on by at most one handler, once -
\* and an echo of the business's own message by none.
HandledOnce ==
  \A e \in Events :
    /\ acted[e] <= 1
    /\ e \in Echoes => acted[e] = 0

\* No message is lost behind a processed event: its message is stored, or the
\* row says that no connected channel was there to take it.
ProcessedIsStored == processed \subseteq messages \union dropped

\* An event that was stored and has no job is one a request stopped at: the
\* gap between the row and the queue leaves at most one event per request.
UnqueuedHasARequest ==
  \A e \in stored :
    job[e] = "none" =>
      \E r \in Requests : /\ step[r] \in {"add", "acked", "dead"}
                          /\ at[r] <= Len(BatchOf[r])
                          /\ EventOf(r) = e

\* A job BullMQ counts as completed has an event that is marked processed: none
\* is acknowledged half-way and then forgotten.
CompletedIsProcessed ==
  \A e \in Events : job[e] = "completed" => e \in processed

\* An acknowledged request has left all of its events in webhook_events.
AckedIsStored ==
  \A r \in Requests :
    step[r] = "acked" => \A i \in 1..Len(BatchOf[r]) : BatchOf[r][i] \in stored

\* The events of a sender are handled in their order, so the 24h window never
\* goes back to an older message.
WindowNeverGoesBack ==
  [][\A c \in Contacts : lastInbound'[c] >= lastInbound[c]]_vars
=============================================================================
