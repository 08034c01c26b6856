------------------------------ MODULE Outbound ------------------------------
(***************************************************************************)
(* Outbound messaging: MessagingService creates a message row in state     *)
(* 'queued' and adds a BullMQ job with the row's id; OutboundProcessor     *)
(* takes the job, re-checks the 24h window and the channel, calls the      *)
(* Graph API and records 'sent' or 'failed'.  BullMQ runs a job at least   *)
(* once: it retries one that threw and re-runs one whose worker died.      *)
(* Instagram echoes what the business sends, and the inbound pipeline      *)
(* stores that echo under the same Instagram id (mid) the sent row gets.   *)
(*                                                                         *)
(* Every transaction is one step; the awaits between them are where other  *)
(* workers, a crash or the echo come in.  Rows of one organization only.   *)
(***************************************************************************)
EXTENDS Naturals, FiniteSets

CONSTANTS
  Messages,       (* the outbound messages                                 *)
  Conversations,
  ConvOf,         (* ConvOf[m]: the conversation message m belongs to      *)
  Workers,        (* concurrent executions of the processor                *)
  MaxAttempts,    (* defaultJobOptions.attempts of the queue               *)
  MaxStalls,      (* BullMQ's maxStalledCount: re-runs of a stalled job    *)
  DbMayFail,      (* whether a database transaction may fail               *)
  LocksMayBeLost, (* whether a live worker may lose its job's lock         *)
  None

ASSUME OutboundAssumption ==
  /\ ConvOf \in [Messages -> Conversations]
  /\ MaxAttempts \in Nat \ {0}
  /\ MaxStalls \in Nat
  /\ DbMayFail \in BOOLEAN
  /\ LocksMayBeLost \in BOOLEAN
  /\ None \notin Messages

VARIABLES
  caller,        (* caller[m]: how far the sendAs... call that makes m is  *)
  row,           (* row[m]: messages.status                                *)
  mid,           (* mid[m]: messages.mid, UNIQUE in the table              *)
  echoed,        (* mids of the rows the inbound pipeline stored as echoes *)
  window,        (* window[c]: windowExpiresAt is in the future            *)
  firstResponse, (* firstResponse[c]: the message firstResponseMs is of    *)
  channel,       (* channels.status                                        *)
  accepted,      (* the mids Instagram gave out, one per accepted send     *)
  job,           (* job[m]: state of the BullMQ job with id m              *)
  made,          (* made[m]: job.attemptsMade                              *)
  starts,        (* starts[m]: job.attemptsStarted                         *)
  stalls,        (* stalls[m]: job.stalledCounter                          *)
  pc,            (* pc[w]: the step execution w takes next                 *)
  cur,           (* cur[w]: the message w works on                         *)
  nth,           (* nth[w]: w is the nth start of that job                 *)
  tries,         (* tries[w]: the attemptsMade w saw in its job            *)
  locked,        (* locked[w]: w still holds the lock of its job           *)
  sawNone        (* sawNone[w]: w read firstResponseMs as null             *)

dbVars == <<caller, row, mid, echoed, window, firstResponse, channel>>
jobVars == <<job, made, starts, stalls>>
runVars == <<cur, nth, tries, locked, sawNone>>
vars == <<dbVars, accepted, jobVars, pc, runVars>>

-----------------------------------------------------------------------------
RowStatus == {"absent", "queued", "sent", "failed"}
Settled == {"sent", "failed"}
ChannelStatus == {"active", "token_expired", "disconnected"}
JobState == {"none", "waiting", "active", "completed", "failed"}
CallerStep == {"idle", "checked", "created", "done"}
RunStep == {"idle", "read", "call", "commit", "catch", "expire", "fail",
            "done", "throw"}

\* Every start of a job makes at most one call to the Graph API, so the mid
\* Instagram answers with is named by the message and the start.
MaxStarts == MaxAttempts + MaxStalls
Mids == Messages \X (1..MaxStarts)
MidOf(w) == <<cur[w], nth[w]>>

TypeOK ==
  /\ caller \in [Messages -> CallerStep]
  /\ row \in [Messages -> RowStatus]
  /\ mid \in [Messages -> Mids \union {None}]
  /\ echoed \subseteq Mids
  /\ window \in [Conversations -> BOOLEAN]
  /\ firstResponse \in [Conversations -> Messages \union {None}]
  /\ channel \in ChannelStatus
  /\ accepted \subseteq Mids
  /\ job \in [Messages -> JobState]
  /\ made \in [Messages -> 0..MaxAttempts]
  /\ starts \in [Messages -> 0..MaxStarts]
  /\ stalls \in [Messages -> 0..MaxStalls]
  /\ pc \in [Workers -> RunStep]
  /\ cur \in [Workers -> Messages \union {None}]
  /\ nth \in [Workers -> 0..MaxStarts]
  /\ tries \in [Workers -> 0..MaxAttempts]
  /\ locked \in [Workers -> BOOLEAN]
  /\ sawNone \in [Workers -> BOOLEAN]

Init ==
  /\ caller = [m \in Messages |-> "idle"]
  /\ row = [m \in Messages |-> "absent"]
  /\ mid = [m \in Messages |-> None]
  /\ echoed = {}
  /\ window = [c \in Conversations |-> TRUE]
  /\ firstResponse = [c \in Conversations |-> None]
  /\ channel = "active"
  /\ accepted = {}
  /\ job = [m \in Messages |-> "none"]
  /\ made = [m \in Messages |-> 0]
  /\ starts = [m \in Messages |-> 0]
  /\ stalls = [m \in Messages |-> 0]
  /\ pc = [w \in Workers |-> "idle"]
  /\ cur = [w \in Workers |-> None]
  /\ nth = [w \in Workers |-> 0]
  /\ tries = [w \in Workers |-> 0]
  /\ locked = [w \in Workers |-> FALSE]
  /\ sawNone = [w \in Workers |-> FALSE]

-----------------------------------------------------------------------------
(* MessagingService *)

\* sendAsAgent, sendAsAutomation, sendAsAi, sendAsFlow: the window is checked
\* on a conversation read earlier; a closed one ends the call.
CheckWindow(m) ==
  /\ caller[m] = "idle"
  /\ caller' = [caller EXCEPT ![m] = IF window[ConvOf[m]] THEN "checked" ELSE "done"]
  /\ UNCHANGED <<row, mid, echoed, window, firstResponse, channel,
                 accepted, jobVars, pc, runVars>>

\* enqueue, its transaction: the row is created without looking at the window
\* again.
CreateRow(m) ==
  /\ caller[m] = "checked"
  /\ caller' = [caller EXCEPT ![m] = "created"]
  /\ row' = [row EXCEPT ![m] = "queued"]
  /\ UNCHANGED <<mid, echoed, window, firstResponse, channel,
                 accepted, jobVars, pc, runVars>>

\* enqueue, outboundQueue.add: the id of the job is the id of the row.
AddJob(m) ==
  /\ caller[m] = "created"
  /\ caller' = [caller EXCEPT ![m] = "done"]
  /\ job' = [job EXCEPT ![m] = "waiting"]
  /\ UNCHANGED <<row, mid, echoed, window, firstResponse, channel,
                 accepted, made, starts, stalls, pc, runVars>>

\* The process dies, or a call fails, between two steps of the caller: a row
\* that was created stays 'queued' and no job will ever send it.
AbandonCall(m) ==
  /\ caller[m] \in {"checked", "created"}
  /\ caller' = [caller EXCEPT ![m] = "done"]
  /\ UNCHANGED <<row, mid, echoed, window, firstResponse, channel,
                 accepted, jobVars, pc, runVars>>

-----------------------------------------------------------------------------
(* BullMQ *)

\* A free worker takes a waiting job and its lock.
StartJob(w, m) ==
  /\ pc[w] = "idle"
  /\ job[m] = "waiting"
  /\ job' = [job EXCEPT ![m] = "active"]
  /\ starts' = [starts EXCEPT ![m] = @ + 1]
  /\ pc' = [pc EXCEPT ![w] = "read"]
  /\ cur' = [cur EXCEPT ![w] = m]
  /\ nth' = [nth EXCEPT ![w] = starts[m] + 1]
  /\ tries' = [tries EXCEPT ![w] = made[m]]
  /\ locked' = [locked EXCEPT ![w] = TRUE]
  /\ UNCHANGED <<dbVars, accepted, made, stalls, sawNone>>

\* Execution w is over; its slot takes another job later.
EndRun(w) ==
  /\ pc' = [pc EXCEPT ![w] = "idle"]
  /\ cur' = [cur EXCEPT ![w] = None]
  /\ nth' = [nth EXCEPT ![w] = 0]
  /\ tries' = [tries EXCEPT ![w] = 0]
  /\ locked' = [locked EXCEPT ![w] = FALSE]
  /\ sawNone' = [sawNone EXCEPT ![w] = FALSE]

\* The processor returned: the job is completed if the lock is still held.
AckJob(w) ==
  /\ pc[w] = "done"
  /\ job' = IF locked[w] THEN [job EXCEPT ![cur[w]] = "completed"] ELSE job
  /\ EndRun(w)
  /\ UNCHANGED <<dbVars, accepted, made, starts, stalls>>

\* (A fault for checking: attempts are not counted.)
NackUncounted(w) ==
  /\ pc[w] = "throw"
  /\ job' = IF locked[w] THEN [job EXCEPT ![cur[w]] = "waiting"] ELSE job
  /\ EndRun(w)
  /\ UNCHANGED <<dbVars, accepted, made, starts, stalls>>

\* The processor threw: the job waits for its next attempt or has failed.
NackJob(w) ==
  /\ pc[w] = "throw"
  /\ IF locked[w]
       THEN /\ made' = [made EXCEPT ![cur[w]] = tries[w] + 1]
            /\ job' = [job EXCEPT ![cur[w]] =
                         IF tries[w] + 1 < MaxAttempts THEN "waiting" ELSE "failed"]
       ELSE UNCHANGED <<made, job>>
  /\ EndRun(w)
  /\ UNCHANGED <<dbVars, accepted, starts, stalls>>

\* The process running w dies.
Crash(w) ==
  /\ pc[w] # "idle"
  /\ EndRun(w)
  /\ UNCHANGED <<dbVars, accepted, jobVars>>

\* w lives on, but could not renew its lock in time.
LoseLock(w) ==
  /\ LocksMayBeLost
  /\ locked[w]
  /\ locked' = [locked EXCEPT ![w] = FALSE]
  /\ UNCHANGED <<dbVars, accepted, jobVars, pc, cur, nth, tries, sawNone>>

Owned(m) == \E w \in Workers : cur[w] = m /\ locked[w]

\* The stalled-jobs check: an active job nobody holds the lock of waits again,
\* or fails without running when it has stalled too often.
ReclaimStalled(m) ==
  /\ job[m] = "active"
  /\ ~Owned(m)
  /\ IF stalls[m] < MaxStalls
       THEN /\ stalls' = [stalls EXCEPT ![m] = @ + 1]
            /\ job' = [job EXCEPT ![m] = "waiting"]
       ELSE /\ job' = [job EXCEPT ![m] = "failed"]
            /\ UNCHANGED stalls
  /\ UNCHANGED <<dbVars, accepted, made, starts, pc, runVars>>

-----------------------------------------------------------------------------
(* OutboundProcessor.process *)

\* (A fault for checking: the status of the row is not looked at.)
VerdictUnchecked(m) ==
  IF ~window[ConvOf[m]] \/ channel # "active" THEN "fail" ELSE "call"

\* What the processor decides after its one read of row, conversation and
\* channel.
Verdict(m) ==
  IF row[m] # "queued" THEN "done"
  ELSE IF ~window[ConvOf[m]] \/ channel # "active" THEN "fail"
  ELSE "call"

Read(w) ==
  /\ pc[w] = "read"
  /\ pc' = [pc EXCEPT ![w] = Verdict(cur[w])]
  /\ sawNone' = [sawNone EXCEPT ![w] = firstResponse[ConvOf[cur[w]]] = None]
  /\ UNCHANGED <<dbVars, accepted, jobVars, cur, nth, tries, locked>>

\* The Graph API accepts the message; its answer may be lost (15s timeout).
CallAccepted(w) ==
  /\ pc[w] = "call"
  /\ accepted' = accepted \union {MidOf(w)}
  /\ \E next \in {"commit", "catch"} : pc' = [pc EXCEPT ![w] = next]
  /\ UNCHANGED <<dbVars, jobVars, runVars>>

\* (A fault for checking: the status of the HTTP answer is not looked at.)
CallUnchecked(w) ==
  /\ pc[w] = "call"
  /\ pc' = [pc EXCEPT ![w] = "commit"]
  /\ UNCHANGED <<dbVars, accepted, jobVars, runVars>>

\* It refuses the token (error 190), or the call fails in any other way.
CallRefused(w) ==
  /\ pc[w] = "call"
  /\ \E next \in {"expire", "catch"} : pc' = [pc EXCEPT ![w] = next]
  /\ UNCHANGED <<dbVars, accepted, jobVars, runVars>>

\* The transaction that records the send.  The mid is UNIQUE: if the echo of
\* this send was stored first the transaction fails, inside the try.
Commit(w) ==
  LET m == cur[w] IN
  /\ pc[w] = "commit"
  /\ IF MidOf(w) \in echoed
       THEN /\ pc' = [pc EXCEPT ![w] = "catch"]
            /\ UNCHANGED <<row, mid, firstResponse>>
       ELSE /\ row' = [row EXCEPT ![m] = "sent"]
            /\ mid' = [mid EXCEPT ![m] = MidOf(w)]
            /\ firstResponse' =
                 IF sawNone[w] THEN [firstResponse EXCEPT ![ConvOf[m]] = m]
                               ELSE firstResponse
            /\ pc' = [pc EXCEPT ![w] = "done"]
  /\ UNCHANGED <<caller, echoed, window, channel, accepted, jobVars, runVars>>

\* Error 190: the channel is marked, the message fails and is not retried.
Expire(w) ==
  /\ pc[w] = "expire"
  /\ channel' = "token_expired"
  /\ pc' = [pc EXCEPT ![w] = "fail"]
  /\ UNCHANGED <<caller, row, mid, echoed, window, firstResponse,
                 accepted, jobVars, runVars>>

\* (A fault for checking: the outcome is only emitted, not stored.)
FailUnstored(w) ==
  /\ pc[w] = "fail"
  /\ pc' = [pc EXCEPT ![w] = "done"]
  /\ UNCHANGED <<dbVars, accepted, jobVars, runVars>>

\* fail(): writes 'failed' whatever the row says by now.
Fail(w) ==
  /\ pc[w] = "fail"
  /\ row' = [row EXCEPT ![cur[w]] = "failed"]
  /\ pc' = [pc EXCEPT ![w] = "done"]
  /\ UNCHANGED <<caller, mid, echoed, window, firstResponse, channel,
                 accepted, jobVars, runVars>>

IsLastAttempt(w) == tries[w] + 1 >= MaxAttempts

\* Any other error of the try block: the last attempt fails the message, and
\* the error goes back to BullMQ.
Catch(w) ==
  /\ pc[w] = "catch"
  /\ row' = IF IsLastAttempt(w) THEN [row EXCEPT ![cur[w]] = "failed"] ELSE row
  /\ pc' = [pc EXCEPT ![w] = "throw"]
  /\ UNCHANGED <<caller, mid, echoed, window, firstResponse, channel,
                 accepted, jobVars, runVars>>

\* A transaction of the processor fails and is rolled back.  Only the one that
\* records the send is inside the try.
DbError(w) ==
  /\ DbMayFail
  /\ \/ /\ pc[w] = "commit"
        /\ pc' = [pc EXCEPT ![w] = "catch"]
     \/ /\ pc[w] \in {"read", "expire", "fail", "catch"}
        /\ pc' = [pc EXCEPT ![w] = "throw"]
  /\ UNCHANGED <<dbVars, accepted, jobVars, runVars>>

-----------------------------------------------------------------------------
(* What the rest of the system does to the rows the processor reads *)

\* (A fault for checking: the echo is stored without the UNIQUE mid.)
StoreEchoAgain(d) ==
  /\ d \in accepted \ echoed
  /\ echoed' = echoed \union {d}
  /\ UNCHANGED <<caller, row, mid, window, firstResponse, channel,
                 accepted, jobVars, pc, runVars>>

\* The inbound pipeline stores the echo of an accepted send, unless a row has
\* its mid already.
StoreEcho(d) ==
  /\ d \in accepted \ echoed
  /\ \A m \in Messages : mid[m] # d
  /\ echoed' = echoed \union {d}
  /\ UNCHANGED <<caller, row, mid, window, firstResponse, channel,
                 accepted, jobVars, pc, runVars>>

\* 24h pass since the last inbound message, or a new one arrives.
MoveWindow(c) ==
  /\ window' = [window EXCEPT ![c] = ~@]
  /\ UNCHANGED <<caller, row, mid, echoed, firstResponse, channel,
                 accepted, jobVars, pc, runVars>>

\* The channel is disconnected or connected again.  A failed probe ('error')
\* looks to the processor like a disconnected channel.
MoveChannel ==
  /\ channel' \in {"active", "disconnected"} \ {channel}
  /\ UNCHANGED <<caller, row, mid, echoed, window, firstResponse,
                 accepted, jobVars, pc, runVars>>

-----------------------------------------------------------------------------
Submitting(m) == CheckWindow(m) \/ CreateRow(m) \/ AddJob(m)

Running(w) ==
  \/ Read(w) \/ CallAccepted(w) \/ CallRefused(w) \/ Commit(w)
  \/ Expire(w) \/ Fail(w) \/ Catch(w) \/ DbError(w)
  \/ AckJob(w) \/ NackJob(w)

Next ==
  \/ \E m \in Messages : Submitting(m) \/ AbandonCall(m) \/ ReclaimStalled(m)
  \/ \E w \in Workers, m \in Messages : StartJob(w, m)
  \/ \E w \in Workers : Running(w) \/ Crash(w) \/ LoseLock(w)
  \/ \E d \in Mids : StoreEcho(d)
  \/ \E c \in Conversations : MoveWindow(c)
  \/ MoveChannel

\* BullMQ keeps handing out waiting jobs and checking for stalled ones, and an
\* execution that is not killed takes its next step.
Fairness ==
  /\ \A w \in Workers : WF_vars(Running(w))
  /\ \A m \in Messages : /\ WF_vars(\E w \in Workers : StartJob(w, m))
                         /\ WF_vars(ReclaimStalled(m))

Spec == Init /\ [][Next]_vars

FairSpec == Spec /\ Fairness

-----------------------------------------------------------------------------
(* Properties *)

\* A message shown as sent was accepted by Instagram, and its mid is one that
\* Instagram gave out for this very message, whichever of its executions
\* recorded it.
SentWasAccepted ==
  \A m \in Messages :
    row[m] = "sent" => mid[m] \in accepted /\ mid[m][1] = m

\* A job BullMQ counts as completed has a message with an outcome: the
\* processor never acknowledges a message that is still queued, which nobody
\* would ever look at again.
CompletedIsSettled ==
  \A m \in Messages : job[m] = "completed" => row[m] \in Settled

\* A message is stored in the inbox once: no row of the echo lives beside the
\* sent row it is the echo of.
EchoIsNotDoubled ==
  \A m \in Messages : mid[m] \notin echoed

\* A message is accepted by Instagram at most once for each attempt of the
\* retry policy and each stall BullMQ forgives, and never before it has a row.
HandOffsAreBounded ==
  \A m \in Messages :
    /\ (\E d \in accepted : d[1] = m) => row[m] # "absent"
    /\ \A d \in accepted : d[1] = m => d[2] <= made[m] + stalls[m] + 1

\* Without lost locks, outbound messaging implements Delivery: one execution
\* at a time works on a message, so an outcome is final and a message with an
\* outcome is never handed to Instagram again.
Promise ==
  INSTANCE Delivery WITH
    MaxHandOffs <- MaxStarts,
    status <- row,
    handOffs <- [m \in Messages |-> {n \in 1..MaxStarts : <<m, n>> \in accepted}]

ImplementsDelivery == Promise!Spec

\* Every message whose job was added gets an outcome, or its job ends in the
\* failed set where operators see it.
JobsEnd ==
  \A m \in Messages :
    job[m] = "waiting" ~> row[m] \in Settled \/ job[m] = "failed"

\* An execution Instagram answered with a mid records its message as sent: the
\* transaction that does so is not turned back by anything the system itself
\* wrote (no fault of the database or the worker is in play here).
AnswerIsRecorded ==
  [][\A w \in Workers :
       pc[w] = "commit" /\ pc'[w] \in {"done", "catch"} => row'[cur[w]] = "sent"]_vars
=============================================================================
