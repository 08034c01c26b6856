--------------------------- MODULE InboundProofs ---------------------------
(***************************************************************************)
(* Proofs about Inbound, for any events, requests and workers, any number  *)
(* of attempts and stalls, and with every fault allowed to every process.  *)
(***************************************************************************)
EXTENDS Inbound, TLAPS

\* A request in the loop is at an event of its batch, and at most one request
\* is about to add the job of an event, which has none yet.
RequestShape ==
  /\ \A r \in Requests : step[r] = "idle" => at[r] = 1
  /\ \A r \in Requests : step[r] \in {"store", "add"} => at[r] \in 1..Len(BatchOf[r])
  /\ \A r \in Requests : step[r] = "add" => /\ EventOf(r) \in stored
                                           /\ job[EventOf(r)] = "none"
  /\ \A q, r \in Requests :
       step[q] = "add" /\ step[r] = "add" /\ EventOf(q) = EventOf(r) => q = r

\* Only a stored event has a job, and only such an event is worked on.
RunShape ==
  /\ \A e \in Events : job[e] # "none" => e \in stored
  /\ \A w \in Workers :
       IF pc[w] = "idle" THEN cur[w] = None /\ ~locked[w] ELSE cur[w] \in stored

\* While an execution holds the lock of a job the job is active and has the
\* number of attempts the execution saw; a job that may run has attempts left.
LockShape ==
  /\ \A w \in Workers : locked[w] => /\ job[cur[w]] = "active"
                                     /\ tries[w] = made[cur[w]]
  /\ \A e \in Events :
       job[e] \in {"none", "waiting", "active"} => made[e] < MaxAttempts

OneOwner ==
  \A v, w \in Workers : locked[v] /\ locked[w] /\ cur[v] = cur[w] => v = w

\* Only the execution that stored a message routes it, and nothing has acted on
\* the message before.
RouteShape ==
  /\ \A w \in Workers : pc[w] \in RouteStep => /\ cur[w] \in messages \ Echoes
                                              /\ acted[cur[w]] = 0
  /\ \A v, w \in Workers :
       pc[v] \in RouteStep /\ pc[w] \in RouteStep /\ cur[v] = cur[w] => v = w
  /\ \A e \in Events : acted[e] # 0 => e \in messages \ Echoes

\* What the last steps of an execution may rely on.
RunProgress ==
  \A w \in Workers :
    /\ pc[w] = "mark" => cur[w] \in messages
    /\ pc[w] = "done" => cur[w] \in processed

IInv ==
  /\ TypeOK
  /\ RequestShape
  /\ RunShape
  /\ LockShape
  /\ OneOwner
  /\ RouteShape
  /\ RunProgress
  /\ HandledOnce
  /\ ProcessedIsStored
  /\ UnqueuedHasARequest
  /\ CompletedIsProcessed

\* The constants, apart from the batches.
LEMMA Constants ==
  /\ Echoes \subseteq Events
  /\ ContactOf \in [Events -> Contacts]
  /\ MaxStamp \in Nat
  /\ Stamp \in [Events -> 1..MaxStamp]
  /\ MaxAttempts \in Nat \ {0}
  /\ MaxStalls \in Nat
  /\ None \notin Events
  BY InboundAssumption

LEMMA Batches ==
  ASSUME NEW r \in Requests
  PROVE  /\ Len(BatchOf[r]) \in Nat
         /\ \A i \in 1..Len(BatchOf[r]) : BatchOf[r][i] \in Events
         /\ BatchOf[r] # <<>> => Len(BatchOf[r]) > 0
  BY InboundAssumption

\* A step of a job that exists is no concern of the requests.
LEMMA KeepRequests ==
  ASSUME RequestShape, UnqueuedHasARequest, UNCHANGED <<step, at, stored>>,
         \A e \in stored : job[e] = "none" <=> job'[e] = "none"
  PROVE  RequestShape' /\ UnqueuedHasARequest'
  BY DEF RequestShape, UnqueuedHasARequest, EventOf

LEMMA Inductive == IInv /\ [Next]_vars => IInv'
<1> SUFFICES ASSUME IInv, [Next]_vars PROVE IInv'
  OBVIOUS
<1> USE Constants DEF IInv, requestVars, eventVars, inboxVars, routeVars,
     jobVars, runVars, RequestStep, Mode, JobState, RouteStep, RunStep, Goto
<1>1. ASSUME NEW r \in Requests, Receive(r)
      PROVE  IInv'
  <2>1. TypeOK'
    BY <1>1 DEF Receive, TypeOK
  <2>2. RequestShape'
    BY <1>1, Batches DEF Receive, RequestShape, EventOf, TypeOK
  <2>3. UnqueuedHasARequest'
    BY <1>1 DEF Receive, UnqueuedHasARequest, EventOf
  <2>4. RunShape' /\ LockShape' /\ OneOwner' /\ RouteShape' /\ RunProgress' /\
       HandledOnce' /\ ProcessedIsStored' /\ CompletedIsProcessed'
    BY <1>1 DEF Receive, RunShape, LockShape, OneOwner, RouteShape,
      RunProgress, HandledOnce, ProcessedIsStored, CompletedIsProcessed
  <2> QED BY <2>1, <2>2, <2>3, <2>4
<1>2. ASSUME NEW r \in Requests, StoreEvent(r)
      PROVE  IInv'
  <2>1. TypeOK'
    <3>1. EventOf(r) \in Events
      BY <1>2, Batches DEF StoreEvent, RequestShape, EventOf
    <3>2. CASE EventOf(r) \in stored
      <4>1. step' \in [Requests -> RequestStep] /\ at' \in [Requests -> Nat]
        <5>1. at' = [at EXCEPT ![r] = @ + 1] /\ at \in [Requests -> Nat]
          BY <1>2, <3>2 DEF StoreEvent, Advance, TypeOK
        <5>2. \E s \in {"store", "acked"} : step' = [step EXCEPT ![r] = s]
          BY <1>2, <3>2 DEF StoreEvent, Advance
        <5> QED BY <5>1, <5>2 DEF TypeOK
      <4> QED BY <1>2, <3>2, <4>1 DEF StoreEvent, TypeOK
    <3>3. CASE EventOf(r) \notin stored
      BY <1>2, <3>1, <3>3 DEF StoreEvent, TypeOK
    <3> QED BY <3>2, <3>3
  <2>2. RequestShape'
    <3>1. CASE EventOf(r) \in stored
      <4>1. at[r] \in Nat /\ Len(BatchOf[r]) \in Nat
        BY Batches DEF TypeOK
      <4>2. \A q \in Requests \ {r} :
              step'[q] = step[q] /\ at'[q] = at[q] /\ EventOf(q)' = EventOf(q)
        BY <1>2, <3>1 DEF StoreEvent, Advance, TypeOK, EventOf
      <4>3. step'[r] \in {"store", "acked"}
        BY <1>2, <3>1 DEF StoreEvent, Advance, TypeOK
      <4>4. step'[r] = "store" => at'[r] \in 1..Len(BatchOf[r])
        BY <1>2, <3>1, <4>1 DEF StoreEvent, Advance, TypeOK
      <4>5. UNCHANGED <<stored, job>>
        BY <1>2, <3>1 DEF StoreEvent
      <4> QED BY <4>2, <4>3, <4>4, <4>5 DEF RequestShape
    <3>2. CASE EventOf(r) \notin stored
      <4>1. EventOf(r) \in Events
        BY <1>2, Batches DEF StoreEvent, RequestShape, EventOf
      <4>2. \A q \in Requests : EventOf(q)' = EventOf(q) /\ at'[q] = at[q]
        BY <1>2, <3>2 DEF StoreEvent, EventOf
      <4>3. \A q \in Requests \ {r} : step'[q] = step[q]
        BY <1>2, <3>2 DEF StoreEvent, TypeOK
      <4>4. step'[r] = "add" /\ EventOf(r) \in stored' /\ job'[EventOf(r)] = "none"
        BY <1>2, <3>2, <4>1 DEF StoreEvent, TypeOK, RunShape
      <4>5. stored \subseteq stored' /\ job' = job
        BY <1>2, <3>2 DEF StoreEvent
      <4> QED BY <1>2, <3>2, <4>2, <4>3, <4>4, <4>5 DEF StoreEvent, RequestShape
    <3> QED BY <3>1, <3>2
  <2>3. RunShape'
    BY <1>2 DEF StoreEvent, Advance, EventOf, RunShape
  <2>4. UnqueuedHasARequest'
    <3>1. CASE EventOf(r) \in stored
      <4>1. \A q \in Requests \ {r} :
              step'[q] = step[q] /\ at'[q] = at[q] /\ EventOf(q)' = EventOf(q)
        BY <1>2, <3>1 DEF StoreEvent, Advance, TypeOK, EventOf
      <4> QED BY <1>2, <3>1, <4>1 DEF StoreEvent, UnqueuedHasARequest
    <3>2. CASE EventOf(r) \notin stored
      <4>1. \A q \in Requests : EventOf(q)' = EventOf(q) /\ at'[q] = at[q]
        BY <1>2, <3>2 DEF StoreEvent, EventOf
      <4>2. \A q \in Requests : step[q] # "store" => step'[q] = step[q]
        BY <1>2, <3>2 DEF StoreEvent, TypeOK
      <4>3. step'[r] = "add" /\ at[r] <= Len(BatchOf[r])
        BY <1>2, <3>2, Batches DEF StoreEvent, TypeOK, RequestShape
      <4> QED BY <1>2, <3>2, <4>1, <4>2, <4>3 DEF StoreEvent, UnqueuedHasARequest
    <3> QED BY <3>1, <3>2
  <2>5. LockShape' /\ OneOwner' /\ RouteShape' /\ RunProgress' /\
       HandledOnce' /\ ProcessedIsStored' /\ CompletedIsProcessed'
    BY <1>2 DEF StoreEvent, Advance, EventOf, LockShape, OneOwner, RouteShape,
      RunProgress, HandledOnce, ProcessedIsStored, CompletedIsProcessed
  <2> QED BY <2>1, <2>2, <2>3, <2>4, <2>5
<1>3. ASSUME NEW r \in Requests, AddJob(r)
      PROVE  IInv'
  <2>1. TypeOK'
    <3>1. EventOf(r) \in Events
      BY <1>3, Batches DEF AddJob, RequestShape, EventOf
    <3>2. at[r] \in Nat /\ Len(BatchOf[r]) \in Nat
      BY Batches DEF TypeOK
    <3> QED BY <1>3, <3>1, <3>2 DEF AddJob, Advance, TypeOK
  <2>2. RequestShape'
    <3>1. EventOf(r) \in Events
      BY <1>3, Batches DEF AddJob, RequestShape, EventOf
    <3>2. at[r] \in Nat /\ Len(BatchOf[r]) \in Nat
      BY Batches DEF TypeOK
    <3>3. \A q \in Requests \ {r} :
            /\ step'[q] = step[q] /\ at'[q] = at[q] /\ EventOf(q)' = EventOf(q)
            /\ step[q] = "add" => EventOf(q) # EventOf(r)
      BY <1>3 DEF AddJob, Advance, TypeOK, RequestShape, EventOf
    <3>4. step'[r] \in {"store", "acked"}
      BY <1>3 DEF AddJob, Advance, TypeOK
    <3>5. step'[r] = "store" => at'[r] \in 1..Len(BatchOf[r])
      BY <1>3, <3>2 DEF AddJob, Advance, TypeOK
    <3>6. stored' = stored /\ job' = [job EXCEPT ![EventOf(r)] = "waiting"]
      BY <1>3 DEF AddJob
    <3>7. \A q \in Requests \ {r} : step[q] = "add" =>
            EventOf(q) \in stored /\ job'[EventOf(q)] = "none"
      BY <3>3, <3>6 DEF TypeOK, RequestShape
    <3> QED BY <3>3, <3>4, <3>5, <3>6, <3>7 DEF RequestShape
  <2>3. RunShape'
    BY <1>3 DEF AddJob, Advance, EventOf, RunShape, RequestShape, LockShape,
      EventOf
  <2>4. LockShape'
    BY <1>3 DEF AddJob, LockShape, RequestShape, RunShape, TypeOK
  <2>5. UnqueuedHasARequest'
    <3>1. EventOf(r) \in Events
      BY <1>3, Batches DEF AddJob, RequestShape, EventOf
    <3>2. at[r] \in Nat /\ Len(BatchOf[r]) \in Nat
      BY Batches DEF TypeOK
    <3> QED BY <1>3, <3>1, <3>2 DEF AddJob, Advance, TypeOK, RequestShape,
           UnqueuedHasARequest, EventOf
  <2>6. CompletedIsProcessed'
    BY <1>3 DEF AddJob, Advance, EventOf, CompletedIsProcessed
  <2>7. OneOwner' /\ RouteShape' /\ RunProgress' /\ HandledOnce' /\
       ProcessedIsStored'
    BY <1>3 DEF AddJob, Advance, EventOf, OneOwner, RouteShape, RunProgress,
      HandledOnce, ProcessedIsStored
  <2> QED BY <2>1, <2>2, <2>3, <2>4, <2>5, <2>6, <2>7
<1>4. ASSUME NEW r \in Requests, IngestFails(r)
      PROVE  IInv'
  <2>1. TypeOK'
    BY <1>4 DEF IngestFails, TypeOK
  <2>2. RequestShape'
    BY <1>4 DEF IngestFails, RequestShape, EventOf
  <2>3. UnqueuedHasARequest'
    BY <1>4 DEF IngestFails, UnqueuedHasARequest, EventOf
  <2>4. RunShape' /\ LockShape' /\ OneOwner' /\ RouteShape' /\ RunProgress' /\
       HandledOnce' /\ ProcessedIsStored' /\ CompletedIsProcessed'
    BY <1>4 DEF IngestFails, RunShape, LockShape, OneOwner, RouteShape,
      RunProgress, HandledOnce, ProcessedIsStored, CompletedIsProcessed
  <2> QED BY <2>1, <2>2, <2>3, <2>4
<1>5. ASSUME NEW r \in Requests, IngestDies(r)
      PROVE  IInv'
  <2>1. TypeOK'
    BY <1>5 DEF IngestDies, TypeOK
  <2>2. RequestShape'
    BY <1>5 DEF IngestDies, RequestShape, EventOf
  <2>3. UnqueuedHasARequest'
    BY <1>5 DEF IngestDies, UnqueuedHasARequest, EventOf
  <2>4. RunShape' /\ LockShape' /\ OneOwner' /\ RouteShape' /\ RunProgress' /\
       HandledOnce' /\ ProcessedIsStored' /\ CompletedIsProcessed'
    BY <1>5 DEF IngestDies, RunShape, LockShape, OneOwner, RouteShape,
      RunProgress, HandledOnce, ProcessedIsStored, CompletedIsProcessed
  <2> QED BY <2>1, <2>2, <2>3, <2>4
<1>6. ASSUME NEW w \in Workers, NEW e \in Events, StartJob(w, e)
      PROVE  IInv'
  <2>1. TypeOK'
    BY <1>6 DEF StartJob, TypeOK
  <2>2. RequestShape'
    <3>1. \A d \in stored : job[d] = "none" <=> job'[d] = "none"
      BY <1>6 DEF StartJob, TypeOK, RunShape, LockShape
    <3> QED BY <1>6, <3>1, KeepRequests DEF StartJob
  <2>3. RunShape'
    BY <1>6 DEF StartJob, RunShape, TypeOK
  <2>4. LockShape'
    BY <1>6 DEF StartJob, LockShape, TypeOK
  <2>5. OneOwner'
    BY <1>6 DEF StartJob, OneOwner, RunShape, LockShape, TypeOK
  <2>6. RouteShape'
    BY <1>6 DEF StartJob, RouteShape
  <2>7. RunProgress'
    BY <1>6 DEF StartJob, RunProgress
  <2>8. UnqueuedHasARequest'
    <3>1. \A d \in stored : job[d] = "none" <=> job'[d] = "none"
      BY <1>6 DEF StartJob, TypeOK, RunShape, LockShape
    <3> QED BY <1>6, <3>1, KeepRequests DEF StartJob
  <2>9. CompletedIsProcessed'
    BY <1>6 DEF StartJob, CompletedIsProcessed
  <2>10. HandledOnce' /\ ProcessedIsStored'
    BY <1>6 DEF StartJob, HandledOnce, ProcessedIsStored
  <2> QED BY <2>1, <2>2, <2>3, <2>4, <2>5, <2>6, <2>7, <2>8, <2>9, <2>10
<1>7. ASSUME NEW w \in Workers, ReadEvent(w)
      PROVE  IInv'
  <2>1. TypeOK'
    BY <1>7 DEF ReadEvent, TypeOK
  <2>2. RunShape'
    BY <1>7 DEF ReadEvent, RunShape
  <2>3. RouteShape'
    BY <1>7 DEF ReadEvent, RouteShape
  <2>4. RunProgress'
    BY <1>7 DEF ReadEvent, RunProgress
  <2>5. RequestShape' /\ LockShape' /\ OneOwner' /\ HandledOnce' /\
       ProcessedIsStored' /\ UnqueuedHasARequest' /\ CompletedIsProcessed'
    BY <1>7 DEF ReadEvent, RequestShape, LockShape, OneOwner, HandledOnce,
      ProcessedIsStored, UnqueuedHasARequest, CompletedIsProcessed, EventOf,
      EventOf
  <2> QED BY <2>1, <2>2, <2>3, <2>4, <2>5
<1>8. ASSUME NEW w \in Workers, ReadChannel(w)
      PROVE  IInv'
  <2>1. TypeOK'
    BY <1>8 DEF ReadChannel, TypeOK
  <2>2. RunShape'
    BY <1>8 DEF ReadChannel, RunShape
  <2>3. RouteShape'
    BY <1>8 DEF ReadChannel, RouteShape
  <2>4. RunProgress'
    BY <1>8 DEF ReadChannel, RunProgress
  <2>5. RequestShape' /\ LockShape' /\ OneOwner' /\ HandledOnce' /\
       ProcessedIsStored' /\ UnqueuedHasARequest' /\ CompletedIsProcessed'
    BY <1>8 DEF ReadChannel, RequestShape, LockShape, OneOwner, HandledOnce,
      ProcessedIsStored, UnqueuedHasARequest, CompletedIsProcessed, EventOf,
      EventOf
  <2> QED BY <2>1, <2>2, <2>3, <2>4, <2>5
<1>9. ASSUME NEW w \in Workers, DropEvent(w)
      PROVE  IInv'
  <2>1. TypeOK'
    BY <1>9 DEF DropEvent, TypeOK, RunShape, LockShape, RequestShape, EventOf
  <2>2. RunShape'
    BY <1>9 DEF DropEvent, RunShape
  <2>3. RouteShape'
    BY <1>9 DEF DropEvent, RouteShape
  <2>4. RunProgress'
    BY <1>9 DEF DropEvent, RunProgress
  <2>5. ProcessedIsStored'
    BY <1>9 DEF DropEvent, ProcessedIsStored
  <2>6. CompletedIsProcessed'
    BY <1>9 DEF DropEvent, CompletedIsProcessed
  <2>7. RequestShape' /\ LockShape' /\ OneOwner' /\ HandledOnce' /\
       UnqueuedHasARequest'
    BY <1>9 DEF DropEvent, RequestShape, LockShape, OneOwner, HandledOnce,
      UnqueuedHasARequest, EventOf, EventOf
  <2> QED BY <2>1, <2>2, <2>3, <2>4, <2>5, <2>6, <2>7
<1>10. ASSUME NEW w \in Workers, StoreMessage(w)
      PROVE  IInv'
  <2>1. TypeOK'
    <3>1. CASE cur[w] \in messages
      BY <1>10, <3>1 DEF StoreMessage, TypeOK
    <3>2. CASE cur[w] \notin messages
      <4>1. cur[w] \in stored /\ cur[w] \in Events /\ ContactOf[cur[w]] \in Contacts
        BY <1>10 DEF StoreMessage, RunShape, TypeOK
      <4>2. mode' \in [Contacts -> Mode] /\ talking' \subseteq Contacts
        BY <1>10, <3>2, <4>1 DEF StoreMessage, Upsert, TypeOK
      <4>3. lastInbound' \in [Contacts -> 0..MaxStamp]
        BY <1>10, <3>2, <4>1 DEF StoreMessage, Upsert, TypeOK
      <4>4. pc' \in [Workers -> RunStep]
        BY <1>10, <3>2 DEF StoreMessage, AfterUpsert, TypeOK
      <4> QED BY <1>10, <3>2, <4>1, <4>2, <4>3, <4>4 DEF StoreMessage, Upsert, TypeOK
    <3> QED BY <3>1, <3>2
  <2>2. RunShape'
    BY <1>10 DEF StoreMessage, Upsert, AfterUpsert, RunShape, TypeOK
  <2>3. RouteShape'
    BY <1>10 DEF StoreMessage, Upsert, AfterUpsert, RouteShape, TypeOK,
      RunShape, RunProgress
  <2>4. RunProgress'
    BY <1>10 DEF StoreMessage, Upsert, AfterUpsert, RunProgress, TypeOK
  <2>5. ProcessedIsStored'
    BY <1>10 DEF StoreMessage, Upsert, AfterUpsert, ProcessedIsStored
  <2>6. RequestShape' /\ LockShape' /\ OneOwner' /\ HandledOnce' /\
       UnqueuedHasARequest' /\ CompletedIsProcessed'
    BY <1>10 DEF StoreMessage, Upsert, AfterUpsert, RequestShape, LockShape,
      OneOwner, HandledOnce, UnqueuedHasARequest, CompletedIsProcessed,
      EventOf, EventOf
  <2> QED BY <2>1, <2>2, <2>3, <2>4, <2>5, <2>6
<1>11. ASSUME NEW w \in Workers, FindWaiting(w)
      PROVE  IInv'
  <2>1. TypeOK'
    BY <1>11 DEF FindWaiting, TypeOK
  <2>2. RunShape'
    BY <1>11 DEF FindWaiting, RunShape, TypeOK
  <2>3. RouteShape'
    BY <1>11 DEF FindWaiting, RouteShape, TypeOK
  <2>4. RunProgress'
    BY <1>11 DEF FindWaiting, RunProgress, TypeOK, RunShape, RouteShape
  <2>5. RequestShape' /\ LockShape' /\ OneOwner' /\ HandledOnce' /\
       ProcessedIsStored' /\ UnqueuedHasARequest' /\ CompletedIsProcessed'
    BY <1>11 DEF FindWaiting, RequestShape, LockShape, OneOwner, HandledOnce,
      ProcessedIsStored, UnqueuedHasARequest, CompletedIsProcessed, EventOf,
      EventOf
  <2> QED BY <2>1, <2>2, <2>3, <2>4, <2>5
<1>12. ASSUME NEW w \in Workers, ResumeFlow(w)
      PROVE  IInv'
  <2>1. TypeOK'
    BY <1>12 DEF ResumeFlow, Handle, TypeOK
  <2>2. RunShape'
    BY <1>12 DEF ResumeFlow, Handle, RunShape
  <2>3. RouteShape'
    BY <1>12 DEF ResumeFlow, Handle, RouteShape, TypeOK
  <2>4. RunProgress'
    BY <1>12 DEF ResumeFlow, Handle, RunProgress, RunShape, RouteShape
  <2>5. HandledOnce'
    BY <1>12 DEF ResumeFlow, Handle, HandledOnce, RouteShape, RunShape, TypeOK
  <2>6. RequestShape' /\ LockShape' /\ OneOwner' /\ ProcessedIsStored' /\
       UnqueuedHasARequest' /\ CompletedIsProcessed'
    BY <1>12 DEF ResumeFlow, Handle, RequestShape, LockShape, OneOwner,
      ProcessedIsStored, UnqueuedHasARequest, CompletedIsProcessed, EventOf,
      EventOf
  <2> QED BY <2>1, <2>2, <2>3, <2>4, <2>5, <2>6
<1>13. ASSUME NEW w \in Workers, Automate(w)
      PROVE  IInv'
  <2>1. TypeOK'
    BY <1>13 DEF Automate, Handle, TypeOK
  <2>2. RunShape'
    BY <1>13 DEF Automate, Handle, RunShape, TypeOK
  <2>3. RouteShape'
    BY <1>13 DEF Automate, Handle, RouteShape, TypeOK
  <2>4. RunProgress'
    BY <1>13 DEF Automate, Handle, RunProgress, TypeOK, RunShape, RouteShape
  <2>5. HandledOnce'
    BY <1>13 DEF Automate, Handle, HandledOnce, RouteShape, RunShape, TypeOK
  <2>6. RequestShape' /\ LockShape' /\ OneOwner' /\ ProcessedIsStored' /\
       UnqueuedHasARequest' /\ CompletedIsProcessed'
    BY <1>13 DEF Automate, Handle, RequestShape, LockShape, OneOwner,
      ProcessedIsStored, UnqueuedHasARequest, CompletedIsProcessed, EventOf,
      EventOf
  <2> QED BY <2>1, <2>2, <2>3, <2>4, <2>5, <2>6
<1>14. ASSUME NEW w \in Workers, Trigger(w)
      PROVE  IInv'
  <2>1. TypeOK'
    BY <1>14 DEF Trigger, Handle, TypeOK
  <2>2. RunShape'
    BY <1>14 DEF Trigger, Handle, RunShape, TypeOK
  <2>3. RouteShape'
    BY <1>14 DEF Trigger, Handle, RouteShape, TypeOK
  <2>4. RunProgress'
    BY <1>14 DEF Trigger, Handle, RunProgress, TypeOK, RunShape, RouteShape
  <2>5. HandledOnce'
    BY <1>14 DEF Trigger, Handle, HandledOnce, RouteShape, RunShape, TypeOK
  <2>6. RequestShape' /\ LockShape' /\ OneOwner' /\ ProcessedIsStored' /\
       UnqueuedHasARequest' /\ CompletedIsProcessed'
    BY <1>14 DEF Trigger, Handle, RequestShape, LockShape, OneOwner,
      ProcessedIsStored, UnqueuedHasARequest, CompletedIsProcessed, EventOf,
      EventOf
  <2> QED BY <2>1, <2>2, <2>3, <2>4, <2>5, <2>6
<1>15. ASSUME NEW w \in Workers, ReplyWithAi(w)
      PROVE  IInv'
  <2>1. TypeOK'
    BY <1>15 DEF ReplyWithAi, Handle, TypeOK
  <2>2. RunShape'
    BY <1>15 DEF ReplyWithAi, Handle, RunShape
  <2>3. RouteShape'
    BY <1>15 DEF ReplyWithAi, Handle, RouteShape, TypeOK
  <2>4. RunProgress'
    BY <1>15 DEF ReplyWithAi, Handle, RunProgress, RunShape, RouteShape
  <2>5. HandledOnce'
    BY <1>15 DEF ReplyWithAi, Handle, HandledOnce, RouteShape, RunShape, TypeOK
  <2>6. RequestShape' /\ LockShape' /\ OneOwner' /\ ProcessedIsStored' /\
       UnqueuedHasARequest' /\ CompletedIsProcessed'
    BY <1>15 DEF ReplyWithAi, Handle, RequestShape, LockShape, OneOwner,
      ProcessedIsStored, UnqueuedHasARequest, CompletedIsProcessed, EventOf,
      EventOf
  <2> QED BY <2>1, <2>2, <2>3, <2>4, <2>5, <2>6
<1>16. ASSUME NEW w \in Workers, MarkProcessed(w)
      PROVE  IInv'
  <2>1. TypeOK'
    BY <1>16 DEF MarkProcessed, TypeOK, RunShape, LockShape, RequestShape,
      EventOf
  <2>2. RunShape'
    BY <1>16 DEF MarkProcessed, RunShape
  <2>3. RouteShape'
    BY <1>16 DEF MarkProcessed, RouteShape
  <2>4. RunProgress'
    BY <1>16 DEF MarkProcessed, RunProgress
  <2>5. ProcessedIsStored'
    BY <1>16 DEF MarkProcessed, ProcessedIsStored, RunProgress, RunShape
  <2>6. CompletedIsProcessed'
    BY <1>16 DEF MarkProcessed, CompletedIsProcessed
  <2>7. RequestShape' /\ LockShape' /\ OneOwner' /\ HandledOnce' /\
       UnqueuedHasARequest'
    BY <1>16 DEF MarkProcessed, RequestShape, LockShape, OneOwner, HandledOnce,
      UnqueuedHasARequest, EventOf, EventOf
  <2> QED BY <2>1, <2>2, <2>3, <2>4, <2>5, <2>6, <2>7
<1>17. ASSUME NEW w \in Workers, RecordError(w)
      PROVE  IInv'
  <2>1. TypeOK'
    BY <1>17 DEF RecordError, TypeOK
  <2>2. RunShape'
    BY <1>17 DEF RecordError, RunShape
  <2>3. RouteShape'
    BY <1>17 DEF RecordError, RouteShape
  <2>4. RunProgress'
    BY <1>17 DEF RecordError, RunProgress
  <2>5. RequestShape' /\ LockShape' /\ OneOwner' /\ HandledOnce' /\
       ProcessedIsStored' /\ UnqueuedHasARequest' /\ CompletedIsProcessed'
    BY <1>17 DEF RecordError, RequestShape, LockShape, OneOwner, HandledOnce,
      ProcessedIsStored, UnqueuedHasARequest, CompletedIsProcessed, EventOf,
      EventOf
  <2> QED BY <2>1, <2>2, <2>3, <2>4, <2>5
<1>18. ASSUME NEW w \in Workers, DbError(w)
      PROVE  IInv'
  <2>1. TypeOK'
    BY <1>18 DEF DbError, TypeOK
  <2>2. RunShape'
    BY <1>18 DEF DbError, RunShape, TypeOK
  <2>3. RouteShape'
    BY <1>18 DEF DbError, RouteShape, TypeOK
  <2>4. RunProgress'
    BY <1>18 DEF DbError, RunProgress, TypeOK
  <2>5. RequestShape' /\ LockShape' /\ OneOwner' /\ HandledOnce' /\
       ProcessedIsStored' /\ UnqueuedHasARequest' /\ CompletedIsProcessed'
    BY <1>18 DEF DbError, RequestShape, LockShape, OneOwner, HandledOnce,
      ProcessedIsStored, UnqueuedHasARequest, CompletedIsProcessed, EventOf,
      EventOf
  <2> QED BY <2>1, <2>2, <2>3, <2>4, <2>5
<1>19. ASSUME NEW w \in Workers, AckJob(w)
      PROVE  IInv'
  <2>1. TypeOK'
    BY <1>19 DEF AckJob, EndRun, TypeOK, RunShape, LockShape, RequestShape,
      EventOf
  <2>2. RequestShape'
    <3>1. \A d \in stored : job[d] = "none" <=> job'[d] = "none"
      BY <1>19 DEF AckJob, EndRun, TypeOK, RunShape, LockShape
    <3> QED BY <1>19, <3>1, KeepRequests DEF AckJob
  <2>3. RunShape'
    BY <1>19 DEF AckJob, EndRun, RunShape, TypeOK
  <2>4. LockShape'
    BY <1>19 DEF AckJob, EndRun, LockShape, RunShape, OneOwner, TypeOK
  <2>5. OneOwner'
    BY <1>19 DEF AckJob, EndRun, OneOwner, TypeOK
  <2>6. RouteShape'
    BY <1>19 DEF AckJob, EndRun, RouteShape
  <2>7. RunProgress'
    BY <1>19 DEF AckJob, EndRun, RunProgress, TypeOK
  <2>8. UnqueuedHasARequest'
    <3>1. \A d \in stored : job[d] = "none" <=> job'[d] = "none"
      BY <1>19 DEF AckJob, EndRun, TypeOK, RunShape, LockShape
    <3> QED BY <1>19, <3>1, KeepRequests DEF AckJob
  <2>9. CompletedIsProcessed'
    BY <1>19 DEF AckJob, EndRun, CompletedIsProcessed, RunProgress, RunShape
  <2>10. HandledOnce' /\ ProcessedIsStored'
    BY <1>19 DEF AckJob, EndRun, HandledOnce, ProcessedIsStored
  <2> QED BY <2>1, <2>2, <2>3, <2>4, <2>5, <2>6, <2>7, <2>8, <2>9, <2>10
<1>20. ASSUME NEW w \in Workers, NackJob(w)
      PROVE  IInv'
  <2>1. TypeOK'
    BY <1>20 DEF NackJob, EndRun, TypeOK, RunShape, LockShape
  <2>2. RequestShape'
    <3>1. \A d \in stored : job[d] = "none" <=> job'[d] = "none"
      BY <1>20 DEF NackJob, EndRun, TypeOK, RunShape, LockShape
    <3> QED BY <1>20, <3>1, KeepRequests DEF NackJob
  <2>3. RunShape'
    BY <1>20 DEF NackJob, EndRun, RunShape, TypeOK
  <2>4. LockShape'
    BY <1>20 DEF NackJob, EndRun, LockShape, RunShape, OneOwner, TypeOK
  <2>5. OneOwner'
    BY <1>20 DEF NackJob, EndRun, OneOwner, TypeOK
  <2>6. RouteShape'
    BY <1>20 DEF NackJob, EndRun, RouteShape
  <2>7. RunProgress'
    BY <1>20 DEF NackJob, EndRun, RunProgress
  <2>8. UnqueuedHasARequest'
    <3>1. \A d \in stored : job[d] = "none" <=> job'[d] = "none"
      BY <1>20 DEF NackJob, EndRun, TypeOK, RunShape, LockShape
    <3> QED BY <1>20, <3>1, KeepRequests DEF NackJob
  <2>9. CompletedIsProcessed'
    BY <1>20 DEF NackJob, EndRun, CompletedIsProcessed, TypeOK
  <2>10. HandledOnce' /\ ProcessedIsStored'
    BY <1>20 DEF NackJob, EndRun, HandledOnce, ProcessedIsStored
  <2> QED BY <2>1, <2>2, <2>3, <2>4, <2>5, <2>6, <2>7, <2>8, <2>9, <2>10
<1>21. ASSUME NEW w \in Workers, Crash(w)
      PROVE  IInv'
  <2>1. TypeOK'
    BY <1>21 DEF Crash, EndRun, TypeOK
  <2>2. RunShape'
    BY <1>21 DEF Crash, EndRun, RunShape, TypeOK
  <2>3. LockShape'
    BY <1>21 DEF Crash, EndRun, LockShape, TypeOK
  <2>4. OneOwner'
    BY <1>21 DEF Crash, EndRun, OneOwner, TypeOK
  <2>5. RouteShape'
    BY <1>21 DEF Crash, EndRun, RouteShape, TypeOK
  <2>6. RunProgress'
    BY <1>21 DEF Crash, EndRun, RunProgress, TypeOK
  <2>7. RequestShape' /\ HandledOnce' /\ ProcessedIsStored' /\
       UnqueuedHasARequest' /\ CompletedIsProcessed'
    BY <1>21 DEF Crash, EndRun, RequestShape, HandledOnce, ProcessedIsStored,
      UnqueuedHasARequest, CompletedIsProcessed, EventOf, EventOf
  <2> QED BY <2>1, <2>2, <2>3, <2>4, <2>5, <2>6, <2>7
<1>22. ASSUME NEW w \in Workers, LoseLock(w)
      PROVE  IInv'
  <2>1. TypeOK'
    BY <1>22 DEF LoseLock, TypeOK
  <2>2. RunShape'
    BY <1>22 DEF LoseLock, RunShape
  <2>3. LockShape'
    BY <1>22 DEF LoseLock, LockShape
  <2>4. OneOwner'
    BY <1>22 DEF LoseLock, OneOwner
  <2>5. RequestShape' /\ RouteShape' /\ RunProgress' /\ HandledOnce' /\
       ProcessedIsStored' /\ UnqueuedHasARequest' /\ CompletedIsProcessed'
    BY <1>22 DEF LoseLock, RequestShape, RouteShape, RunProgress, HandledOnce,
      ProcessedIsStored, UnqueuedHasARequest, CompletedIsProcessed, EventOf,
      EventOf
  <2> QED BY <2>1, <2>2, <2>3, <2>4, <2>5
<1>23. ASSUME NEW e \in Events, ReclaimStalled(e)
      PROVE  IInv'
  <2>1. TypeOK'
    BY <1>23 DEF ReclaimStalled, Owned, TypeOK
  <2>2. RequestShape'
    <3>1. \A d \in stored : job[d] = "none" <=> job'[d] = "none"
      BY <1>23 DEF ReclaimStalled, Owned, TypeOK, RunShape, LockShape
    <3> QED BY <1>23, <3>1, KeepRequests DEF ReclaimStalled
  <2>3. RunShape'
    BY <1>23 DEF ReclaimStalled, Owned, RunShape, TypeOK
  <2>4. LockShape'
    BY <1>23 DEF ReclaimStalled, Owned, LockShape, RunShape, OneOwner, TypeOK
  <2>5. UnqueuedHasARequest'
    <3>1. \A d \in stored : job[d] = "none" <=> job'[d] = "none"
      BY <1>23 DEF ReclaimStalled, Owned, TypeOK, RunShape, LockShape
    <3> QED BY <1>23, <3>1, KeepRequests DEF ReclaimStalled
  <2>6. CompletedIsProcessed'
    BY <1>23 DEF ReclaimStalled, Owned, CompletedIsProcessed, TypeOK
  <2>7. OneOwner' /\ RouteShape' /\ RunProgress' /\ HandledOnce' /\
       ProcessedIsStored'
    BY <1>23 DEF ReclaimStalled, Owned, OneOwner, RouteShape, RunProgress,
      HandledOnce, ProcessedIsStored
  <2> QED BY <2>1, <2>2, <2>3, <2>4, <2>5, <2>6, <2>7
<1>24. ASSUME NEW c \in Contacts, SwitchMode(c)
      PROVE  IInv'
  <2>1. TypeOK'
    BY <1>24 DEF SwitchMode, TypeOK
  <2>2. RequestShape' /\ RunShape' /\ LockShape' /\ OneOwner' /\ RouteShape' /\
       RunProgress' /\ HandledOnce' /\ ProcessedIsStored' /\
       UnqueuedHasARequest' /\ CompletedIsProcessed'
    BY <1>24 DEF SwitchMode, RequestShape, RunShape, LockShape, OneOwner,
      RouteShape, RunProgress, HandledOnce, ProcessedIsStored,
      UnqueuedHasARequest, CompletedIsProcessed, EventOf, EventOf
  <2> QED BY <2>1, <2>2
<1>25. CASE UNCHANGED vars
  BY <1>25 DEF vars, TypeOK, RequestShape, RunShape, LockShape, OneOwner,
     RouteShape, RunProgress, HandledOnce, ProcessedIsStored,
     UnqueuedHasARequest, CompletedIsProcessed, EventOf, EventOf
<1> QED BY <1>1, <1>2, <1>3, <1>4, <1>5, <1>6, <1>7, <1>8, <1>9, <1>10, <1>11,
     <1>12, <1>13, <1>14, <1>15, <1>16, <1>17, <1>18, <1>19, <1>20, <1>21,
     <1>22, <1>23, <1>24, <1>25
     DEF Next, Ingesting, Running

LEMMA Initial == Init => IInv
<1> SUFFICES ASSUME Init PROVE IInv
  OBVIOUS
<1> USE Constants DEF Init
<1>1. TypeOK
  BY DEF TypeOK, RequestStep, Mode, JobState, RunStep
<1>2. RequestShape /\ RunShape /\ LockShape /\ OneOwner
  BY DEF RequestShape, RunShape, LockShape, OneOwner
<1>3. RouteShape /\ RunProgress
  BY DEF RouteShape, RunProgress, RouteStep
<1>4. HandledOnce /\ ProcessedIsStored /\ UnqueuedHasARequest /\ CompletedIsProcessed
  BY DEF HandledOnce, ProcessedIsStored, UnqueuedHasARequest, CompletedIsProcessed
<1> QED BY <1>1, <1>2, <1>3, <1>4 DEF IInv

LEMMA InvariantHolds == Spec => []IInv
<1>1. Init => IInv
  BY Initial
<1>2. IInv /\ [Next]_vars => IInv'
  BY Inductive
<1> QED BY <1>1, <1>2, PTL DEF Spec

-----------------------------------------------------------------------------
(* The invariants the run checks *)

\* Every variable keeps its type; in particular only stored events are ever
\* processed, and no job is tried more often than the queue allows.
THEOREM TypeCorrect == Spec => []TypeOK
<1>1. IInv => TypeOK
  BY DEF IInv
<1> QED BY <1>1, InvariantHolds, PTL

\* The processedAt check and the UNIQUE mid together route a message once,
\* although either alone would not: executions may overlap between the two.
THEOREM HandledOnceTheorem == Spec => []HandledOnce
<1>1. IInv => HandledOnce
  BY DEF IInv
<1> QED BY <1>1, InvariantHolds, PTL

\* An error, a retry or a lost lock never marks an event whose message is not
\* in the database and that is not recorded as dropped.
THEOREM ProcessedTheorem == Spec => []ProcessedIsStored
<1>1. IInv => ProcessedIsStored
  BY DEF IInv
<1> QED BY <1>1, InvariantHolds, PTL

\* The events that no job will ever process are exactly where some webhook
\* request stopped, whatever requests are repeated and in whatever order.
THEOREM UnqueuedTheorem == Spec => []UnqueuedHasARequest
<1>1. IInv => UnqueuedHasARequest
  BY DEF IInv
<1> QED BY <1>1, InvariantHolds, PTL

\* InboundProcessor.process returns only after processedAt is written.
THEOREM CompletedTheorem == Spec => []CompletedIsProcessed
<1>1. IInv => CompletedIsProcessed
  BY DEF IInv
<1> QED BY <1>1, InvariantHolds, PTL
=============================================================================
