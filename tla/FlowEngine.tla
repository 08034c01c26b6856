----------------------------- MODULE FlowEngine -----------------------------
(***************************************************************************)
(* The executions of flows in one conversation.  FlowTriggerService starts *)
(* one on an inbound message, FlowEngineService.resumeWithMessage goes on  *)
(* with one that waits for an answer, FlowProcessor's delayed BullMQ jobs  *)
(* wake those that wait for a timer, and FlowInterpreter walks the graph   *)
(* until the flow asks, waits or ends.  A row of flow_executions is read   *)
(* when a run begins and written by commit when it ends; in between other  *)
(* messages, jobs, agents and the editor of the flow come in.              *)
(*                                                                         *)
(* One flow, whose versions are published one after the other.  Variables  *)
(* are left out: a condition, an answer or an intent takes any branch that *)
(* it could take.  So are the effects of nodes on what is not read here:   *)
(* messages, tags and calls.  sendAsFlow looks at the window, stores a     *)
(* message and adds its job in three steps, which are those of Outbound;   *)
(* here a node that sends only takes time, and may fail.                   *)
(***************************************************************************)
EXTENDS FlowGraph, Naturals, FiniteSets

CONSTANTS
  Messages,      (* inbound messages; each may start one execution, which  *)
                 (* bears its name                                         *)
  Versions,      (* the drafts there may be to publish                     *)
  GraphOf,       (* GraphOf[v]: the graph of draft or version v            *)
  Waits,         (* names of waits for a timer and of the jobs that end    *)
                 (* them, used again when nothing refers to them           *)
  Wakers,        (* concurrent executions of FlowProcessor                 *)
  MaxSteps,      (* MAX_STEPS                                              *)
  MaxAttempts,   (* defaultJobOptions.attempts of the queue                *)
  MaxStalls,     (* BullMQ's maxStalledCount                               *)
  MayFail,       (* whether database, queue and ai-service may fail        *)
  Mortal,        (* the wakers whose process may die                       *)
  Slow           (* the wakers that may lose their job's lock and go on    *)

Runs == Messages \union Wakers
Graphs == {GraphOf[v] : v \in Versions}

ASSUME FlowAssumption ==
  /\ Messages \intersect Wakers = {}
  /\ None \notin Messages \union Versions \union Waits
  /\ \A g \in Graphs : /\ None \notin NodesOf(g)
                        /\ \A n \in NodesOf(g) : g.kind[n] \in NodeType
  /\ MaxSteps \in Nat
  /\ MaxAttempts \in Nat \ {0}
  /\ MaxStalls \in Nat
  /\ MayFail \in BOOLEAN
  /\ IsFiniteSet(Wakers)
  /\ Mortal \union Slow \subseteq Wakers

VARIABLES
  flow,       (* flows: "draft", "on", "off" (enabled), "removed"          *)
  versions,   (* flow_versions: the versions that have a row               *)
  published,  (* flows.publishedVersionId                                  *)
  status,     (* status[x]: flow_executions.status                         *)
  ver,        (* ver[x]: flowVersionId                                     *)
  at,         (* at[x]: currentNodeId                                      *)
  steps,      (* steps[x]: steps                                           *)
  wakeAt,     (* wakeAt[x]: wakeAt, as the wait that has it                *)
  before,     (* before[x]: the executions with an earlier startedAt       *)
  mode,       (* conversations.mode                                        *)
  window,     (* the contact's last message is not 24 hours old            *)
  woken,      (* woken[j]: history, how many runs of its job went on with  *)
              (* an execution                                              *)
  job,        (* job[j]: state of the BullMQ job of wait j                 *)
  owner,      (* owner[j]: the executionId in its data                     *)
  made,       (* made[j]: job.attemptsMade                                 *)
  stalls,     (* stalls[j]: job.stalledCounter                             *)
  pc,         (* pc[r]: the step run r takes next                          *)
  on,         (* on[r]: the execution it works on                          *)
  graph,      (* graph[r]: the version whose graph it walks                *)
  node,       (* node[r]: the node it is at                                *)
  count,      (* count[r]: stepCount                                       *)
  sees,       (* sees[r]: the windowExpiresAt that a waker has read has    *)
              (* not passed                                                *)
  out,        (* out[r]: the status of its result                          *)
  wait,       (* wait[r]: the wait it has to add a job for                 *)
  cur,        (* cur[w]: the job waker w works on                          *)
  locked      (* locked[w]: w still holds the lock of its job              *)

flowVars == <<flow, versions, published>>
rowVars == <<status, ver, at, steps, wakeAt, before>>
talkVars == <<mode, window, woken>>
jobVars == <<job, owner, made, stalls>>
walkVars == <<on, graph, node, count, sees, out, wait>>
slotVars == <<cur, locked>>
vars == <<flowVars, rowVars, talkVars, jobVars, pc, walkVars, slotVars>>

-----------------------------------------------------------------------------
Ended == {"completed", "failed"}
Status == Ended \union {"absent", "removed", "running", "waiting_input", "waiting_timer"}
JobState == {"none", "delayed", "waiting", "active", "failed"}
Walking == {"walk", "transfer", "note", "commit"}
RunStep == Walking \union
  {"idle", "find", "match", "create", "read", "load", "resume", "add",
   "done", "throw", "lost"}

Nodes == UNION {NodesOf(g) : g \in Graphs}

TypeOK ==
  /\ flow \in {"draft", "on", "off", "removed"}
  /\ versions \subseteq Versions
  /\ published \in versions \union {None}
  /\ status \in [Messages -> Status]
  /\ ver \in [Messages -> Versions \union {None}]
  /\ at \in [Messages -> Nodes \union {None}]
  /\ steps \in [Messages -> 0..MaxSteps]
  /\ wakeAt \in [Messages -> Waits \union {None}]
  /\ before \in [Messages -> SUBSET Messages]
  /\ mode \in {"ai", "human"}
  /\ window \in BOOLEAN
  /\ woken \in [Waits -> Nat]
  /\ job \in [Waits -> JobState]
  /\ owner \in [Waits -> Messages \union {None}]
  /\ made \in [Waits -> 0..MaxAttempts]
  /\ stalls \in [Waits -> 0..MaxStalls]
  /\ pc \in [Runs -> RunStep]
  /\ on \in [Runs -> Messages \union {None}]
  /\ graph \in [Runs -> Versions \union {None}]
  /\ node \in [Runs -> Nodes \union {None}]
  /\ count \in [Runs -> 0..MaxSteps]
  /\ sees \in [Runs -> BOOLEAN]
  /\ out \in [Runs -> Status]
  /\ wait \in [Runs -> Waits \union {None}]
  /\ cur \in [Wakers -> Waits \union {None}]
  /\ locked \in [Wakers -> BOOLEAN]

Init ==
  /\ flow = "draft" /\ versions = {} /\ published = None
  /\ status = [x \in Messages |-> "absent"]
  /\ ver = [x \in Messages |-> None]
  /\ at = [x \in Messages |-> None]
  /\ steps = [x \in Messages |-> 0]
  /\ wakeAt = [x \in Messages |-> None]
  /\ before = [x \in Messages |-> {}]
  /\ mode = "ai" /\ window = FALSE
  /\ woken = [j \in Waits |-> 0]
  /\ job = [j \in Waits |-> "none"]
  /\ owner = [j \in Waits |-> None]
  /\ made = [j \in Waits |-> 0]
  /\ stalls = [j \in Waits |-> 0]
  /\ pc = [r \in Runs |-> "idle"]
  /\ on = [r \in Runs |-> None]
  /\ graph = [r \in Runs |-> None]
  /\ node = [r \in Runs |-> None]
  /\ count = [r \in Runs |-> 0]
  /\ sees = [r \in Runs |-> FALSE]
  /\ out = [r \in Runs |-> "absent"]
  /\ wait = [r \in Runs |-> None]
  /\ cur = [w \in Wakers |-> None]
  /\ locked = [w \in Wakers |-> FALSE]

\* Run r takes step s next.
Goto(r, s) == pc' = [pc EXCEPT ![r] = s]

\* Run r ends in step s and remembers nothing.
Leave(r, s) ==
  /\ Goto(r, s)
  /\ on' = [on EXCEPT ![r] = None]
  /\ graph' = [graph EXCEPT ![r] = None]
  /\ node' = [node EXCEPT ![r] = None]
  /\ count' = [count EXCEPT ![r] = 0]
  /\ sees' = [sees EXCEPT ![r] = FALSE]
  /\ out' = [out EXCEPT ![r] = "absent"]
  /\ wait' = [wait EXCEPT ![r] = None]

\* Run r throws.  The handler of a message is not tried again.
Throw(r) == Leave(r, IF r \in Wakers THEN "throw" ELSE "lost")

-----------------------------------------------------------------------------
(* FlowsService: the editor of the flow *)

\* A version is a copy of the draft, which must be free of issues.
Publish(v) ==
  /\ flow # "removed"
  /\ v \notin versions
  /\ Valid(GraphOf[v])
  /\ versions' = versions \union {v}
  /\ published' = v
  /\ flow' = "on"
  /\ UNCHANGED <<rowVars, talkVars, jobVars, pc, walkVars, slotVars>>

\* setEnabled: only a published flow is switched on.
SetEnabled ==
  /\ \/ flow = "on" /\ flow' = "off"
     \/ flow = "off" /\ flow' = "on"
  /\ UNCHANGED <<versions, published, rowVars, talkVars, jobVars, pc,
                 walkVars, slotVars>>

\* Versions and executions go with the flow (onDelete: Cascade); jobs stay.
Remove ==
  /\ flow # "removed"
  /\ flow' = "removed"
  /\ versions' = {}
  /\ published' = None
  /\ status' = [x \in Messages |-> IF status[x] = "absent" THEN "absent" ELSE "removed"]
  /\ at' = [x \in Messages |-> None]
  /\ steps' = [x \in Messages |-> 0]
  /\ wakeAt' = [x \in Messages |-> None]
  /\ UNCHANGED <<ver, before, talkVars, jobVars, pc, walkVars, slotVars>>

-----------------------------------------------------------------------------
(* What goes on in the conversation meanwhile *)

\* ConversationsController.handover and returnToAi.
SwitchMode ==
  /\ mode' \in {"ai", "human"} \ {mode}
  /\ UNCHANGED <<flowVars, rowVars, window, woken, jobVars, pc, walkVars, slotVars>>

\* The windowExpiresAt that w has read passes: it may be an earlier message's.
SnapshotExpires(w) ==
  /\ sees[w]
  /\ sees' = [sees EXCEPT ![w] = FALSE]
  /\ UNCHANGED <<flowVars, rowVars, talkVars, jobVars, pc, on, graph, node,
                 count, out, wait, slotVars>>

\* 24 hours pass since the last message.
WindowExpires ==
  /\ window
  /\ window' = FALSE
  /\ sees' = [r \in Runs |-> FALSE]
  /\ UNCHANGED <<flowVars, rowVars, mode, woken, jobVars, pc, on, graph, node,
                 count, out, wait, slotVars>>

-----------------------------------------------------------------------------
(* InboundProcessor.route and FlowTriggerService.maybeStart *)

\* Message m is stored, and opens the window; a person's conversation is left.
Receive(m) ==
  /\ pc[m] = "idle"
  /\ window' = TRUE
  /\ Goto(m, IF mode = "human" THEN "done" ELSE "find")
  /\ UNCHANGED <<flowVars, rowVars, mode, woken, jobVars, walkVars, slotVars>>

WaitingInput == {x \in Messages : status[x] = "waiting_input"}
Newest(x) == \A y \in WaitingInput \ {x} : y \in before[x]

\* Run r goes on with what the row of x says now.
Take(r, x) ==
  /\ on' = [on EXCEPT ![r] = x]
  /\ node' = [node EXCEPT ![r] = at[x]]
  /\ count' = [count EXCEPT ![r] = steps[x]]

\* findWaitingInput: the newest execution that waits, if there is one.
FindWaiting(m) ==
  /\ pc[m] = "find"
  /\ \/ /\ \E x \in WaitingInput : Newest(x) /\ Take(m, x)
        /\ Goto(m, "load")
     \/ /\ WaitingInput = {}
        /\ Goto(m, "match")
        /\ UNCHANGED <<on, node, count>>
  /\ UNCHANGED <<flowVars, rowVars, talkVars, jobVars, graph, sees, out, wait,
                 slotVars>>

\* An automation takes the message, no trigger matches it, or the flow's does.
Match(m) ==
  /\ pc[m] = "match"
  /\ \/ /\ flow = "on"
        /\ graph' = [graph EXCEPT ![m] = published]
        /\ Goto(m, "create")
        /\ UNCHANGED <<on, node, count, sees, out, wait>>
     \/ Leave(m, "done")
  /\ UNCHANGED <<flowVars, rowVars, talkVars, jobVars, slotVars>>

\* startFlow makes the row and starts from the start node, if the version is
\* still there.
Create(m) ==
  /\ pc[m] = "create"
  /\ IF graph[m] \in versions
       THEN /\ status' = [status EXCEPT ![m] = "running"]
            /\ ver' = [ver EXCEPT ![m] = graph[m]]
            /\ before' = [before EXCEPT ![m] = {x \in Messages : status[x] # "absent"}]
            /\ on' = [on EXCEPT ![m] = m]
            /\ \E s \in Starts(GraphOf[graph[m]]) :
                 \E n \in Follow(GraphOf[graph[m]], s, "default") :
                   node' = [node EXCEPT ![m] = n]
            /\ Goto(m, "walk")
            /\ UNCHANGED <<graph, count, sees, out, wait>>
       ELSE /\ Leave(m, "done")
            /\ UNCHANGED <<status, ver, before>>
  /\ UNCHANGED <<flowVars, at, steps, wakeAt, talkVars, jobVars, slotVars>>

-----------------------------------------------------------------------------
(* FlowEngineService.wake and resumeWithMessage *)

\* The row is read; only one that waits for a timer is woken.
ReadExecution(w) ==
  /\ pc[w] = "read"
  /\ IF status[on[w]] = "waiting_timer"
       THEN /\ Take(w, on[w])
            /\ Goto(w, "load")
            /\ UNCHANGED <<graph, sees, out, wait>>
       ELSE Leave(w, "done")
  /\ UNCHANGED <<flowVars, rowVars, talkVars, jobVars, slotVars>>

\* (A fault for checking: a run goes on with the version published by now.)
LoadPublished(r) ==
  /\ pc[r] = "load"
  /\ IF published # None
       THEN /\ graph' = [graph EXCEPT ![r] = published]
            /\ sees' = IF r \in Wakers THEN [sees EXCEPT ![r] = window] ELSE sees
            /\ Goto(r, "resume")
            /\ UNCHANGED <<on, node, count, out, wait>>
       ELSE Leave(r, "done")
  /\ UNCHANGED <<flowVars, rowVars, talkVars, jobVars, slotVars>>

\* The conversation is read (by a job: a message brings its own), then the
\* graph of the execution's version.  Without them nothing more is done.
Load(r) ==
  /\ pc[r] = "load"
  /\ IF ver[on[r]] \in versions
       THEN /\ graph' = [graph EXCEPT ![r] = ver[on[r]]]
            /\ sees' = IF r \in Wakers THEN [sees EXCEPT ![r] = window] ELSE sees
            /\ Goto(r, "resume")
            /\ UNCHANGED <<on, node, count, out, wait>>
       ELSE Leave(r, "done")
  /\ UNCHANGED <<flowVars, rowVars, talkVars, jobVars, slotVars>>

-----------------------------------------------------------------------------
(* FlowInterpreter *)

Graph(r) == GraphOf[graph[r]]
TypeAt(r) == Graph(r).kind[node[r]]

\* The segment ends with status s at no node.
Finish(r, s) ==
  /\ out' = [out EXCEPT ![r] = s]
  /\ node' = [node EXCEPT ![r] = None]
  /\ Goto(r, "commit")

\* The segment ends with status s at the node it is at.
Suspend(r, s) ==
  /\ out' = [out EXCEPT ![r] = s]
  /\ Goto(r, "commit")
  /\ UNCHANGED node

\* The walk goes on at one of the nodes.
GoOn(r, nodes) ==
  /\ \E n \in nodes : node' = [node EXCEPT ![r] = n]
  /\ Goto(r, "walk")
  /\ UNCHANGED out

walkOnly == <<flowVars, rowVars, mode, window, jobVars, on, graph, sees, wait, slotVars>>

\* resumeWithAnswer: an answer that is not valid is asked for again.
Answer(m) ==
  /\ m \in Messages
  /\ pc[m] = "resume"
  /\ IF node[m] \notin NodesOf(Graph(m)) \/ TypeAt(m) # "question"
       THEN Finish(m, "failed")
       ELSE \/ Suspend(m, "waiting_input")
            \/ \E h \in Answers(Graph(m), node[m]) :
                 GoOn(m, Follow(Graph(m), node[m], h))
  /\ UNCHANGED <<walkOnly, woken, count>>

\* (A fault for checking: a flow whose window has expired is left as it is.)
WakeInWindow(w) ==
  /\ w \in Wakers
  /\ pc[w] = "resume"
  /\ IF sees[w]
       THEN /\ GoOn(w, Follow(Graph(w), node[w], "default"))
            /\ woken' = [woken EXCEPT ![cur[w]] = @ + 1]
            /\ UNCHANGED <<on, graph, count, sees, wait>>
       ELSE Leave(w, "done") /\ UNCHANGED woken
  /\ UNCHANGED <<flowVars, rowVars, mode, window, jobVars, slotVars>>

\* resumeAfterWait: with an expired window the flow takes its branch "closed",
\* or ends.
Wake(w) ==
  /\ w \in Wakers
  /\ pc[w] = "resume"
  /\ IF node[w] \notin NodesOf(Graph(w)) \/ TypeAt(w) # "wait"
       THEN Finish(w, "failed")
       ELSE GoOn(w, Follow(Graph(w), node[w], IF sees[w] THEN "default" ELSE "closed"))
  /\ woken' = [woken EXCEPT ![cur[w]] = @ + 1]
  /\ UNCHANGED <<walkOnly, count>>

\* There is no next node: the flow is over.
DeadEnd(r) ==
  /\ pc[r] = "walk"
  /\ node[r] = None
  /\ Finish(r, "completed")
  /\ UNCHANGED <<walkOnly, woken, count>>

\* The limit on steps, and a node that is not in the graph.
WalkFails(r) ==
  /\ pc[r] = "walk"
  /\ node[r] # None
  /\ count[r] >= MaxSteps \/ node[r] \notin NodesOf(Graph(r))
  /\ Finish(r, "failed")
  /\ UNCHANGED <<walkOnly, woken, count>>

\* (A fault for checking: the steps are not counted.)
AtUncounted(r, types) ==
  /\ pc[r] = "walk"
  /\ node[r] \in NodesOf(Graph(r))
  /\ TypeAt(r) \in types
  /\ UNCHANGED count

\* The walk of r is at a node of one of these types, which counts as a step.
At(r, types) ==
  /\ pc[r] = "walk"
  /\ node[r] \in NodesOf(Graph(r))
  /\ count[r] < MaxSteps
  /\ TypeAt(r) \in types
  /\ count' = [count EXCEPT ![r] = @ + 1]

\* Nodes that only go on: the errors of "webhook" and "api" are swallowed.
Pass(r) ==
  /\ At(r, {"start", "message", "condition", "variable", "tag", "webhook", "api"})
  /\ \E h \in Branches(TypeAt(r)) : GoOn(r, Follow(Graph(r), node[r], h))
  /\ UNCHANGED <<walkOnly, woken>>

Ask(r) ==
  /\ At(r, {"question"})
  /\ Suspend(r, "waiting_input")
  /\ UNCHANGED <<walkOnly, woken>>

Pause(r) ==
  /\ At(r, {"wait"})
  /\ Suspend(r, "waiting_timer")
  /\ UNCHANGED <<walkOnly, woken>>

\* The AI answers or has nothing to say, or asks for a person.
ConsultAi(r) ==
  /\ At(r, {"ai"})
  /\ \/ GoOn(r, AfterAi(Graph(r), node[r]))
     \/ /\ Goto(r, "transfer")
        /\ UNCHANGED <<node, out>>
  /\ UNCHANGED <<walkOnly, woken>>

CallPerson(r) ==
  /\ At(r, {"transfer"})
  /\ Goto(r, "transfer")
  /\ UNCHANGED <<walkOnly, woken, node, out>>

\* effects.transfer, its first transaction: the conversation goes to a person.
Transfer(r) ==
  /\ pc[r] = "transfer"
  /\ mode' = "human"
  /\ Goto(r, "note")
  /\ UNCHANGED <<flowVars, rowVars, window, woken, jobVars, walkVars, slotVars>>

\* The second writes a note, and the flow is over.
Note(r) ==
  /\ pc[r] = "note"
  /\ Finish(r, "completed")
  /\ UNCHANGED <<walkOnly, woken, count>>

End(r) ==
  /\ At(r, {"end"})
  /\ Finish(r, "completed")
  /\ UNCHANGED <<walkOnly, woken>>

-----------------------------------------------------------------------------
(* FlowEngineService.commit *)

\* Nothing refers to wait j.
Free(j) ==
  /\ job[j] = "none"
  /\ \A x \in Messages : wakeAt[x] # j
  /\ \A r \in Runs : wait[r] # j
  /\ \A w \in Wakers : cur[w] # j

\* A name for another wait; there must be one left.
FreeWait == CHOOSE j \in Waits : Free(j)
AnyFree == \E j \in Waits : Free(j)

\* The row is written, whatever it says by now, if it is still there.
Commit(r) ==
  LET x == on[r] IN
  /\ pc[r] = "commit"
  /\ IF status[x] = "removed"
       THEN Throw(r) /\ UNCHANGED <<status, at, steps, wakeAt>>
       ELSE /\ status' = [status EXCEPT ![x] = out[r]]
            /\ at' = [at EXCEPT ![x] = node[r]]
            /\ steps' = [steps EXCEPT ![x] = count[r]]
            /\ IF out[r] = "waiting_timer" /\ node[r] \in Graph(r).timed
                 THEN /\ AnyFree
                      /\ wakeAt' = [wakeAt EXCEPT ![x] = FreeWait]
                      /\ wait' = [wait EXCEPT ![r] = FreeWait]
                      /\ Goto(r, "add")
                      /\ UNCHANGED <<on, graph, node, count, sees, out>>
                 ELSE /\ wakeAt' = [wakeAt EXCEPT ![x] = None]
                      /\ Leave(r, "done")
  /\ UNCHANGED <<flowVars, ver, before, talkVars, jobVars, slotVars>>

\* flowQueue.add, with the delay of the wait.
AddJob(r) ==
  /\ pc[r] = "add"
  /\ job' = [job EXCEPT ![wait[r]] = "delayed"]
  /\ owner' = [owner EXCEPT ![wait[r]] = on[r]]
  /\ made' = [made EXCEPT ![wait[r]] = 0]
  /\ stalls' = [stalls EXCEPT ![wait[r]] = 0]
  /\ woken' = [woken EXCEPT ![wait[r]] = 0]
  /\ Leave(r, "done")
  /\ UNCHANGED <<flowVars, rowVars, mode, window, slotVars>>

\* A read, a transaction, the queue or the ai-service fails: the run is over,
\* and what it has not committed is forgotten.
Fail(r) ==
  /\ MayFail
  /\ pc[r] \in {"find", "match", "create", "read", "load", "resume", "walk",
                "transfer", "note", "commit", "add"}
  /\ Throw(r)
  /\ UNCHANGED <<flowVars, rowVars, talkVars, jobVars, slotVars>>

-----------------------------------------------------------------------------
(* The end of a run, and BullMQ *)

\* The time of job j has come.
Elapse(j) ==
  /\ job[j] = "delayed"
  /\ job' = [job EXCEPT ![j] = "waiting"]
  /\ UNCHANGED <<flowVars, rowVars, talkVars, owner, made, stalls, pc,
                 walkVars, slotVars>>

StartJob(w, j) ==
  /\ pc[w] = "idle"
  /\ job[j] = "waiting"
  /\ job' = [job EXCEPT ![j] = "active"]
  /\ cur' = [cur EXCEPT ![w] = j]
  /\ locked' = [locked EXCEPT ![w] = TRUE]
  /\ on' = [on EXCEPT ![w] = owner[j]]
  /\ Goto(w, "read")
  /\ UNCHANGED <<flowVars, rowVars, talkVars, owner, made, stalls, graph, node,
                 count, sees, out, wait>>

\* Waker w is free again.
EndRun(w) ==
  /\ Leave(w, "idle")
  /\ cur' = [cur EXCEPT ![w] = None]
  /\ locked' = [locked EXCEPT ![w] = FALSE]

\* A completed job is kept for a while, but never looked at: it is gone here.
AckJob(w) ==
  /\ w \in Wakers
  /\ pc[w] = "done"
  /\ IF locked[w]
       THEN /\ job' = [job EXCEPT ![cur[w]] = "none"]
            /\ owner' = [owner EXCEPT ![cur[w]] = None]
            /\ made' = [made EXCEPT ![cur[w]] = 0]
            /\ stalls' = [stalls EXCEPT ![cur[w]] = 0]
            /\ woken' = [woken EXCEPT ![cur[w]] = 0]
       ELSE UNCHANGED <<jobVars, woken>>
  /\ EndRun(w)
  /\ UNCHANGED <<flowVars, rowVars, mode, window>>

\* The job waits for its next attempt, or has failed for good.
NackJob(w) ==
  /\ w \in Wakers
  /\ pc[w] = "throw"
  /\ IF locked[w]
       THEN /\ made' = [made EXCEPT ![cur[w]] = @ + 1]
            /\ job' = [job EXCEPT ![cur[w]] =
                         IF made[cur[w]] + 1 < MaxAttempts THEN "waiting" ELSE "failed"]
       ELSE UNCHANGED <<made, job>>
  /\ EndRun(w)
  /\ UNCHANGED <<flowVars, rowVars, talkVars, owner, stalls>>

\* The process of w dies.  (Under the handler of a message it is a Fail.)
Crash(w) ==
  /\ w \in Mortal
  /\ pc[w] # "idle"
  /\ EndRun(w)
  /\ UNCHANGED <<flowVars, rowVars, talkVars, jobVars>>

\* w lives on, but could not renew its lock in time.
LoseLock(w) ==
  /\ w \in Slow
  /\ locked[w]
  /\ locked' = [locked EXCEPT ![w] = FALSE]
  /\ UNCHANGED <<flowVars, rowVars, talkVars, jobVars, pc, walkVars, cur>>

\* (A fault for checking: a job that stalls too often is never given up.)
ReclaimSometimes(j) ==
  /\ job[j] = "active"
  /\ ~ \E w \in Wakers : cur[w] = j /\ locked[w]
  /\ stalls[j] < MaxStalls
  /\ stalls' = [stalls EXCEPT ![j] = @ + 1]
  /\ job' = [job EXCEPT ![j] = "waiting"]
  /\ UNCHANGED <<flowVars, rowVars, talkVars, owner, made, pc, walkVars, slotVars>>

\* (A fault for checking: stalls are not counted, so that only attempts are.)
ReclaimUncounted(j) ==
  /\ job[j] = "active"
  /\ ~ \E w \in Wakers : cur[w] = j /\ locked[w]
  /\ job' = [job EXCEPT ![j] = "waiting"]
  /\ UNCHANGED <<flowVars, rowVars, talkVars, owner, made, stalls, pc, walkVars, slotVars>>

\* The stalled-jobs check: an active job that nobody holds the lock of waits
\* again, or fails without running when it has stalled too often.
ReclaimStalled(j) ==
  /\ job[j] = "active"
  /\ ~ \E w \in Wakers : cur[w] = j /\ locked[w]
  /\ IF stalls[j] < MaxStalls
       THEN /\ stalls' = [stalls EXCEPT ![j] = @ + 1]
            /\ job' = [job EXCEPT ![j] = "waiting"]
       ELSE /\ job' = [job EXCEPT ![j] = "failed"]
            /\ UNCHANGED stalls
  /\ UNCHANGED <<flowVars, rowVars, talkVars, owner, made, pc, walkVars, slotVars>>

-----------------------------------------------------------------------------
Interpreting(r) ==
  \/ Answer(r) \/ Wake(r) \/ DeadEnd(r) \/ WalkFails(r) \/ Pass(r)
  \/ Ask(r) \/ Pause(r) \/ ConsultAi(r) \/ CallPerson(r) \/ Transfer(r)
  \/ Note(r) \/ End(r)

Running(r) == Load(r) \/ Interpreting(r) \/ Commit(r) \/ AddJob(r) \/ Fail(r)

Handling(m) == FindWaiting(m) \/ Match(m) \/ Create(m) \/ Running(m)

Waking(w) == ReadExecution(w) \/ Running(w) \/ AckJob(w) \/ NackJob(w)

Next ==
  \/ \E v \in Versions : Publish(v)
  \/ SetEnabled \/ Remove \/ SwitchMode \/ WindowExpires
  \/ \E w \in Wakers : SnapshotExpires(w)
  \/ \E m \in Messages : Receive(m) \/ Handling(m)
  \/ \E w \in Wakers :
       Waking(w) \/ Crash(w) \/ LoseLock(w) \/ \E j \in Waits : StartJob(w, j)
  \/ \E j \in Waits : Elapse(j) \/ ReclaimStalled(j)

\* Handlers and workers go on, time passes, and BullMQ serves its jobs.
Fairness ==
  /\ \A m \in Messages : WF_vars(Handling(m))
  /\ \A w \in Wakers : WF_vars(Waking(w))
  /\ WF_vars(\E w \in Wakers, j \in Waits : StartJob(w, j))
  /\ \A j \in Waits : WF_vars(Elapse(j) \/ ReclaimStalled(j))

Spec == Init /\ [][Next]_vars /\ Fairness

-----------------------------------------------------------------------------
(* Properties *)

\* Whatever is published while an execution waits, and whoever else resumes it,
\* it waits at a node of its own version that the next answer, or the timer,
\* can go on from; one that waits for a timer knows which.
WaitsWhereItCanResume ==
  \A x \in Messages :
    LET g == GraphOf[ver[x]] IN
    /\ status[x] = "waiting_input" => at[x] \in NodesOf(g) /\ g.kind[at[x]] = "question"
    /\ status[x] = "waiting_timer" => /\ at[x] \in NodesOf(g)
                                      /\ g.kind[at[x]] = "wait"
                                      /\ wakeAt[x] # None

\* A published flow can fail in one way, by its number of steps: no run meets a
\* node that is missing, or of a type it does not expect.
FailsOnlyAtTheLimit ==
  \A x \in Messages : status[x] = "failed" => steps[x] = MaxSteps

\* An execution that says it is running is being run by the message that
\* started it, or that message's handler threw or died.
RunningIsAtWork ==
  \A x \in Messages :
    status[x] = "running" => (pc[x] \in Walking /\ on[x] = x) \/ pc[x] = "lost"

\* A wake job that is acknowledged has ended the wait it was made for, also when
\* it runs more than once or with a lost lock: no execution waits for a job that
\* is done.
JobEndsItsWait ==
  [][\A j \in Waits, x \in Messages :
       job[j] = "active" /\ job'[j] = "none" => wakeAt'[x] # j]_vars

\* What follows a wait, with its messages and calls, is done once, and once more
\* only for an attempt that failed or a run that stalled, whoever else resumes the
\* execution and however late a run goes on that has lost its lock.
RepeatsArePaidFor ==
  \A j \in Waits : job[j] # "none" => woken[j] <= 1 + made[j] + stalls[j]

\* Whatever a message sets off comes to an end, loops in the graph included.
AnswersEnd ==
  \A m \in Messages : pc[m] = "find" ~> pc[m] \in {"done", "lost"}

\* A wait whose job is in the queue ends, or the job has used up its attempts.
QueuedWaitsEnd ==
  \A j \in Waits :
    job[j] = "delayed" /\ (\E x \in Messages : wakeAt[x] = j)
      ~> job[j] = "failed" \/ (\A x \in Messages : wakeAt[x] # j)

\* A flow is not woken in a conversation that a person has taken over.
PersonIsNotTalkedOver ==
  [][\A w \in Wakers : pc[w] = "load" /\ pc'[w] = "resume" => mode = "ai"]_vars
=============================================================================
