----------------------------- MODULE FlowProofs -----------------------------
(***************************************************************************)
(* Proofs about the flows: about FlowEngine, for any runs, messages,       *)
(* graphs and versions, whatever crashes or is edited; about FlowEditor,   *)
(* for any tabs, requests, changes and versions; and about FlowCanvas, for *)
(* graphs of any size.                                                     *)
(***************************************************************************)
EXTENDS FlowEngine, FlowEditor, FlowCanvas, FiniteSetTheorems, SequenceTheorems, TLAPS

-----------------------------------------------------------------------------
(* The engine. *)


\* Versions are free of issues, and an execution has its version and its wake
\* time exactly as long as its row says it needs them.
FlowShape ==
  /\ \A v \in versions : Valid(GraphOf[v])
  /\ \A x \in Messages :
       /\ status[x] = "absent" <=> ver[x] = None
       /\ ver[x] # None => Valid(GraphOf[ver[x]])
       /\ status[x] \notin {"absent", "removed"} => ver[x] \in versions
       /\ wakeAt[x] # None => status[x] = "waiting_timer"

\* A run between its reads and its commit has an execution, and the graph of
\* that execution's version.
Held == {"resume", "add"} \union Walking
WithGraph(r) ==
  /\ pc[r] \in {"load"} \union Held => on[r] \in Messages /\ ver[on[r]] # None
  /\ pc[r] \in Held => graph[r] = ver[on[r]]

\* A run resumes at a node of the right type.
AtItsNode(r) ==
  /\ pc[r] \in {"load", "resume"} =>
       LET g == GraphOf[ver[on[r]]] IN
       /\ node[r] \in NodesOf(g)
       /\ g.kind[node[r]] = IF r \in Wakers THEN "wait" ELSE "question"
  /\ pc[r] \in Walking => node[r] \in NodesOf(Graph(r)) \union {None}

\* What a run is about to commit.
Result(r) ==
  /\ out[r] \in Ended \union {"waiting_input", "waiting_timer"}
  /\ out[r] = "waiting_input" => node[r] \in NodesOf(Graph(r)) /\ TypeAt(r) = "question"
  /\ out[r] = "waiting_timer" => node[r] \in NodesOf(Graph(r)) /\ TypeAt(r) = "wait"
  /\ out[r] = "failed" => count[r] = MaxSteps

\* No message has an execution before it creates one.
RunOK(r) ==
  /\ WithGraph(r)
  /\ AtItsNode(r)
  /\ pc[r] = "commit" => Result(r)
  /\ sees[r] => window
  /\ r \in Messages /\ pc[r] \in {"idle", "find", "match", "create"} => status[r] = "absent"

RunShape == \A r \in Runs : RunOK(r)

\* A job that may run has attempts left, and the lock of one is held once.
Live == {"delayed", "waiting", "active"}
JobShape ==
  /\ \A j \in Waits : job[j] \in Live => owner[j] \in Messages /\ made[j] < MaxAttempts
  /\ \A w \in Wakers :
       /\ IF pc[w] = "idle" THEN cur[w] = None /\ ~locked[w] ELSE cur[w] \in Waits
       /\ pc[w] = "read" => on[w] \in Messages
       /\ locked[w] => job[cur[w]] = "active"
  /\ \A v, w \in Wakers : locked[v] /\ locked[w] /\ cur[v] = cur[w] => v = w

\* A name given to a wait is free of other uses until its job is added, and
\* from then on job and runs are for the execution that waits.
WaitShape ==
  /\ \A r \in Runs :
       /\ pc[r] = "add" <=> wait[r] # None
       /\ wait[r] # None => job[wait[r]] = "none" /\ \A w \in Wakers : cur[w] # wait[r]
  /\ \A q, r \in Runs : wait[q] # None /\ wait[q] = wait[r] => q = r
  /\ \A x \in Messages :
       /\ \A r \in Runs : wait[r] # None /\ wakeAt[x] = wait[r] => on[r] = x
       /\ \A j \in Waits : job[j] \in Live /\ wakeAt[x] = j => owner[j] = x

\* Until its commit, a job that may end a wait works for the execution that has it.
AtWork == {"read", "load", "resume"} \union Walking
WakesItsOwner ==
  \A x \in Messages, w \in Wakers :
    cur[w] # None /\ wakeAt[x] = cur[w] =>
      \/ pc[w] = "throw"
      \/ on[w] = x /\ pc[w] \in AtWork

IInv ==
  /\ TypeOK
  /\ FlowShape
  /\ RunShape
  /\ JobShape
  /\ WaitShape
  /\ WakesItsOwner
  /\ WaitsWhereItCanResume
  /\ FailsOnlyAtTheLimit
  /\ RunningIsAtWork

-----------------------------------------------------------------------------
(* Constants and graphs *)

LEMMA Constants ==
  /\ Messages \intersect Wakers = {}
  /\ None \notin Messages /\ None \notin Versions /\ None \notin Waits
  /\ MaxSteps \in Nat
  /\ MaxAttempts \in Nat \ {0}
  /\ MaxStalls \in Nat
  BY FlowAssumption

\* The nodes of a version are among all nodes, and are nodes.
LEMMA NodesOfVersion ==
  ASSUME NEW v \in Versions
  PROVE  NodesOf(GraphOf[v]) \subseteq Nodes /\ None \notin NodesOf(GraphOf[v])
<1>1. GraphOf[v] \in Graphs
  BY DEF Graphs
<1> QED BY <1>1, FlowAssumption DEF Nodes

\* In a graph without dangling connections every way leads to a node, or to none.
LEMMA WaysLeadToNodes ==
  ASSUME NEW g, NoDangling(g), NEW n, NEW h
  PROVE  /\ Follow(g, n, h) \subseteq NodesOf(g) \union {None}
         /\ AfterAi(g, n) \subseteq NodesOf(g) \union {None}
<1>1. \A k : Through(g, n, k) \subseteq NodesOf(g)
  BY DEF NoDangling, Through
<1>2. Follow(g, n, h) \subseteq NodesOf(g) \union {None}
  BY <1>1 DEF Follow, OrNone
<1>3. Follow(g, n, "default") \subseteq NodesOf(g) \union {None}
  BY <1>1 DEF Follow, OrNone
<1>4. {e.to : e \in {d \in g.edges : d.from = n}} \subseteq NodesOf(g)
  BY DEF NoDangling
<1> QED BY <1>2, <1>3, <1>4 DEF AfterAi

-----------------------------------------------------------------------------
(* What a step of the interpreter does *)

StepShape(r) ==
  /\ pc[r] \in {"resume", "walk", "transfer", "note"}
  /\ pc' = [pc EXCEPT ![r] = pc'[r]] /\ pc'[r] \in Walking
  /\ node' = [node EXCEPT ![r] = node'[r]]
  /\ node'[r] \in NodesOf(Graph(r)) \union {None}
  /\ count' = [count EXCEPT ![r] = count'[r]] /\ count'[r] \in 0..MaxSteps
  /\ out' = [out EXCEPT ![r] = out'[r]] /\ out'[r] \in Status
  /\ pc'[r] = "commit" => Result(r)'
  /\ woken' \in [Waits -> Nat]
  /\ mode' \in {"ai", "human"}
  /\ UNCHANGED <<flowVars, rowVars, window, jobVars, on, graph, sees, wait, slotVars>>

LEMMA FinishShape ==
  ASSUME TypeOK, NEW r \in Runs, NEW s \in Ended, Finish(r, s),
         s = "failed" => count'[r] = MaxSteps, UNCHANGED graph
  PROVE  /\ pc' = [pc EXCEPT ![r] = pc'[r]] /\ pc'[r] \in Walking
         /\ node' = [node EXCEPT ![r] = node'[r]]
         /\ node'[r] \in NodesOf(Graph(r)) \union {None}
         /\ out' = [out EXCEPT ![r] = out'[r]] /\ out'[r] \in Status
         /\ Result(r)'
  BY DEF TypeOK, Finish, Goto, Walking, Result, Ended, Status

LEMMA GoOnShape ==
  ASSUME TypeOK, NEW r \in Runs, NEW nodes \in SUBSET (NodesOf(Graph(r)) \union {None}),
         GoOn(r, nodes)
  PROVE  /\ pc' = [pc EXCEPT ![r] = pc'[r]] /\ pc'[r] = "walk"
         /\ node' = [node EXCEPT ![r] = node'[r]]
         /\ node'[r] \in NodesOf(Graph(r)) \union {None}
         /\ out' = [out EXCEPT ![r] = out'[r]] /\ out'[r] \in Status
  BY DEF TypeOK, GoOn, Goto

LEMMA SuspendShape ==
  ASSUME TypeOK, NEW r \in Runs, UNCHANGED graph,
         NEW s, Suspend(r, s), node[r] \in NodesOf(Graph(r)),
         \/ s = "waiting_input" /\ TypeAt(r) = "question"
         \/ s = "waiting_timer" /\ TypeAt(r) = "wait"
  PROVE  /\ pc' = [pc EXCEPT ![r] = pc'[r]] /\ pc'[r] \in Walking
         /\ node' = [node EXCEPT ![r] = node'[r]]
         /\ node'[r] \in NodesOf(Graph(r)) \union {None}
         /\ out' = [out EXCEPT ![r] = out'[r]] /\ out'[r] \in Status
         /\ Result(r)'
  BY DEF TypeOK, Suspend, Goto, Walking, Result, Ended, Status, Graph, TypeAt

LEMMA AtShape ==
  ASSUME TypeOK, NEW r \in Runs, NEW types, At(r, types)
  PROVE  /\ pc[r] = "walk" /\ node[r] \in NodesOf(Graph(r)) /\ TypeAt(r) \in types
         /\ count' = [count EXCEPT ![r] = count'[r]] /\ count'[r] \in 0..MaxSteps
  BY Constants DEF TypeOK, At

LEMMA InterpreterSteps ==
  ASSUME IInv, NEW r \in Runs, Interpreting(r)
  PROVE  StepShape(r)
<1> USE DEF walkOnly
<1>0. TypeOK /\ WithGraph(r) /\ AtItsNode(r)
  BY DEF IInv, RunShape, RunOK
<1>1. ASSUME pc[r] \in Held
      PROVE  /\ NoDangling(Graph(r))
             /\ None \notin NodesOf(Graph(r))
             /\ \A n, h : /\ Follow(Graph(r), n, h) \subseteq NodesOf(Graph(r)) \union {None}
                         /\ AfterAi(Graph(r), n) \subseteq NodesOf(Graph(r)) \union {None}
  <2>1. graph[r] = ver[on[r]] /\ on[r] \in Messages /\ ver[on[r]] \in Versions
    BY <1>0, <1>1 DEF WithGraph, TypeOK
  <2>2. Valid(Graph(r))
    BY <2>1, Constants DEF IInv, FlowShape, Graph
  <2> QED BY <2>1, <2>2, NodesOfVersion, WaysLeadToNodes DEF Valid, Graph
<1>2. CASE Answer(r)
  <2>1. pc[r] \in Held /\ node[r] \in NodesOf(Graph(r)) /\ TypeAt(r) = "question"
    BY <1>0, <1>2, Constants DEF Answer, Held, AtItsNode, WithGraph, Graph, TypeAt
  <2>2. CASE Suspend(r, "waiting_input")
    BY <1>0, <1>2, <2>1, <2>2, SuspendShape DEF Answer, StepShape, TypeOK
  <2>3. ASSUME NEW h, GoOn(r, Follow(Graph(r), node[r], h))
        PROVE  StepShape(r)
    BY <1>0, <1>1, <1>2, <2>1, <2>3, GoOnShape DEF Answer, StepShape, TypeOK, Walking
  <2> QED BY <1>2, <2>1, <2>2, <2>3 DEF Answer
<1>3. CASE Wake(r)
  <2>1. pc[r] \in Held /\ node[r] \in NodesOf(Graph(r)) /\ TypeAt(r) = "wait"
    BY <1>0, <1>3, Constants DEF Wake, Held, AtItsNode, WithGraph, Graph, TypeAt
  <2>2. \E h : GoOn(r, Follow(Graph(r), node[r], h))
    BY <1>3, <2>1 DEF Wake
  <2>3. woken' \in [Waits -> Nat]
    <3>1. cur[r] \in Waits
      BY <1>3 DEF IInv, JobShape, Wake
    <3> QED BY <1>0, <1>3, <3>1 DEF Wake, TypeOK
  <2>4. pc[r] = "resume" /\ UNCHANGED <<walkOnly, count>>
    BY <1>3 DEF Wake
  <2> QED BY <1>0, <1>1, <2>1, <2>2, <2>3, <2>4, GoOnShape DEF StepShape, TypeOK, Walking
<1>4. CASE DeadEnd(r)
  BY <1>0, <1>4, FinishShape DEF DeadEnd, StepShape, TypeOK, Ended
<1>5. CASE WalkFails(r)
  <2>1. count[r] = MaxSteps
    BY <1>0, <1>5, Constants DEF WalkFails, AtItsNode, Walking, TypeOK
  <2> QED BY <1>0, <1>5, <2>1, FinishShape DEF WalkFails, StepShape, TypeOK, Ended
<1>6. CASE Pass(r)
  <2>1. \E h : GoOn(r, Follow(Graph(r), node[r], h))
    BY <1>6 DEF Pass
  <2>2. pc[r] \in Held
    BY <1>0, <1>6, AtShape DEF Pass, Held, Walking
  <2> QED BY <1>0, <1>1, <1>6, <2>1, <2>2, AtShape, GoOnShape DEF Pass, StepShape, TypeOK, Walking
<1>7. CASE Ask(r)
  <2>1. /\ pc[r] = "walk" /\ node[r] \in NodesOf(Graph(r)) /\ TypeAt(r) = "question"
        /\ count' = [count EXCEPT ![r] = count'[r]] /\ count'[r] \in 0..MaxSteps
    BY <1>0, <1>7, AtShape DEF Ask
  <2> QED BY <1>0, <1>7, <2>1, SuspendShape DEF Ask, StepShape, TypeOK
<1>8. CASE Pause(r)
  <2>1. /\ pc[r] = "walk" /\ node[r] \in NodesOf(Graph(r)) /\ TypeAt(r) = "wait"
        /\ count' = [count EXCEPT ![r] = count'[r]] /\ count'[r] \in 0..MaxSteps
    BY <1>0, <1>8, AtShape DEF Pause
  <2> QED BY <1>0, <1>8, <2>1, SuspendShape DEF Pause, StepShape, TypeOK
<1>9. CASE ConsultAi(r)
  <2>1. pc[r] \in Held
    BY <1>0, <1>9, AtShape DEF ConsultAi, Held, Walking
  <2>2. CASE GoOn(r, AfterAi(Graph(r), node[r]))
    BY <1>0, <1>1, <1>9, <2>1, <2>2, AtShape, GoOnShape
      DEF ConsultAi, StepShape, TypeOK, Walking
  <2>3. CASE Goto(r, "transfer") /\ UNCHANGED <<node, out>>
    BY <1>0, <1>9, <2>3, AtShape DEF ConsultAi, Goto, StepShape, TypeOK, Walking
  <2> QED BY <1>9, <2>2, <2>3 DEF ConsultAi
<1>10. CASE CallPerson(r)
  BY <1>0, <1>10, AtShape DEF CallPerson, Goto, StepShape, TypeOK, Walking
<1>11. CASE Transfer(r)
  BY <1>0, <1>11 DEF Transfer, Goto, StepShape, TypeOK, Walking, walkVars, AtItsNode
<1>12. CASE Note(r)
  BY <1>0, <1>12, FinishShape DEF Note, StepShape, TypeOK, Ended
<1>13. CASE End(r)
  BY <1>0, <1>13, AtShape, FinishShape DEF End, StepShape, TypeOK, Ended
<1> QED BY <1>2, <1>3, <1>4, <1>5, <1>6, <1>7, <1>8, <1>9, <1>10, <1>11, <1>12,
     <1>13 DEF Interpreting

-----------------------------------------------------------------------------
(* What every step that ends a run, or leaves one alone, preserves *)

\* A run that no step of another touches is as it was.
LEMMA RunStays ==
  ASSUME NEW r \in Runs, RunOK(r),
         pc'[r] = pc[r], on'[r] = on[r], graph'[r] = graph[r],
         node'[r] = node[r], count'[r] = count[r], out'[r] = out[r],
         sees'[r] => window',
         on[r] \in Messages /\ ver[on[r]] # None => ver'[on[r]] = ver[on[r]],
         r \in Messages /\ status[r] = "absent" => status'[r] = "absent"
  PROVE  RunOK(r)'
<1>1. WithGraph(r)' /\ (pc[r] \in {"load"} \union Held => ver'[on[r]] = ver[on[r]])
  BY DEF RunOK, WithGraph
<1>2. AtItsNode(r)'
  BY <1>1 DEF RunOK, AtItsNode, Held, Walking, Graph
<1>3. pc'[r] = "commit" => Result(r)'
  BY DEF RunOK, Result, Graph, TypeAt
<1> QED BY <1>1, <1>2, <1>3 DEF RunOK

\* A run that is over says nothing of any execution.
LEMMA RunIsOver ==
  ASSUME TypeOK, NEW r \in Runs,
         NEW s \in {"idle", "done", "throw", "lost"}, Leave(r, s),
         r \in Messages => s # "idle"
  PROVE  RunOK(r)' /\ pc' = [pc EXCEPT ![r] = s]
<1>1. pc' = [pc EXCEPT ![r] = s] /\ pc'[r] = s /\ ~sees'[r]
  BY DEF TypeOK, Leave, Goto
<1> QED BY <1>1 DEF RunOK, WithGraph, AtItsNode, Held, Walking

\* What Leave does to the runs.
LEMMA LeaveTypes ==
  ASSUME TypeOK, NEW r \in Runs, NEW s \in RunStep, Leave(r, s)
  PROVE  /\ pc' \in [Runs -> RunStep]
         /\ on' \in [Runs -> Messages \union {None}]
         /\ graph' \in [Runs -> Versions \union {None}]
         /\ node' \in [Runs -> Nodes \union {None}]
         /\ count' \in [Runs -> 0..MaxSteps]
         /\ sees' \in [Runs -> BOOLEAN]
         /\ out' \in [Runs -> Status]
         /\ wait' \in [Runs -> Waits \union {None}]
  BY Constants DEF TypeOK, Leave, Goto, Status

\* The other runs keep what they know when one takes a step, if executions keep
\* their versions and none appears.
LEMMA OthersStay ==
  ASSUME RunShape, NEW r \in Runs, RunOK(r)',
         \A q \in Runs \ {r} :
           /\ pc'[q] = pc[q] /\ on'[q] = on[q] /\ graph'[q] = graph[q]
           /\ node'[q] = node[q] /\ count'[q] = count[q] /\ out'[q] = out[q]
           /\ sees'[q] => window',
         \A x \in Messages : ver[x] # None => ver'[x] = ver[x],
         \A x \in Messages \ {r} : status[x] = "absent" => status'[x] = "absent"
  PROVE  RunShape'
<1>1. ASSUME NEW q \in Runs, q # r
      PROVE  RunOK(q)'
  BY <1>1, RunStays DEF RunShape
<1> QED BY <1>1 DEF RunShape

\* So when run r takes a step that ends it.
LEMMA LeavingKeepsRuns ==
  ASSUME TypeOK, RunShape, NEW r \in Runs, NEW s \in {"idle", "done", "throw", "lost"},
         Leave(r, s), r \in Messages => s # "idle",
         UNCHANGED <<window, ver>>,
         \A x \in Messages \ {r} : status[x] = "absent" => status'[x] = "absent"
  PROVE  RunShape'
<1>1. RunOK(r)'
  BY RunIsOver
<1>2. \A q \in Runs \ {r} :
           /\ pc'[q] = pc[q] /\ on'[q] = on[q] /\ graph'[q] = graph[q]
           /\ node'[q] = node[q] /\ count'[q] = count[q] /\ out'[q] = out[q]
           /\ sees'[q] => window'
  BY DEF TypeOK, Leave, Goto, RunShape, RunOK
<1> QED BY <1>1, <1>2, OthersStay

\* And when no run takes a step.
LEMMA RunsStay ==
  ASSUME RunShape, UNCHANGED <<pc, on, graph, node, count, out>>,
         \A r \in Runs : sees'[r] => window',
         \A x \in Messages : ver[x] # None => ver'[x] = ver[x],
         \A x \in Messages : status[x] = "absent" => status'[x] = "absent"
  PROVE  RunShape'
  BY RunStays DEF RunShape

-----------------------------------------------------------------------------
(* The invariant is inductive: the steps outside the runs *)

LEMMA EditorSteps ==
  ASSUME IInv, (\E v \in Versions : Publish(v)) \/ SetEnabled \/ Remove
  PROVE  IInv'
<1> USE DEF flowVars, rowVars, talkVars, jobVars, walkVars, slotVars
<1>0. TypeOK /\ FlowShape /\ RunShape
  BY DEF IInv
<1>1. ASSUME NEW v \in Versions, Publish(v)
      PROVE  IInv'
  <2>1. TypeOK'
    BY <1>0, <1>1 DEF Publish, TypeOK
  <2>2. FlowShape'
    BY <1>0, <1>1 DEF Publish, FlowShape
  <2>3. RunShape'
    BY <1>0, <1>1, RunsStay DEF Publish, RunShape, RunOK
  <2> QED BY <1>1, <2>1, <2>2, <2>3 DEF Publish, IInv, JobShape, WaitShape,
        WakesItsOwner, WaitsWhereItCanResume, FailsOnlyAtTheLimit, RunningIsAtWork
<1>2. CASE SetEnabled
  <2>1. TypeOK'
    BY <1>0, <1>2 DEF SetEnabled, TypeOK
  <2>2. FlowShape'
    BY <1>0, <1>2 DEF SetEnabled, FlowShape
  <2>3. RunShape'
    BY <1>0, <1>2, RunsStay DEF SetEnabled, RunShape, RunOK
  <2> QED BY <1>2, <2>1, <2>2, <2>3 DEF SetEnabled, IInv, JobShape, WaitShape,
        WakesItsOwner, WaitsWhereItCanResume, FailsOnlyAtTheLimit, RunningIsAtWork
<1>3. CASE Remove
  <2>1. TypeOK'
    BY <1>0, <1>3, Constants DEF Remove, TypeOK, Status
  <2>2. /\ \A x \in Messages :
             /\ status'[x] = "absent" \/ status'[x] = "removed"
             /\ (status[x] = "absent") <=> (status'[x] = "absent")
             /\ wakeAt'[x] = None
        /\ versions' = {} /\ ver' = ver
    BY <1>0, <1>3 DEF Remove, TypeOK
  <2>3. FlowShape'
    <3>1. \A v \in versions' : Valid(GraphOf[v])
      BY <2>2
    <3>2. ASSUME NEW x \in Messages
          PROVE  /\ (status'[x] = "absent") <=> (ver'[x] = None)
                 /\ ver'[x] # None => Valid(GraphOf[ver'[x]])
                 /\ status'[x] \in {"absent", "removed"}
                 /\ wakeAt'[x] = None
      BY <1>0, <2>2 DEF FlowShape
    <3> QED BY <3>1, <3>2 DEF FlowShape
  <2>4. RunShape'
    BY <1>0, <1>3, <2>2, RunsStay DEF Remove, RunShape, RunOK
  <2>5. JobShape' /\ WaitShape' /\ WakesItsOwner'
    BY <1>3, <2>2, Constants DEF Remove, IInv, TypeOK, JobShape, WaitShape, WakesItsOwner
  <2>6. \A x \in Messages :
          status'[x] \notin {"waiting_input", "waiting_timer", "failed", "running"}
    BY <2>2
  <2>7. WaitsWhereItCanResume' /\ FailsOnlyAtTheLimit' /\ RunningIsAtWork'
    BY <2>6 DEF WaitsWhereItCanResume, FailsOnlyAtTheLimit, RunningIsAtWork
  <2> QED BY <2>1, <2>7, <2>3, <2>4, <2>5, <2>6 DEF IInv
<1> QED BY <1>1, <1>2, <1>3

LEMMA TalkSteps ==
  ASSUME IInv, SwitchMode \/ WindowExpires \/ \E w \in Wakers : SnapshotExpires(w)
  PROVE  IInv'
<1> USE DEF flowVars, rowVars, talkVars, jobVars, walkVars, slotVars
<1>1. TypeOK'
  <2>1. TypeOK
    BY DEF IInv
  <2>2. CASE SwitchMode
    BY <2>1, <2>2 DEF TypeOK, SwitchMode
  <2>3. CASE WindowExpires
    BY <2>1, <2>3 DEF TypeOK, WindowExpires
  <2>4. ASSUME NEW w \in Wakers, SnapshotExpires(w)
        PROVE  TypeOK'
    BY <2>1, <2>4 DEF TypeOK, SnapshotExpires
  <2> QED BY <2>2, <2>3, <2>4
<1>2. \A r \in Runs : sees'[r] => window'
  BY DEF IInv, TypeOK, RunShape, RunOK, SwitchMode, WindowExpires, SnapshotExpires
<1>3. UNCHANGED <<versions, rowVars, jobVars, pc, on, graph, node, count, out, wait, slotVars>>
  BY DEF SwitchMode, WindowExpires, SnapshotExpires
<1>4. RunShape'
  BY <1>2, <1>3, RunsStay DEF IInv
<1> QED BY <1>1, <1>3, <1>4 DEF IInv, FlowShape, JobShape, WaitShape, WakesItsOwner,
      WaitsWhereItCanResume, FailsOnlyAtTheLimit, RunningIsAtWork

-----------------------------------------------------------------------------
(* The steps of a run that make no wait and no job *)

\* Rows that are not written keep what is said of them.
LEMMA RowsStay ==
  ASSUME IInv, UNCHANGED <<versions, rowVars>>
  PROVE  FlowShape' /\ WaitsWhereItCanResume' /\ FailsOnlyAtTheLimit'
  BY DEF IInv, FlowShape, WaitsWhereItCanResume, FailsOnlyAtTheLimit, rowVars

\* Nothing but run r moves, and r asks for no job.
Moves(r) ==
  /\ \A q \in Runs \ {r} : pc'[q] = pc[q] /\ on'[q] = on[q] /\ wait'[q] = wait[q]
  /\ wait'[r] = None /\ pc'[r] # "add"
  /\ UNCHANGED slotVars

\* A waker that goes on works for its execution still, throws, or has ended the
\* wait of its job.
LEMMA JobsStay ==
  ASSUME IInv, NEW r \in Runs, Moves(r), UNCHANGED jobVars,
         \A x \in Messages : wakeAt'[x] = wakeAt[x] \/ wakeAt'[x] = None,
         r \in Wakers => /\ pc[r] \notin {"idle", "throw"} /\ pc'[r] \notin {"idle", "read"}
                         /\ \/ pc'[r] = "throw"
                            \/ on'[r] = on[r] /\ pc'[r] \in AtWork
                            \/ \A x \in Messages : wakeAt'[x] # cur[r]
  PROVE  JobShape' /\ WaitShape' /\ WakesItsOwner'
<1> USE DEF jobVars, slotVars, Moves
<1>0. JobShape /\ WaitShape /\ WakesItsOwner /\ Wakers \subseteq Runs
  BY DEF IInv, Runs
<1>1. JobShape'
  <2>1. \A w \in Wakers : pc'[w] = "idle" <=> pc[w] = "idle"
    BY <1>0
  <2>2. \A w \in Wakers : pc'[w] = "read" => on'[w] \in Messages
    BY <1>0 DEF JobShape
  <2> QED BY <1>0, <2>1, <2>2 DEF JobShape
<1>2. WaitShape'
  <2>1. \A q \in Runs : wait'[q] # None =>
          q # r /\ wait'[q] = wait[q] /\ pc'[q] = pc[q] /\ on'[q] = on[q]
    OBVIOUS
  <2>2. \A q \in Runs : (pc'[q] = "add") <=> (wait'[q] # None)
    BY <1>0 DEF WaitShape
  <2>3. \A q \in Runs : wait'[q] # None =>
          job[wait[q]] = "none" /\ \A w \in Wakers : cur[w] # wait[q]
    BY <1>0, <2>1 DEF WaitShape
  <2>4. \A p, q \in Runs : wait'[p] # None /\ wait'[p] = wait'[q] => p = q
    BY <1>0, <2>1 DEF WaitShape
  <2>5. ASSUME NEW x \in Messages
        PROVE  /\ \A q \in Runs : wait'[q] # None /\ wakeAt'[x] = wait'[q] => on'[q] = x
               /\ \A j \in Waits : job[j] \in Live /\ wakeAt'[x] = j => owner[j] = x
    BY <1>0, <2>1, Constants DEF WaitShape
  <2> QED BY <2>1, <2>2, <2>3, <2>4, <2>5 DEF WaitShape
<1>3. WakesItsOwner'
  <2> SUFFICES ASSUME NEW x \in Messages, NEW w \in Wakers, cur[w] # None, wakeAt'[x] = cur[w]
               PROVE  \/ pc'[w] = "throw"
                      \/ on'[w] = x /\ pc'[w] \in AtWork
    BY DEF WakesItsOwner
  <2>1. wakeAt[x] = cur[w]
    OBVIOUS
  <2>2. pc[w] = "throw" \/ (on[w] = x /\ pc[w] \in AtWork)
    BY <1>0, <2>1 DEF WakesItsOwner
  <2>3. CASE w = r
    BY <2>1, <2>2, <2>3
  <2>4. CASE w # r
    BY <1>0, <2>2, <2>4
  <2> QED BY <2>3, <2>4
<1> QED BY <1>1, <1>2, <1>3

\* An execution that is running is the one its own run walks for.
LEMMA StillAtWork ==
  ASSUME IInv, NEW r \in Runs, UNCHANGED status,
         \A q \in Runs \ {r} : pc'[q] = pc[q] /\ on'[q] = on[q],
         r \in Messages => /\ pc[r] # "lost"
                           /\ \/ pc[r] \notin Walking
                              \/ pc'[r] \in Walking /\ on'[r] = on[r]
                              \/ pc'[r] = "lost"
  PROVE  RunningIsAtWork'
<1> SUFFICES ASSUME NEW x \in Messages, status[x] = "running"
             PROVE  (pc'[x] \in Walking /\ on'[x] = x) \/ pc'[x] = "lost"
  BY DEF RunningIsAtWork
<1>1. (pc[x] \in Walking /\ on[x] = x) \/ pc[x] = "lost"
  BY DEF IInv, RunningIsAtWork
<1> QED BY <1>1 DEF Runs

LEMMA TriggerSteps ==
  ASSUME IInv, NEW m \in Messages, Receive(m) \/ FindWaiting(m) \/ Match(m)
  PROVE  IInv'
<1> USE DEF flowVars, rowVars, talkVars, jobVars, walkVars, slotVars
<1>0. /\ TypeOK /\ RunShape /\ WaitShape /\ m \in Runs /\ m \notin Wakers
      /\ pc[m] \in {"idle", "find", "match"} /\ status[m] = "absent"
  BY Constants DEF IInv, Runs, RunShape, RunOK, Receive, FindWaiting, Match
<1>1. /\ UNCHANGED <<versions, rowVars, jobVars, slotVars>>
      /\ pc' = [pc EXCEPT ![m] = pc'[m]] /\ pc'[m] \in {"done", "find", "match", "load", "create"}
      /\ on' = [on EXCEPT ![m] = on'[m]]
      /\ node' = [node EXCEPT ![m] = node'[m]]
      /\ \A q \in Runs \ {m} : graph'[q] = graph[q] /\ count'[q] = count[q] /\ out'[q] = out[q]
                             /\ wait'[q] = wait[q]
      /\ wait'[m] = None
      /\ \A q \in Runs : sees'[q] => window'
  <2>1. (\A q \in Runs : sees[q] => window) /\ wait[m] = None
    BY <1>0 DEF RunShape, RunOK, WaitShape, TypeOK
  <2>2. CASE Receive(m)
    BY <1>0, <2>1, <2>2 DEF Receive, Goto, TypeOK
  <2>3. CASE FindWaiting(m)
    BY <1>0, <2>1, <2>3 DEF FindWaiting, Goto, Take, TypeOK
  <2>4. CASE Match(m)
    BY <1>0, <2>1, <2>4 DEF Match, Goto, Leave, TypeOK
  <2> QED BY <2>2, <2>3, <2>4
<1>2. TypeOK'
  <2>1. CASE Receive(m)
    BY <1>0, <2>1 DEF Receive, Goto, Leave, TypeOK, RunStep
  <2>2. CASE FindWaiting(m)
    BY <1>0, <2>2 DEF FindWaiting, Goto, Take, WaitingInput, TypeOK, RunStep
  <2>3. CASE Match(m)
    <3>1. CASE Leave(m, "done")
      BY <1>0, <2>3, <3>1, LeaveTypes DEF Match, TypeOK, RunStep
    <3> QED BY <1>0, <2>3, <3>1 DEF Match, Goto, TypeOK, RunStep
  <2> QED BY <2>1, <2>2, <2>3
<1>3. RunOK(m)'
  <2>1. CASE pc'[m] # "load"
    BY <1>0, <1>1, <2>1 DEF RunOK, WithGraph, AtItsNode, Held, Walking
  <2>2. CASE pc'[m] = "load"
    <3>1. PICK x \in WaitingInput : Take(m, x)
      BY <1>0, <1>1, <2>2 DEF Receive, FindWaiting, Match, Leave, Goto, TypeOK
    <3>2. on'[m] = x /\ node'[m] = at[x] /\ status[x] = "waiting_input" /\ x \in Messages
      BY <1>0, <3>1 DEF Take, WaitingInput, TypeOK
    <3>3. ver[x] # None /\ at[x] \in NodesOf(GraphOf[ver[x]])
          /\ GraphOf[ver[x]].kind[at[x]] = "question"
      BY <3>2 DEF IInv, FlowShape, WaitsWhereItCanResume
    <3> QED BY <1>0, <1>1, <2>2, <3>2, <3>3 DEF RunOK, WithGraph, AtItsNode, Held, Walking
  <2> QED BY <2>1, <2>2
<1>4. RunShape'
  <2>1. \A q \in Runs \ {m} : pc'[q] = pc[q] /\ on'[q] = on[q] /\ node'[q] = node[q]
    BY <1>0, <1>1 DEF TypeOK
  <2> QED BY <1>0, <1>1, <1>3, <2>1, OthersStay
<1>5. JobShape' /\ WaitShape' /\ WakesItsOwner'
  <2>1. Moves(m)
    BY <1>0, <1>1 DEF Moves, TypeOK
  <2> QED BY <1>0, <1>1, <2>1, JobsStay
<1>6. RunningIsAtWork'
  BY <1>0, <1>1, StillAtWork DEF TypeOK, Walking
<1> QED BY <1>1, <1>2, <1>4, <1>5, <1>6, RowsStay DEF IInv

\* A run that leaves without writing a row.
LEMMA LeavingKeepsAll ==
  ASSUME IInv, NEW r \in Runs, NEW s \in {"done", "throw", "lost"}, Leave(r, s),
         UNCHANGED <<flowVars, rowVars, talkVars, jobVars, slotVars>>,
         r \in Messages => pc[r] # "lost" /\ (pc[r] \in Walking => s = "lost"),
         r \in Wakers => /\ pc[r] \notin {"idle", "throw"}
                         /\ s = "throw" \/ \A x \in Messages : wakeAt[x] # cur[r]
  PROVE  IInv'
<1> USE DEF flowVars, rowVars, talkVars, jobVars, walkVars, slotVars
<1>0. TypeOK /\ RunShape
  BY DEF IInv
<1>1. TypeOK'
  BY <1>0, LeaveTypes DEF TypeOK, RunStep
<1>2. RunShape'
  BY <1>0, LeavingKeepsRuns
<1>3. Moves(r) /\ pc'[r] = s
  BY <1>0 DEF Moves, Leave, Goto, TypeOK
<1>4. JobShape' /\ WaitShape' /\ WakesItsOwner'
  BY <1>3, JobsStay
<1>5. RunningIsAtWork'
  BY <1>3, StillAtWork DEF Moves
<1> QED BY <1>1, <1>2, <1>4, <1>5, RowsStay DEF IInv

LEMMA CreateStep ==
  ASSUME IInv, NEW m \in Messages, Create(m)
  PROVE  IInv'
<1> USE DEF flowVars, rowVars, talkVars, jobVars, walkVars, slotVars
<1>0. /\ TypeOK /\ FlowShape /\ RunShape /\ WaitShape /\ m \in Runs /\ m \notin Wakers
      /\ pc[m] = "create" /\ status[m] = "absent" /\ ver[m] = None /\ wait[m] = None
  BY Constants DEF IInv, Runs, RunShape, RunOK, FlowShape, WaitShape, Create
<1>1. CASE graph[m] \notin versions
  BY <1>0, <1>1, LeavingKeepsAll DEF Create, Walking
<1>2. CASE graph[m] \in versions
  <2> DEFINE g == GraphOf[graph[m]]
  <2>1. graph[m] \in Versions /\ graph[m] # None /\ Valid(g) /\ g = Graph(m)
    BY <1>0, <1>2, Constants DEF TypeOK, FlowShape, Graph
  <2>2. /\ status' = [status EXCEPT ![m] = "running"]
        /\ ver' = [ver EXCEPT ![m] = graph[m]]
        /\ before' \in [Messages -> SUBSET Messages]
        /\ on' = [on EXCEPT ![m] = m]
        /\ pc' = [pc EXCEPT ![m] = "walk"]
        /\ UNCHANGED <<flowVars, at, steps, wakeAt, talkVars, jobVars, graph, count,
                       sees, out, wait, slotVars>>
    BY <1>0, <1>2 DEF Create, Goto, TypeOK
  <2>3. node' = [node EXCEPT ![m] = node'[m]] /\ node'[m] \in NodesOf(g) \union {None}
    <3>1. PICK s \in Starts(g) : \E n \in Follow(g, s, "default") : node' = [node EXCEPT ![m] = n]
      BY <1>2 DEF Create
    <3>2. Follow(g, s, "default") \subseteq NodesOf(g) \union {None}
      BY <2>1, WaysLeadToNodes DEF Valid
    <3> HIDE DEF g
    <3> QED BY <1>0, <3>1, <3>2 DEF TypeOK
  <2> HIDE DEF g
  <2>4. TypeOK'
    <3>1. node' \in [Runs -> Nodes \union {None}]
      BY <1>0, <2>1, <2>3, NodesOfVersion DEF TypeOK, g
    <3> QED BY <1>0, <2>1, <2>2, <3>1 DEF TypeOK, Status, RunStep, Walking
  <2>5. FlowShape'
    BY <1>0, <1>2, <2>1, <2>2 DEF FlowShape, TypeOK, g
  <2>6. RunShape'
    <3>1. RunOK(m)'
      <4>1. pc'[m] = "walk" /\ on'[m] = m /\ ver'[m] = graph[m] /\ graph'[m] = graph[m]
        BY <1>0, <2>2 DEF TypeOK
      <4>2. Graph(m)' = g
        BY <4>1 DEF Graph, g
      <4>3. sees'[m] => window'
        BY <1>0, <2>2 DEF RunShape, RunOK
      <4> QED BY <1>0, <2>1, <2>3, <4>1, <4>2, <4>3
            DEF RunOK, WithGraph, AtItsNode, Held, Walking
    <3> QED BY <1>0, <2>2, <2>3, <3>1, OthersStay DEF TypeOK, RunShape, RunOK
  <2>7. JobShape' /\ WaitShape' /\ WakesItsOwner'
    <3>1. Moves(m)
      BY <1>0, <2>2 DEF Moves, TypeOK
    <3> QED BY <1>0, <2>2, <3>1, JobsStay
  <2>8. RunningIsAtWork'
    BY <1>0, <2>2 DEF TypeOK, IInv, RunningIsAtWork, Walking
  <2>9. WaitsWhereItCanResume' /\ FailsOnlyAtTheLimit'
    BY <1>0, <2>2 DEF TypeOK, IInv, WaitsWhereItCanResume, FailsOnlyAtTheLimit
  <2> QED BY <2>4, <2>5, <2>6, <2>7, <2>8, <2>9 DEF IInv
<1> QED BY <1>1, <1>2

LEMMA ReadSteps ==
  ASSUME IInv, NEW r \in Runs, (r \in Wakers /\ ReadExecution(r)) \/ Load(r)
  PROVE  IInv'
<1> USE DEF flowVars, rowVars, talkVars, jobVars, walkVars, slotVars
<1>0. TypeOK /\ FlowShape /\ RunShape /\ WaitShape /\ WakesItsOwner /\ RunOK(r)
  BY DEF IInv, RunShape
<1>1. CASE r \in Wakers /\ pc[r] = "read" /\ status[on[r]] # "waiting_timer"
  <2>1. \A x \in Messages : wakeAt[x] # cur[r]
    <3>1. cur[r] # None
      BY <1>1, Constants DEF IInv, JobShape
    <3>2. \A x \in Messages : wakeAt[x] # None => status[x] = "waiting_timer"
      BY <1>0 DEF FlowShape
    <3> QED BY <1>0, <1>1, <3>1, <3>2 DEF WakesItsOwner
  <2> QED BY <1>1, <2>1, Constants, LeavingKeepsAll DEF ReadExecution, Load
<1>2. CASE pc[r] = "load" /\ ver[on[r]] \notin versions
  <2>1. on[r] \in Messages
    BY <1>0, <1>2 DEF RunOK, WithGraph
  <2>2. wakeAt[on[r]] = None
    BY <1>0, <1>2, <2>1 DEF FlowShape
  <2>3. r \in Wakers => \A x \in Messages : wakeAt[x] # cur[r]
    <3>1. r \in Wakers => cur[r] # None
      BY <1>2, Constants DEF IInv, JobShape
    <3> QED BY <1>0, <1>2, <2>2, <3>1 DEF WakesItsOwner
  <2> QED BY <1>2, <2>3, LeavingKeepsAll DEF ReadExecution, Load, Walking
<1>3. CASE r \in Wakers /\ pc[r] = "read" /\ status[on[r]] = "waiting_timer"
  <2>1. on[r] \in Messages
    BY <1>3 DEF IInv, JobShape
  <2>2. /\ Take(r, on[r]) /\ Goto(r, "load")
        /\ UNCHANGED <<flowVars, rowVars, talkVars, jobVars, slotVars, graph, sees, out, wait>>
    BY <1>3 DEF ReadExecution, Load
  <2>3. TypeOK'
    BY <1>0, <2>1, <2>2 DEF Take, Goto, TypeOK, RunStep
  <2>4. on' = on /\ pc' = [pc EXCEPT ![r] = "load"] /\ node'[r] = at[on[r]]
    BY <1>0, <2>1, <2>2 DEF Take, Goto, TypeOK
  <2>5. RunShape'
    <3>1. ver[on[r]] # None /\ at[on[r]] \in NodesOf(GraphOf[ver[on[r]]])
          /\ GraphOf[ver[on[r]]].kind[at[on[r]]] = "wait"
      BY <1>3, <2>1 DEF IInv, FlowShape, WaitsWhereItCanResume
    <3>2. pc'[r] = "load" /\ ver' = ver /\ sees' = sees /\ window' = window
      BY <1>0, <2>2, <2>4 DEF TypeOK
    <3>3. WithGraph(r)' /\ AtItsNode(r)'
      BY <1>3, <2>1, <2>4, <3>1, <3>2 DEF WithGraph, AtItsNode, Held, Walking
    <3>4. RunOK(r)'
      BY <1>0, <1>3, <3>2, <3>3, Constants DEF RunOK
    <3> QED BY <1>0, <2>2, <2>4, <3>4, OthersStay DEF Take, TypeOK, RunShape, RunOK
  <2>6. Moves(r)
    BY <1>0, <1>3, <2>2, <2>4 DEF Moves, TypeOK, WaitShape
  <2>7. JobShape' /\ WaitShape' /\ WakesItsOwner'
    BY <1>0, <1>3, <2>2, <2>4, <2>6, JobsStay DEF TypeOK, AtWork
  <2>8. RunningIsAtWork'
    BY <1>3, <2>2, <2>6, Constants, StillAtWork DEF Moves
  <2> QED BY <2>2, <2>3, <2>5, <2>7, <2>8, RowsStay DEF IInv
<1>4. CASE pc[r] = "load" /\ ver[on[r]] \in versions
  <2>1. on[r] \in Messages /\ ver[on[r]] \in Versions
    BY <1>0, <1>4 DEF RunOK, WithGraph, TypeOK
  <2>2. /\ graph' = [graph EXCEPT ![r] = ver[on[r]]] /\ Goto(r, "resume")
        /\ sees' = sees \/ sees' = [sees EXCEPT ![r] = window]
        /\ UNCHANGED <<flowVars, rowVars, talkVars, jobVars, slotVars, on, node, count, out, wait>>
    BY <1>4 DEF ReadExecution, Load
  <2>3. TypeOK'
    BY <1>0, <2>1, <2>2 DEF Goto, TypeOK, RunStep
  <2>4. pc' = [pc EXCEPT ![r] = "resume"] /\ graph'[r] = ver[on[r]]
        /\ \A q \in Runs : sees'[q] => window'
    BY <1>0, <2>1, <2>2 DEF Goto, TypeOK, RunShape, RunOK
  <2>5. RunShape'
    <3>1. pc'[r] = "resume" /\ ver' = ver
      BY <1>0, <2>2, <2>4 DEF TypeOK
    <3>2. WithGraph(r)' /\ AtItsNode(r)'
      BY <1>0, <1>4, <2>1, <2>2, <2>4, <3>1 DEF RunOK, WithGraph, AtItsNode, Held, Walking
    <3>3. RunOK(r)'
      BY <2>4, <3>1, <3>2 DEF RunOK
    <3> QED BY <1>0, <2>2, <2>4, <3>3, OthersStay DEF TypeOK
  <2>6. Moves(r)
    BY <1>0, <1>4, <2>2, <2>4 DEF Moves, TypeOK, WaitShape
  <2>7. JobShape' /\ WaitShape' /\ WakesItsOwner'
    BY <1>0, <1>4, <2>2, <2>4, <2>6, JobsStay DEF TypeOK, AtWork
  <2>8. RunningIsAtWork'
    BY <1>4, <2>2, <2>6, StillAtWork DEF Moves, Walking
  <2> QED BY <2>2, <2>3, <2>5, <2>7, <2>8, RowsStay DEF IInv
<1> QED BY <1>1, <1>2, <1>3, <1>4 DEF ReadExecution, Load

LEMMA WalkSteps ==
  ASSUME IInv, NEW r \in Runs, Interpreting(r)
  PROVE  IInv'
<1> USE DEF flowVars, rowVars, talkVars, jobVars, walkVars, slotVars
<1>0. /\ TypeOK /\ FlowShape /\ RunShape /\ WaitShape /\ RunOK(r) /\ StepShape(r)
      /\ pc[r] \in Held /\ pc'[r] \in Walking /\ pc[r] \in AtWork /\ pc'[r] \in AtWork
  BY InterpreterSteps DEF IInv, RunShape, StepShape, Held, Walking, AtWork
<1>1. /\ on[r] \in Messages /\ graph[r] = ver[on[r]] /\ graph[r] \in Versions
      /\ ver' = ver /\ on' = on /\ graph' = graph /\ sees' = sees /\ window' = window
      /\ status' = status
  BY <1>0, Constants DEF RunOK, WithGraph, TypeOK, StepShape
<1>2. TypeOK'
  <2>1. node' \in [Runs -> Nodes \union {None}]
    <3>1. NodesOf(Graph(r)) \subseteq Nodes
      BY <1>1, NodesOfVersion DEF Graph
    <3> QED BY <1>0, <3>1 DEF StepShape, TypeOK
  <2>2. pc' \in [Runs -> RunStep] /\ count' \in [Runs -> 0..MaxSteps] /\ out' \in [Runs -> Status]
    BY <1>0 DEF StepShape, TypeOK, RunStep
  <2> QED BY <1>0, <2>1, <2>2 DEF StepShape, TypeOK
<1>3. RunShape'
  <2>1. WithGraph(r)'
    BY <1>0, <1>1, Constants DEF WithGraph
  <2>2. AtItsNode(r)'
    BY <1>0, <1>1 DEF AtItsNode, StepShape, Walking, Graph
  <2>3. RunOK(r)'
    BY <1>0, <1>1, <2>1, <2>2 DEF RunOK, StepShape, Walking
  <2> QED BY <1>0, <1>1, <2>3, OthersStay DEF StepShape, TypeOK, RunShape, RunOK
<1>4. Moves(r)
  BY <1>0, <1>1 DEF Moves, StepShape, WaitShape, TypeOK, Walking
<1>5. JobShape' /\ WaitShape' /\ WakesItsOwner'
  <2>1. pc[r] \notin {"idle", "throw"} /\ pc'[r] \notin {"idle", "read"}
    BY <1>0 DEF StepShape, Walking
  <2> QED BY <1>0, <1>1, <1>4, <2>1, JobsStay DEF StepShape
<1>6. RunningIsAtWork'
  <2>1. pc[r] # "lost"
    BY <1>0 DEF StepShape
  <2> QED BY <1>0, <1>1, <1>4, <2>1, StillAtWork DEF Moves
<1> QED BY <1>0, <1>2, <1>3, <1>5, <1>6, RowsStay DEF IInv, StepShape

LEMMA FailSteps ==
  ASSUME IInv, NEW r \in Runs, Fail(r)
  PROVE  IInv'
<1>1. pc[r] \notin {"lost", "idle", "throw"}
  BY DEF Fail
<1>2. CASE r \in Wakers
  BY <1>1, <1>2, Constants, LeavingKeepsAll DEF Fail, Throw
<1>3. CASE r \notin Wakers
  BY <1>1, <1>3, LeavingKeepsAll DEF Fail, Throw
<1> QED BY <1>2, <1>3

-----------------------------------------------------------------------------
(* Commits and jobs *)

LEMMA FreeWaitIsFree ==
  ASSUME AnyFree
  PROVE  FreeWait \in Waits /\ Free(FreeWait)
  BY DEF AnyFree, FreeWait

LEMMA CommitStep ==
  ASSUME IInv, NEW r \in Runs, Commit(r)
  PROVE  IInv'
<1> USE DEF flowVars, rowVars, talkVars, jobVars, walkVars, slotVars
<1> DEFINE x == on[r]
<1>0. /\ TypeOK /\ FlowShape /\ RunShape /\ WaitShape /\ JobShape /\ WakesItsOwner
      /\ RunOK(r) /\ Result(r) /\ pc[r] = "commit" /\ wait[r] = None
      /\ r \in Messages \/ r \in Wakers
  BY DEF IInv, RunShape, RunOK, WaitShape, Commit, Runs
<1>1. /\ x \in Messages /\ ver[x] \in Versions /\ ver[x] # None /\ graph[r] = ver[x]
      /\ status[x] # "absent" /\ node[r] \in Nodes \union {None}
  BY <1>0, Constants DEF RunOK, WithGraph, TypeOK, Held, Walking, FlowShape
<1> HIDE DEF x
<1>2. CASE status[x] = "removed"
  <2>1. Throw(r) /\ UNCHANGED <<flowVars, rowVars, talkVars, jobVars, slotVars>>
    BY <1>2 DEF Commit, x
  <2> QED BY <1>0, <2>1, Constants, LeavingKeepsAll DEF Throw
<1>3. CASE status[x] # "removed"
  <2>1. /\ status' = [status EXCEPT ![x] = out[r]]
        /\ at' = [at EXCEPT ![x] = node[r]]
        /\ steps' = [steps EXCEPT ![x] = count[r]]
        /\ UNCHANGED <<flowVars, ver, before, talkVars, jobVars, slotVars>>
    BY <1>3 DEF Commit, x
  <2>2. /\ \A y \in Messages \ {x} :
             status'[y] = status[y] /\ at'[y] = at[y] /\ steps'[y] = steps[y]
        /\ status'[x] = out[r] /\ at'[x] = node[r] /\ steps'[x] = count[r]
        /\ out[r] \notin {"absent", "removed", "running"}
    BY <1>0, <1>1, <2>1 DEF TypeOK, Result, Ended
  <2>3. FailsOnlyAtTheLimit'
    BY <1>0, <2>2 DEF IInv, FailsOnlyAtTheLimit, Result
  <2>4. \A y \in Messages :
          LET g == GraphOf[ver[y]] IN
          /\ status'[y] = "waiting_input" =>
               at'[y] \in NodesOf(g) /\ g.kind[at'[y]] = "question"
          /\ status'[y] = "waiting_timer" =>
               at'[y] \in NodesOf(g) /\ g.kind[at'[y]] = "wait"
    <3>1. \A y \in Messages \ {x} :
            LET g == GraphOf[ver[y]] IN
            /\ status[y] = "waiting_input" => at[y] \in NodesOf(g) /\ g.kind[at[y]] = "question"
            /\ status[y] = "waiting_timer" => at[y] \in NodesOf(g) /\ g.kind[at[y]] = "wait"
      BY DEF IInv, WaitsWhereItCanResume
    <3> QED BY <1>0, <1>1, <2>2, <3>1 DEF Result, Graph, TypeAt
  <2>5. ver' = ver /\ \A y \in Messages : status[y] = "absent" => status'[y] = "absent"
    BY <1>1, <2>1, <2>2
  <2>6. /\ \A v \in versions' : Valid(GraphOf[v])
        /\ \A y \in Messages :
             /\ (status'[y] = "absent") <=> (ver'[y] = None)
             /\ ver'[y] # None => Valid(GraphOf[ver'[y]])
             /\ status'[y] \notin {"absent", "removed"} => ver'[y] \in versions'
    BY <1>0, <1>1, <1>3, <2>1, <2>2 DEF FlowShape
  <2>7. CASE out[r] = "waiting_timer" /\ node[r] \in Graph(r).timed
    <3>1. /\ AnyFree
          /\ wakeAt' = [wakeAt EXCEPT ![x] = FreeWait]
          /\ wait' = [wait EXCEPT ![r] = FreeWait]
          /\ Goto(r, "add")
          /\ UNCHANGED <<on, graph, node, count, sees, out>>
      BY <1>3, <2>7 DEF Commit, x
    <3> DEFINE j == FreeWait
    <3>2. j \in Waits /\ Free(j) /\ j # None
      BY <3>1, FreeWaitIsFree, Constants
    <3> HIDE DEF j
    <3>3. /\ wakeAt'[x] = j /\ wait'[r] = j /\ pc'[r] = "add"
          /\ \A y \in Messages \ {x} : wakeAt'[y] = wakeAt[y]
          /\ \A q \in Runs \ {r} : wait'[q] = wait[q] /\ pc'[q] = pc[q]
          /\ pc' = [pc EXCEPT ![r] = "add"]
      BY <1>0, <1>1, <3>1 DEF TypeOK, Goto, j
    <3>4. TypeOK'
      BY <1>0, <1>1, <2>1, <3>1, <3>2 DEF TypeOK, Goto, RunStep, j
    <3>5. FlowShape'
      BY <1>0, <2>2, <2>6, <2>7, <3>3 DEF FlowShape
    <3>6. RunShape'
      <4>1. WithGraph(r)' /\ AtItsNode(r)'
        BY <1>0, <1>1, <2>1, <3>1, <3>3 DEF WithGraph, AtItsNode, Walking, x
      <4>2. RunOK(r)'
        BY <1>0, <2>1, <3>1, <3>3, <4>1 DEF RunOK
      <4> QED BY <1>0, <2>1, <2>5, <3>1, <3>3, <4>2, OthersStay DEF RunShape, RunOK
    <3>7. JobShape'
      BY <1>0, <2>1, <3>1, <3>3 DEF JobShape, Runs
    <3>8. WaitShape'
      <4>1. \A q \in Runs \ {r} : wait[q] # j
        BY <3>2 DEF Free
      <4>2. job[j] = "none" /\ \A w \in Wakers : cur[w] # j
        BY <3>2 DEF Free
      <4>3. \A y \in Messages : wakeAt[y] # j
        BY <3>2 DEF Free
      <4>4. \A q \in Runs : /\ (pc'[q] = "add") <=> (wait'[q] # None)
                            /\ wait'[q] # None => job[wait'[q]] = "none"
                                                 /\ \A w \in Wakers : cur[w] # wait'[q]
        BY <1>0, <3>2, <3>3, <4>2 DEF WaitShape
      <4>5. \A p, q \in Runs : wait'[p] # None /\ wait'[p] = wait'[q] => p = q
        BY <1>0, <3>2, <3>3, <4>1 DEF WaitShape
      <4>6. ASSUME NEW y \in Messages
            PROVE  /\ \A q \in Runs : wait'[q] # None /\ wakeAt'[y] = wait'[q] => on'[q] = y
                   /\ \A i \in Waits : job[i] \in Live /\ wakeAt'[y] = i => owner[i] = y
        <5>1. CASE y = x
          BY <1>0, <3>1, <3>2, <3>3, <4>1, <4>2, <5>1 DEF x, Live
        <5>2. CASE y # x
          BY <1>0, <3>1, <3>2, <3>3, <4>3, <5>2 DEF WaitShape
        <5> QED BY <5>1, <5>2
      <4> QED BY <2>1, <4>4, <4>5, <4>6 DEF WaitShape
    <3>9. WakesItsOwner'
      <4> SUFFICES ASSUME NEW y \in Messages, NEW w \in Wakers, cur[w] # None, wakeAt'[y] = cur[w]
                   PROVE  pc'[w] = "throw" \/ (on'[w] = y /\ pc'[w] \in AtWork)
        BY <2>1 DEF WakesItsOwner
      <4>1. cur[w] # j
        BY <3>2 DEF Free
      <4>2. y # x /\ wakeAt[y] = cur[w]
        BY <3>3, <4>1
      <4>3. pc[w] = "throw" \/ (on[w] = y /\ pc[w] \in AtWork)
        BY <1>0, <4>2 DEF WakesItsOwner
      <4>4. w # r
        BY <1>0, <4>2, <4>3 DEF x
      <4> QED BY <3>1, <3>3, <4>3, <4>4 DEF Runs
    <3>10. WaitsWhereItCanResume'
      <4>1. \A y \in Messages : status'[y] = "waiting_timer" => wakeAt'[y] # None
        BY <2>2, <3>2, <3>3 DEF IInv, WaitsWhereItCanResume
      <4> QED BY <2>4, <2>5, <4>1 DEF WaitsWhereItCanResume
    <3>11. RunningIsAtWork'
      <4> SUFFICES ASSUME NEW y \in Messages, status'[y] = "running"
                   PROVE  (pc'[y] \in Walking /\ on'[y] = y) \/ pc'[y] = "lost"
        BY DEF RunningIsAtWork
      <4>1. y # x /\ status[y] = "running"
        BY <2>2
      <4>2. (pc[y] \in Walking /\ on[y] = y) \/ pc[y] = "lost"
        BY <4>1 DEF IInv, RunningIsAtWork
      <4>3. y # r
        BY <1>0, <4>1, <4>2 DEF x
      <4> QED BY <3>1, <3>3, <4>2, <4>3 DEF Runs
    <3> QED BY <2>3, <3>4, <3>5, <3>6, <3>7, <3>8, <3>9, <3>10, <3>11 DEF IInv
  <2>8. CASE ~(out[r] = "waiting_timer" /\ node[r] \in Graph(r).timed)
    <3>1. wakeAt' = [wakeAt EXCEPT ![x] = None] /\ Leave(r, "done")
      BY <1>3, <2>8 DEF Commit, x
    <3>2. /\ wakeAt'[x] = None
          /\ \A y \in Messages \ {x} : wakeAt'[y] = wakeAt[y]
          /\ \A q \in Runs \ {r} : wait'[q] = wait[q] /\ pc'[q] = pc[q] /\ on'[q] = on[q]
          /\ wait'[r] = None /\ pc'[r] = "done"
      BY <1>0, <1>1, <3>1 DEF TypeOK, Leave, Goto
    <3>3. out[r] # "waiting_timer"
      <4>1. Valid(Graph(r))
        BY <1>0, <1>1 DEF FlowShape, Graph
      <4> QED BY <1>0, <2>8, <4>1 DEF Valid, Timed, Result, TypeAt
    <3>4. TypeOK'
      BY <1>0, <1>1, <2>1, <3>1, LeaveTypes DEF TypeOK, RunStep
    <3>5. FlowShape'
      BY <1>0, <2>2, <2>6, <3>2 DEF FlowShape
    <3>6. RunShape'
      BY <1>0, <2>1, <2>5, <3>1, LeavingKeepsRuns
    <3>7. Moves(r)
      BY <2>1, <3>2 DEF Moves
    <3>8. r \in Wakers => \A y \in Messages : wakeAt'[y] # cur[r]
      <4> SUFFICES ASSUME r \in Wakers, NEW y \in Messages, wakeAt'[y] = cur[r]
                   PROVE  FALSE
        OBVIOUS
      <4>1. cur[r] # None
        BY <1>0, Constants DEF JobShape
      <4>2. y # x /\ wakeAt[y] = cur[r]
        BY <3>2, <4>1
      <4> QED BY <1>0, <4>1, <4>2 DEF WakesItsOwner, x
    <3>9. JobShape' /\ WaitShape' /\ WakesItsOwner'
      BY <1>0, <2>1, <3>2, <3>7, <3>8, JobsStay
    <3>10. WaitsWhereItCanResume'
      <4>1. \A y \in Messages : status'[y] = "waiting_timer" => wakeAt'[y] # None
        BY <2>2, <3>2, <3>3 DEF IInv, WaitsWhereItCanResume
      <4> QED BY <2>4, <2>5, <4>1 DEF WaitsWhereItCanResume
    <3>11. RunningIsAtWork'
      <4> SUFFICES ASSUME NEW y \in Messages, status'[y] = "running"
                   PROVE  (pc'[y] \in Walking /\ on'[y] = y) \/ pc'[y] = "lost"
        BY DEF RunningIsAtWork
      <4>1. y # x /\ status[y] = "running"
        BY <2>2
      <4>2. (pc[y] \in Walking /\ on[y] = y) \/ pc[y] = "lost"
        BY <4>1 DEF IInv, RunningIsAtWork
      <4>3. y # r
        BY <1>0, <4>1, <4>2 DEF x
      <4> QED BY <3>2, <4>2, <4>3 DEF Runs
    <3> QED BY <2>3, <3>4, <3>5, <3>6, <3>9, <3>10, <3>11 DEF IInv
  <2> QED BY <2>7, <2>8
<1> QED BY <1>2, <1>3

LEMMA AddStep ==
  ASSUME IInv, NEW r \in Runs, AddJob(r)
  PROVE  IInv'
<1> USE DEF flowVars, rowVars, talkVars, jobVars, walkVars, slotVars
<1> DEFINE j == wait[r]
<1>0. /\ TypeOK /\ RunShape /\ JobShape /\ WaitShape /\ WakesItsOwner /\ RunOK(r)
      /\ pc[r] = "add" /\ Leave(r, "done")
  BY DEF IInv, RunShape, AddJob
<1>1. /\ j \in Waits /\ j # None /\ job[j] = "none" /\ (\A w \in Wakers : cur[w] # j)
      /\ on[r] \in Messages
  BY <1>0 DEF WaitShape, TypeOK, RunOK, WithGraph, Held
<1>2. /\ \A i \in Waits \ {j} : job'[i] = job[i] /\ owner'[i] = owner[i] /\ made'[i] = made[i]
      /\ job'[j] = "delayed" /\ owner'[j] = on[r] /\ made'[j] = 0
      /\ UNCHANGED <<flowVars, rowVars, mode, window, slotVars>>
  BY <1>0, <1>1 DEF AddJob, TypeOK
<1>3. /\ \A q \in Runs \ {r} : wait'[q] = wait[q] /\ pc'[q] = pc[q] /\ on'[q] = on[q]
      /\ wait'[r] = None /\ pc'[r] = "done"
  BY <1>0 DEF TypeOK, Leave, Goto
<1>4. TypeOK'
  BY <1>0, <1>1, LeaveTypes, Constants DEF AddJob, TypeOK, RunStep, JobState
<1> HIDE DEF j
<1>5. RunShape'
  BY <1>0, <1>2, LeavingKeepsRuns
<1>6. JobShape'
  <2>1. \A i \in Waits : job'[i] \in Live => owner'[i] \in Messages /\ made'[i] < MaxAttempts
    BY <1>0, <1>1, <1>2, Constants DEF JobShape
  <2>2. \A w \in Wakers : locked[w] => job'[cur[w]] = "active"
    <3>1. \A w \in Wakers : locked[w] => cur[w] \in Waits
      BY <1>0 DEF JobShape
    <3> QED BY <1>0, <1>1, <1>2, <3>1 DEF JobShape
  <2> QED BY <1>0, <1>2, <1>3, <2>1, <2>2 DEF JobShape, Runs
<1>7. WaitShape'
  <2>1. \A q \in Runs : wait'[q] # None => q # r /\ wait'[q] = wait[q] /\ wait[q] # j
    BY <1>0, <1>1, <1>3 DEF WaitShape, j
  <2>2. \A q \in Runs : /\ (pc'[q] = "add") <=> (wait'[q] # None)
                        /\ wait'[q] # None => job'[wait'[q]] = "none"
                                             /\ \A w \in Wakers : cur[w] # wait'[q]
    <3>1. \A q \in Runs : wait[q] \in Waits \union {None}
      BY <1>0 DEF TypeOK
    <3> QED BY <1>0, <1>2, <1>3, <2>1, <3>1 DEF WaitShape
  <2>3. \A p, q \in Runs : wait'[p] # None /\ wait'[p] = wait'[q] => p = q
    BY <1>0, <2>1 DEF WaitShape
  <2>4. ASSUME NEW y \in Messages
        PROVE  /\ \A q \in Runs : wait'[q] # None /\ wakeAt'[y] = wait'[q] => on'[q] = y
               /\ \A i \in Waits : job'[i] \in Live /\ wakeAt'[y] = i => owner'[i] = y
    <3>1. wakeAt[y] = j => on[r] = y
      BY <1>0, <1>1 DEF WaitShape, j
    <3> QED BY <1>0, <1>2, <1>3, <2>1, <3>1 DEF WaitShape
  <2> QED BY <1>2, <2>2, <2>3, <2>4 DEF WaitShape
<1>8. WakesItsOwner'
  <2> SUFFICES ASSUME NEW y \in Messages, NEW w \in Wakers, cur[w] # None, wakeAt[y] = cur[w]
               PROVE  pc'[w] = "throw" \/ (on'[w] = y /\ pc'[w] \in AtWork)
    BY <1>2 DEF WakesItsOwner
  <2>1. pc[w] = "throw" \/ (on[w] = y /\ pc[w] \in AtWork)
    BY <1>0 DEF WakesItsOwner
  <2>2. w # r
    BY <1>0, <2>1 DEF AtWork, Walking
  <2> QED BY <1>3, <2>1, <2>2 DEF Runs
<1>9. RunningIsAtWork'
  BY <1>0, <1>2, <1>3, StillAtWork DEF Walking
<1> QED BY <1>2, <1>4, <1>5, <1>6, <1>7, <1>8, <1>9, RowsStay DEF IInv

\* What BullMQ does to a job or a waker leaves executions and waits as they are,
\* if a job that may not run before may not after.
LEMMA QueueKeeps ==
  ASSUME IInv, UNCHANGED <<flowVars, rowVars, wait>>,
         \A r \in Runs : (pc'[r] = "add") <=> (pc[r] = "add"),
         \A r \in Runs : pc[r] = "add" => on'[r] = on[r],
         \A m \in Messages : pc'[m] = pc[m] /\ on'[m] = on[m],
         \A j \in Waits : /\ (job'[j] \in Live) => job[j] \in Live /\ owner'[j] = owner[j]
                          /\ job[j] = "none" => job'[j] = "none",
         \A w \in Wakers : \/ cur'[w] \in {cur[w], None}
                           \/ cur'[w] \in Waits /\ job[cur'[w]] # "none"
  PROVE  /\ WaitShape' /\ RunningIsAtWork' /\ FlowShape'
         /\ WaitsWhereItCanResume' /\ FailsOnlyAtTheLimit'
<1> USE DEF flowVars, rowVars, talkVars
<1>0. TypeOK /\ WaitShape /\ RunningIsAtWork
  BY DEF IInv
<1>1. \A r \in Runs : wait[r] \in Waits \union {None}
  BY <1>0 DEF TypeOK
<1>2. \A r \in Runs : wait[r] # None => /\ job'[wait[r]] = "none"
                                        /\ \A w \in Wakers : cur'[w] # wait[r]
  BY <1>0, <1>1 DEF WaitShape
<1>3. WaitShape'
  BY <1>0, <1>1, <1>2 DEF WaitShape
<1>4. RunningIsAtWork'
  BY <1>0 DEF RunningIsAtWork
<1> QED BY <1>3, <1>4, RowsStay

\* The queue alone moves a job: its time comes, or it has stalled.
LEMMA QueueSteps ==
  ASSUME IInv, NEW j \in Waits, Elapse(j) \/ ReclaimStalled(j)
  PROVE  IInv'
<1> USE DEF flowVars, rowVars, talkVars, jobVars, walkVars, slotVars
<1>0. TypeOK /\ RunShape /\ JobShape /\ WakesItsOwner
  BY DEF IInv
<1>1. /\ job' = [job EXCEPT ![j] = job'[j]] /\ job[j] \in Live
      /\ job'[j] \in {"waiting", "failed"} /\ stalls' \in [Waits -> 0..MaxStalls]
      /\ UNCHANGED <<flowVars, rowVars, talkVars, owner, made, pc, walkVars, slotVars>>
      /\ \A w \in Wakers : locked[w] => cur[w] # j
  <2>1. CASE Elapse(j)
    BY <1>0, <2>1 DEF Elapse, TypeOK, Live, JobShape
  <2>2. CASE ReclaimStalled(j)
    BY <1>0, <2>2, Constants DEF ReclaimStalled, TypeOK, Live
  <2> QED BY <2>1, <2>2
<1>2. TypeOK'
  BY <1>0, <1>1 DEF TypeOK, JobState
<1>3. RunShape'
  BY <1>0, <1>1, RunsStay DEF RunShape, RunOK
<1>4. \A i \in Waits : /\ job'[i] \in Live => job[i] \in Live
                       /\ job[i] = "none" => job'[i] = "none"
                       /\ i # j => job'[i] = job[i]
  BY <1>0, <1>1 DEF TypeOK, Live
<1>5. JobShape'
  <2>1. \A w \in Wakers : locked[w] => job'[cur[w]] = "active"
    <3>1. \A w \in Wakers : locked[w] => cur[w] \in Waits
      BY <1>0 DEF JobShape
    <3> QED BY <1>0, <1>1, <1>4, <3>1 DEF JobShape
  <2> QED BY <1>0, <1>1, <1>4, <2>1 DEF JobShape
<1>6. WakesItsOwner'
  BY <1>0, <1>1 DEF WakesItsOwner
<1> QED BY <1>1, <1>2, <1>3, <1>4, <1>5, <1>6, QueueKeeps, Constants DEF IInv, TypeOK

LEMMA StartStep ==
  ASSUME IInv, NEW w \in Wakers, NEW j \in Waits, StartJob(w, j)
  PROVE  IInv'
<1> USE DEF flowVars, rowVars, talkVars, jobVars, walkVars, slotVars
<1>0. TypeOK /\ RunShape /\ JobShape /\ WaitShape /\ WakesItsOwner /\ w \in Runs
  BY DEF IInv, Runs
<1>1. owner[j] \in Messages /\ job[j] = "waiting" /\ pc[w] = "idle" /\ job[j] \in Live
  BY <1>0 DEF StartJob, JobShape, Live
<1>2. /\ job' = [job EXCEPT ![j] = "active"] /\ cur' = [cur EXCEPT ![w] = j]
      /\ locked' = [locked EXCEPT ![w] = TRUE] /\ on' = [on EXCEPT ![w] = owner[j]]
      /\ pc' = [pc EXCEPT ![w] = "read"]
      /\ UNCHANGED <<flowVars, rowVars, talkVars, owner, made, stalls, graph, node, count,
                     sees, out, wait>>
  BY DEF StartJob, Goto
<1>3. /\ job'[j] = "active" /\ cur'[w] = j /\ locked'[w] /\ on'[w] = owner[j] /\ pc'[w] = "read"
      /\ \A i \in Waits \ {j} : job'[i] = job[i]
      /\ \A v \in Wakers \ {w} : cur'[v] = cur[v] /\ locked'[v] = locked[v]
      /\ \A r \in Runs \ {w} : pc'[r] = pc[r] /\ on'[r] = on[r]
  BY <1>0, <1>2 DEF TypeOK
<1>4. TypeOK'
  BY <1>0, <1>1, <1>2 DEF TypeOK, JobState, RunStep
<1>5. RunShape'
  <2>1. RunOK(w)'
    BY <1>0, <1>2, <1>3, Constants DEF RunShape, RunOK, WithGraph, AtItsNode, Held, Walking
  <2> QED BY <1>0, <1>2, <1>3, <2>1, OthersStay DEF RunShape, RunOK
<1>6. JobShape'
  <2>1. \A v \in Wakers : locked[v] => cur[v] \in Waits /\ cur[v] # j /\ v # w
    BY <1>0, <1>1, Constants DEF JobShape
  <2>2. \A i \in Waits : job'[i] \in Live => owner'[i] \in Messages /\ made'[i] < MaxAttempts
    BY <1>0, <1>1, <1>2, <1>3 DEF JobShape
  <2>3. \A v \in Wakers :
          /\ IF pc'[v] = "idle" THEN cur'[v] = None /\ ~locked'[v] ELSE cur'[v] \in Waits
          /\ pc'[v] = "read" => on'[v] \in Messages
          /\ locked'[v] => job'[cur'[v]] = "active"
    <3> TAKE v \in Wakers
    <3>1. CASE v = w
      BY <1>1, <1>3, <3>1
    <3>2. CASE v # w
      BY <1>0, <1>3, <2>1, <3>2 DEF JobShape, Runs
    <3> QED BY <3>1, <3>2
  <2>4. \A u, v \in Wakers : locked'[u] /\ locked'[v] /\ cur'[u] = cur'[v] => u = v
    BY <1>0, <1>3, <2>1 DEF JobShape
  <2> QED BY <2>2, <2>3, <2>4 DEF JobShape
<1>7. WakesItsOwner'
  <2> SUFFICES ASSUME NEW x \in Messages, NEW v \in Wakers, cur'[v] # None, wakeAt[x] = cur'[v]
               PROVE  pc'[v] = "throw" \/ (on'[v] = x /\ pc'[v] \in AtWork)
    BY <1>2 DEF WakesItsOwner
  <2>1. CASE v = w
    BY <1>0, <1>1, <1>3, <2>1 DEF WaitShape, AtWork
  <2>2. CASE v # w
    BY <1>0, <1>3, <2>2 DEF WakesItsOwner, Runs
  <2> QED BY <2>1, <2>2
<1>8. /\ \A r \in Runs : (pc'[r] = "add") <=> (pc[r] = "add")
      /\ \A r \in Runs : pc[r] = "add" => on'[r] = on[r]
      /\ \A m \in Messages : pc'[m] = pc[m] /\ on'[m] = on[m]
  BY <1>1, <1>3, Constants DEF Runs
<1>9. \A i \in Waits : /\ (job'[i] \in Live) => job[i] \in Live /\ owner'[i] = owner[i]
                       /\ job[i] = "none" => job'[i] = "none"
  BY <1>1, <1>2, <1>3
<1>10. \A v \in Wakers : \/ cur'[v] \in {cur[v], None}
                         \/ cur'[v] \in Waits /\ job[cur'[v]] # "none"
  BY <1>1, <1>3
<1> QED BY <1>2, <1>4, <1>5, <1>6, <1>7, <1>8, <1>9, <1>10, QueueKeeps DEF IInv

LEMMA WakerSteps ==
  ASSUME IInv, NEW w \in Wakers, AckJob(w) \/ NackJob(w) \/ Crash(w)
  PROVE  IInv'
<1> USE DEF flowVars, rowVars, talkVars, jobVars, walkVars, slotVars
<1>0. /\ TypeOK /\ RunShape /\ JobShape /\ WaitShape /\ WakesItsOwner /\ w \in Runs
      /\ pc[w] # "idle" /\ cur[w] \in Waits
  BY DEF IInv, Runs, JobShape, AckJob, NackJob, Crash
<1>1. Leave(w, "idle") /\ cur' = [cur EXCEPT ![w] = None] /\ locked' = [locked EXCEPT ![w] = FALSE]
      /\ UNCHANGED <<flowVars, rowVars, mode, window>>
  BY DEF AckJob, NackJob, Crash, EndRun
<1>2. /\ cur'[w] = None /\ ~locked'[w] /\ pc'[w] = "idle" /\ wait'[w] = None
      /\ \A v \in Wakers \ {w} : cur'[v] = cur[v] /\ locked'[v] = locked[v]
      /\ \A r \in Runs \ {w} : pc'[r] = pc[r] /\ on'[r] = on[r] /\ wait'[r] = wait[r]
  BY <1>0, <1>1 DEF TypeOK, Leave, Goto
<1>3. \/ UNCHANGED jobVars
      \/ /\ locked[w]
         /\ \A i \in Waits \ {cur[w]} :
              job'[i] = job[i] /\ owner'[i] = owner[i] /\ made'[i] = made[i]
         /\ job[cur[w]] = "active"
         /\ \/ job'[cur[w]] \in {"none", "failed"}
            \/ job'[cur[w]] = "waiting" /\ owner' = owner /\ made'[cur[w]] < MaxAttempts
  <2>1. locked[w] => job[cur[w]] = "active" /\ made[cur[w]] < MaxAttempts
    BY <1>0 DEF JobShape, Live
  <2>2. CASE AckJob(w)
    BY <1>0, <2>1, <2>2 DEF AckJob, TypeOK
  <2>3. CASE NackJob(w)
    BY <1>0, <2>1, <2>3, Constants DEF NackJob, TypeOK
  <2>4. CASE Crash(w)
    BY <2>4 DEF Crash
  <2> QED BY <2>2, <2>3, <2>4
<1>4. TypeOK'
  <2>1. /\ job' \in [Waits -> JobState] /\ owner' \in [Waits -> Messages \union {None}]
        /\ made' \in [Waits -> 0..MaxAttempts] /\ stalls' \in [Waits -> 0..MaxStalls]
        /\ woken' \in [Waits -> Nat]
    <3>1. locked[w] => made[cur[w]] < MaxAttempts
      BY <1>0 DEF JobShape, Live
    <3>2. CASE AckJob(w)
      BY <1>0, <3>2, Constants DEF AckJob, TypeOK, JobState
    <3>3. CASE NackJob(w)
      BY <1>0, <3>1, <3>3, Constants DEF NackJob, TypeOK, JobState
    <3>4. CASE Crash(w)
      BY <1>0, <3>4 DEF Crash, TypeOK
    <3> QED BY <3>2, <3>3, <3>4
  <2>2. cur' \in [Wakers -> Waits \union {None}] /\ locked' \in [Wakers -> BOOLEAN]
    BY <1>0, <1>1 DEF TypeOK
  <2> QED BY <1>0, <1>1, <2>1, <2>2, LeaveTypes DEF TypeOK, RunStep
<1>5. RunShape'
  BY <1>0, <1>1, Constants, LeavingKeepsRuns
<1>6. \A v \in Wakers \ {w} : locked[v] => cur[v] \in Waits /\ job'[cur[v]] = "active"
  BY <1>0, <1>3 DEF JobShape
<1>7. JobShape'
  <2>1. \A i \in Waits : job'[i] \in Live => owner'[i] \in Messages /\ made'[i] < MaxAttempts
    BY <1>0, <1>3 DEF JobShape, Live
  <2>2. \A v \in Wakers :
          /\ IF pc'[v] = "idle" THEN cur'[v] = None /\ ~locked'[v] ELSE cur'[v] \in Waits
          /\ pc'[v] = "read" => on'[v] \in Messages
          /\ locked'[v] => job'[cur'[v]] = "active"
    BY <1>0, <1>2, <1>6 DEF JobShape, Runs
  <2>3. \A u, v \in Wakers : locked'[u] /\ locked'[v] /\ cur'[u] = cur'[v] => u = v
    BY <1>0, <1>2 DEF JobShape
  <2> QED BY <2>1, <2>2, <2>3 DEF JobShape
<1>8. WakesItsOwner'
  BY <1>0, <1>1, <1>2 DEF WakesItsOwner, Runs
<1>9. WaitShape'
  <2>1. \A r \in Runs : /\ (pc'[r] = "add") <=> (wait'[r] # None)
                        /\ wait'[r] # None => r # w /\ wait'[r] = wait[r] /\ on'[r] = on[r]
                                             /\ job'[wait'[r]] = "none"
                                             /\ \A v \in Wakers : cur'[v] # wait'[r]
    <3> TAKE r \in Runs
    <3>1. wait[r] # None => wait[r] \in Waits \ {cur[w]} /\ job'[wait[r]] = job[wait[r]]
      BY <1>0, <1>3 DEF WaitShape, TypeOK
    <3> QED BY <1>0, <1>2, <3>1 DEF WaitShape
  <2>2. \A i \in Waits : job'[i] \in Live => job[i] \in Live /\ owner'[i] = owner[i]
    BY <1>0, <1>3 DEF Live
  <2> QED BY <1>0, <1>1, <2>1, <2>2 DEF WaitShape
<1>10. RunningIsAtWork'
  BY <1>0, <1>1, <1>2, Constants DEF IInv, RunningIsAtWork, Runs
<1> QED BY <1>1, <1>4, <1>5, <1>7, <1>8, <1>9, <1>10, RowsStay DEF IInv

LEMMA LockStep ==
  ASSUME IInv, NEW w \in Wakers, LoseLock(w)
  PROVE  IInv'
<1> USE DEF flowVars, rowVars, talkVars, jobVars, walkVars, slotVars
<1>1. TypeOK'
  BY DEF IInv, LoseLock, TypeOK
<1>2. RunShape'
  BY RunsStay DEF IInv, LoseLock, RunShape, RunOK
<1>3. JobShape'
  BY DEF IInv, TypeOK, LoseLock, JobShape
<1> QED BY <1>1, <1>2, <1>3, RowsStay
      DEF LoseLock, IInv, WaitShape, WakesItsOwner, RunningIsAtWork

-----------------------------------------------------------------------------
LEMMA Inductive == IInv /\ [Next]_vars => IInv'
<1> SUFFICES ASSUME IInv, [Next]_vars PROVE IInv'
  OBVIOUS
<1> USE DEF Runs
<1>1. CASE (\E v \in Versions : Publish(v)) \/ SetEnabled \/ Remove
  BY <1>1, EditorSteps
<1>2. CASE SwitchMode \/ WindowExpires \/ \E w \in Wakers : SnapshotExpires(w)
  BY <1>2, TalkSteps
<1>3. ASSUME NEW m \in Messages, Receive(m) \/ FindWaiting(m) \/ Match(m)
      PROVE  IInv'
  BY <1>3, TriggerSteps
<1>4. ASSUME NEW m \in Messages, Create(m)
      PROVE  IInv'
  BY <1>4, CreateStep
<1>5. ASSUME NEW r \in Runs, Running(r)
      PROVE  IInv'
  BY <1>5, ReadSteps, WalkSteps, CommitStep, AddStep, FailSteps DEF Running
<1>6. ASSUME NEW w \in Wakers, ReadExecution(w)
      PROVE  IInv'
  BY <1>6, ReadSteps
<1>7. ASSUME NEW w \in Wakers, AckJob(w) \/ NackJob(w) \/ Crash(w)
      PROVE  IInv'
  BY <1>7, WakerSteps
<1>8. ASSUME NEW w \in Wakers, LoseLock(w)
      PROVE  IInv'
  BY <1>8, LockStep
<1>9. ASSUME NEW w \in Wakers, NEW j \in Waits, StartJob(w, j)
      PROVE  IInv'
  BY <1>9, StartStep
<1>10. ASSUME NEW j \in Waits, Elapse(j) \/ ReclaimStalled(j)
       PROVE  IInv'
  BY <1>10, QueueSteps
<1>11. CASE UNCHANGED vars
  <2> USE DEF vars, flowVars, rowVars, talkVars, jobVars, walkVars, slotVars
  <2>1. TypeOK'
    BY <1>11 DEF IInv, TypeOK
  <2>2. RunShape'
    BY <1>11, RunsStay DEF IInv, RunShape, RunOK
  <2>3. JobShape' /\ WaitShape' /\ WakesItsOwner' /\ RunningIsAtWork'
    BY <1>11 DEF IInv, JobShape, WaitShape, WakesItsOwner, RunningIsAtWork
  <2> QED BY <1>11, <2>1, <2>2, <2>3, RowsStay DEF IInv
<1> QED BY <1>1, <1>2, <1>3, <1>4, <1>5, <1>6, <1>7, <1>8, <1>9, <1>10, <1>11
     DEF Next, Handling, Waking

LEMMA Initial == Init => IInv
<1> SUFFICES ASSUME Init PROVE IInv
  OBVIOUS
<1> USE Constants DEF Init
<1>1. TypeOK
  <2>1. /\ 0 \in 0..MaxSteps /\ 0 \in 0..MaxAttempts /\ 0 \in 0..MaxStalls
        /\ "absent" \in Status /\ "none" \in JobState /\ "idle" \in RunStep
    BY DEF Status, JobState, RunStep
  <2> QED BY <2>1, Zenon DEF TypeOK
<1>2. FlowShape
  BY DEF FlowShape
<1>3. RunShape
  BY DEF RunShape, RunOK, WithGraph, AtItsNode, Held, Walking, Runs
<1>4. JobShape /\ WaitShape /\ WakesItsOwner
  BY DEF JobShape, WaitShape, WakesItsOwner, Live, Runs
<1>5. WaitsWhereItCanResume /\ FailsOnlyAtTheLimit /\ RunningIsAtWork
  BY DEF WaitsWhereItCanResume, FailsOnlyAtTheLimit, RunningIsAtWork
<1> QED BY <1>1, <1>2, <1>3, <1>4, <1>5 DEF IInv

LEMMA InvariantHolds == Spec => []IInv
<1>1. Init => IInv
  BY Initial
<1>2. IInv /\ [Next]_vars => IInv'
  BY Inductive
<1> QED BY <1>1, <1>2, PTL DEF Spec

-----------------------------------------------------------------------------
(* What follows a wait *)

\* The runs of job j that may still go on with its execution, and whether one
\* run more has begun than attempts and stalls were counted.
Going == {"read", "load", "resume"}
OnItsWay(j) == {w \in Wakers : cur[w] = j /\ pc[w] \in Going}
Begun(j) == IF job[j] \in {"active", "failed"} THEN 1 ELSE 0

\* Every run that went on, or may, began with a job that was waiting.
RepeatShape ==
  \A j \in Waits : job[j] # "none" =>
    woken[j] + Cardinality(OnItsWay(j)) <= made[j] + stalls[j] + Begun(j)

LEMMA WayIsFinite ==
  ASSUME NEW j
  PROVE  IsFiniteSet(OnItsWay(j)) /\ Cardinality(OnItsWay(j)) \in Nat
<1>1. OnItsWay(j) \subseteq Wakers
  BY DEF OnItsWay
<1> QED BY <1>1, FlowAssumption, FS_Subset, FS_CardinalityType

\* Steps that begin no run and go on with no execution.
LEMMA RepeatsStay ==
  ASSUME TypeOK, TypeOK', RepeatShape, UNCHANGED woken,
         \A w \in Wakers : pc'[w] \in Going => pc[w] \in Going /\ cur'[w] = cur[w],
         \A j \in Waits : job'[j] # "none" =>
           /\ job[j] # "none"
           /\ made[j] + stalls[j] + Begun(j) <= made'[j] + stalls'[j] + Begun(j)'
  PROVE  RepeatShape'
<1> SUFFICES ASSUME NEW j \in Waits, job'[j] # "none"
             PROVE  woken[j] + Cardinality(OnItsWay(j)')
                      <= made'[j] + stalls'[j] + Begun(j)'
  BY DEF RepeatShape
<1>1. OnItsWay(j)' \subseteq OnItsWay(j)
  BY DEF OnItsWay
<1>2. Cardinality(OnItsWay(j)') \in Nat /\ Cardinality(OnItsWay(j)') <= Cardinality(OnItsWay(j))
  BY <1>1, WayIsFinite, FS_Subset, FS_CardinalityType
<1>3. woken[j] + Cardinality(OnItsWay(j)) <= made[j] + stalls[j] + Begun(j)
  BY DEF RepeatShape
<1>4. /\ woken[j] \in Nat /\ made[j] \in Nat /\ stalls[j] \in Nat /\ Begun(j) \in Nat
      /\ made'[j] \in Nat /\ stalls'[j] \in Nat /\ Begun(j)' \in Nat
  BY Constants DEF TypeOK, Begun
<1> QED BY <1>2, <1>3, <1>4, WayIsFinite

\* A run that goes on is no longer on its way.
LEMMA WakeRepeats ==
  ASSUME TypeOK, JobShape, RepeatShape, NEW w \in Wakers, Wake(w)
  PROVE  RepeatShape'
<1>1. cur[w] \in Waits /\ pc[w] = "resume" /\ w \in Runs
  BY DEF JobShape, Wake, Runs
<1>2. pc' = [pc EXCEPT ![w] = pc'[w]] /\ pc'[w] \in {"commit", "walk"}
  BY <1>1 DEF TypeOK, Wake, Finish, GoOn, Goto
<1>3. UNCHANGED <<cur, job, made, stalls>> /\ woken' = [woken EXCEPT ![cur[w]] = @ + 1]
  BY DEF Wake, walkOnly, jobVars, slotVars
<1> SUFFICES ASSUME NEW j \in Waits, job[j] # "none"
             PROVE  woken'[j] + Cardinality(OnItsWay(j)') <= made[j] + stalls[j] + Begun(j)
  BY <1>3 DEF RepeatShape, Begun
<1>4. woken[j] + Cardinality(OnItsWay(j)) <= made[j] + stalls[j] + Begun(j)
  BY DEF RepeatShape
<1>5. OnItsWay(j)' = OnItsWay(j) \ {w}
  BY <1>1, <1>2, <1>3 DEF OnItsWay, Going, TypeOK, Runs
<1>6. woken[j] \in Nat /\ made[j] \in Nat /\ stalls[j] \in Nat /\ Begun(j) \in Nat
  BY Constants DEF TypeOK, Begun
<1>7. CASE j = cur[w]
  <2>1. w \in OnItsWay(j)
    BY <1>1, <1>7 DEF OnItsWay, Going
  <2>2. Cardinality(OnItsWay(j) \ {w}) = Cardinality(OnItsWay(j)) - 1
    BY <2>1, WayIsFinite, FS_RemoveElement
  <2>3. woken'[j] = woken[j] + 1
    BY <1>3, <1>7 DEF TypeOK
  <2> QED BY <1>4, <1>5, <1>6, <2>2, <2>3, WayIsFinite
<1>8. CASE j # cur[w]
  <2>1. woken'[j] = woken[j]
    BY <1>3, <1>8 DEF TypeOK
  <2>2. OnItsWay(j)' = OnItsWay(j)
    BY <1>5, <1>8 DEF OnItsWay
  <2> QED BY <1>4, <2>1, <2>2
<1> QED BY <1>7, <1>8

\* A run begins: its job was waiting and is active.
LEMMA StartRepeats ==
  ASSUME TypeOK, JobShape, RepeatShape, NEW w \in Wakers, NEW i \in Waits, StartJob(w, i)
  PROVE  RepeatShape'
<1>1. /\ pc[w] = "idle" /\ job[i] = "waiting" /\ w \in Runs
      /\ pc' = [pc EXCEPT ![w] = "read"] /\ cur' = [cur EXCEPT ![w] = i]
      /\ job' = [job EXCEPT ![i] = "active"] /\ UNCHANGED <<woken, made, stalls>>
  BY DEF StartJob, Goto, talkVars, Runs
<1>2. cur[w] = None
  BY <1>1 DEF JobShape
<1> SUFFICES ASSUME NEW j \in Waits, job'[j] # "none"
             PROVE  woken[j] + Cardinality(OnItsWay(j)') <= made[j] + stalls[j] + Begun(j)'
  BY <1>1 DEF RepeatShape
<1>3. woken[j] \in Nat /\ made[j] \in Nat /\ stalls[j] \in Nat
  BY Constants DEF TypeOK
<1>4. woken[j] + Cardinality(OnItsWay(j)) <= made[j] + stalls[j] + Begun(j)
  BY <1>1 DEF RepeatShape, TypeOK
<1>5. CASE j = i
  <2>1. OnItsWay(j)' = OnItsWay(j) \union {w} /\ w \notin OnItsWay(j)
    BY <1>1, <1>5 DEF OnItsWay, Going, TypeOK, Runs
  <2>2. Cardinality(OnItsWay(j) \union {w}) = Cardinality(OnItsWay(j)) + 1
    BY <2>1, WayIsFinite, FS_AddElement
  <2>3. Begun(j) = 0 /\ Begun(j)' = 1
    BY <1>1, <1>5 DEF Begun, TypeOK
  <2> QED BY <1>3, <1>4, <2>1, <2>2, <2>3, WayIsFinite
<1>6. CASE j # i
  <2>1. OnItsWay(j)' = OnItsWay(j)
    BY <1>1, <1>2, <1>6, Constants DEF OnItsWay, Going, TypeOK, Runs
  <2>2. Begun(j)' = Begun(j)
    BY <1>1, <1>6 DEF Begun, TypeOK
  <2> QED BY <1>4, <2>1, <2>2
<1> QED BY <1>5, <1>6

\* A new job has no runs yet: its name was free.
LEMMA AddRepeats ==
  ASSUME TypeOK, WaitShape, RepeatShape, NEW r \in Runs, AddJob(r)
  PROVE  RepeatShape'
<1>1. /\ wait[r] \in Waits /\ pc[r] = "add" /\ (\A w \in Wakers : cur[w] # wait[r])
  BY DEF WaitShape, TypeOK, AddJob
<1>2. /\ job' = [job EXCEPT ![wait[r]] = "delayed"] /\ made' = [made EXCEPT ![wait[r]] = 0]
      /\ stalls' = [stalls EXCEPT ![wait[r]] = 0] /\ woken' = [woken EXCEPT ![wait[r]] = 0]
      /\ cur' = cur /\ pc' = [pc EXCEPT ![r] = "done"]
  BY DEF AddJob, Leave, Goto, slotVars
<1> SUFFICES ASSUME NEW j \in Waits, job'[j] # "none"
             PROVE  woken'[j] + Cardinality(OnItsWay(j)') <= made'[j] + stalls'[j] + Begun(j)'
  BY DEF RepeatShape
<1>3. OnItsWay(j)' = OnItsWay(j)
  BY <1>1, <1>2 DEF OnItsWay, Going, TypeOK, Runs
<1>4. CASE j = wait[r]
  <2>1. OnItsWay(j) = {}
    BY <1>1, <1>4 DEF OnItsWay
  <2>2. Cardinality({}) = 0
    BY FS_EmptySet
  <2>3. woken'[j] = 0 /\ made'[j] = 0 /\ stalls'[j] = 0 /\ Begun(j)' = 0
    BY <1>2, <1>4 DEF TypeOK, Begun
  <2> QED BY <1>3, <2>1, <2>2, <2>3
<1>5. CASE j # wait[r]
  <2>1. woken'[j] = woken[j] /\ made'[j] = made[j] /\ stalls'[j] = stalls[j]
        /\ job'[j] = job[j] /\ Begun(j)' = Begun(j)
    BY <1>2, <1>5 DEF TypeOK, Begun
  <2> QED BY <1>3, <2>1 DEF RepeatShape
<1> QED BY <1>4, <1>5

\* An acknowledged job is gone, and its run with it.
LEMMA AckRepeats ==
  ASSUME TypeOK, RepeatShape, NEW w \in Wakers, AckJob(w)
  PROVE  RepeatShape'
<1>1. /\ pc' = [pc EXCEPT ![w] = "idle"] /\ cur' = [cur EXCEPT ![w] = None]
      /\ pc[w] = "done" /\ w \in Runs
  BY DEF AckJob, EndRun, Leave, Goto, Runs
<1> SUFFICES ASSUME NEW j \in Waits, job'[j] # "none"
             PROVE  woken'[j] + Cardinality(OnItsWay(j)') <= made'[j] + stalls'[j] + Begun(j)'
  BY DEF RepeatShape
<1>2. OnItsWay(j)' = OnItsWay(j)
  BY <1>1 DEF OnItsWay, Going, TypeOK, Runs
<1>3. woken'[j] = woken[j] /\ made'[j] = made[j] /\ stalls'[j] = stalls[j] /\ job'[j] = job[j]
  BY DEF AckJob, jobVars, TypeOK
<1> QED BY <1>2, <1>3 DEF RepeatShape, Begun

LEMMA RepeatsInductive ==
  ASSUME IInv, IInv', RepeatShape, [Next]_vars
  PROVE  RepeatShape'
<1>0. TypeOK /\ TypeOK' /\ JobShape /\ WaitShape
  BY DEF IInv
<1> USE DEF flowVars, rowVars, talkVars, jobVars, walkVars, slotVars, Runs
<1>1. ASSUME UNCHANGED <<woken, job, made, stalls, cur>>,
             \A w \in Wakers : pc'[w] \in Going => pc[w] \in Going
      PROVE  RepeatShape'
  <2>1. \A j \in Waits : made[j] + stalls[j] + Begun(j) \in Nat /\ Begun(j)' = Begun(j)
    BY <1>0, <1>1, Constants DEF TypeOK, Begun
  <2> QED BY <1>0, <1>1, <2>1, RepeatsStay
<1>2. CASE \/ (\E v \in Versions : Publish(v)) \/ SetEnabled \/ Remove \/ SwitchMode
           \/ WindowExpires \/ (\E w \in Wakers : SnapshotExpires(w) \/ LoseLock(w))
           \/ UNCHANGED vars
  <2>1. UNCHANGED <<woken, job, made, stalls, cur, pc>>
    BY <1>2 DEF Publish, SetEnabled, Remove, SwitchMode, WindowExpires, SnapshotExpires,
      LoseLock, vars
  <2> QED BY <1>1, <2>1
<1>3. ASSUME NEW m \in Messages, Receive(m) \/ FindWaiting(m) \/ Match(m) \/ Create(m)
      PROVE  RepeatShape'
  <2>1. \A w \in Wakers : pc'[w] = pc[w]
    BY <1>0, <1>3, Constants
      DEF TypeOK, Receive, FindWaiting, Match, Create, Goto, Leave
  <2> QED BY <1>1, <1>3, <2>1 DEF Receive, FindWaiting, Match, Create
<1>4. ASSUME NEW r \in Runs, \/ r \in Wakers /\ ReadExecution(r)
                             \/ Load(r) \/ Commit(r) \/ Fail(r)
      PROVE  RepeatShape'
  <2>1. \A w \in Wakers : pc'[w] \in Going => pc[w] \in Going
    BY <1>0, <1>4 DEF TypeOK, ReadExecution, Load, Commit, Fail, Throw, Goto, Leave, Going
  <2> QED BY <1>1, <1>4, <2>1 DEF ReadExecution, Load, Commit, Fail
<1>5. ASSUME NEW r \in Runs, Interpreting(r)
      PROVE  RepeatShape'
  <2>1. CASE Wake(r)
    BY <1>0, <2>1, WakeRepeats DEF Wake
  <2>2. CASE ~Wake(r)
    <3>1. StepShape(r)
      BY <1>5, InterpreterSteps
    <3>2. UNCHANGED woken
      BY <1>5, <2>2 DEF Interpreting, Answer, DeadEnd, WalkFails, Pass, Ask, Pause,
        ConsultAi, CallPerson, Transfer, Note, End
    <3>3. \A w \in Wakers : pc'[w] \in Going => pc[w] \in Going
      BY <1>0, <3>1 DEF StepShape, Walking, Going, TypeOK
    <3> QED BY <1>1, <3>1, <3>2, <3>3 DEF StepShape
  <2> QED BY <2>1, <2>2
<1>6. ASSUME NEW w \in Wakers, NackJob(w) \/ Crash(w)
      PROVE  RepeatShape'
  <2>1. \A v \in Wakers : pc'[v] \in Going => pc[v] \in Going /\ cur'[v] = cur[v]
    BY <1>0, <1>6 DEF TypeOK, NackJob, Crash, EndRun, Leave, Goto, Going
  <2>2. ASSUME NEW j \in Waits, job'[j] # "none"
        PROVE  /\ job[j] # "none"
               /\ made[j] + stalls[j] + Begun(j) <= made'[j] + stalls'[j] + Begun(j)'
    <3>1. made[j] \in Nat /\ stalls[j] \in Nat
      BY <1>0, Constants DEF TypeOK
    <3>2. CASE UNCHANGED jobVars
      BY <2>2, <3>1, <3>2 DEF Begun
    <3>3. CASE NackJob(w) /\ locked[w]
      <4>1. /\ made' = [made EXCEPT ![cur[w]] = @ + 1] /\ UNCHANGED stalls
            /\ job' = [job EXCEPT ![cur[w]] = job'[cur[w]]]
            /\ job[cur[w]] = "active" /\ cur[w] \in Waits
        BY <1>0, <3>3 DEF NackJob, JobShape, TypeOK
      <4> QED BY <1>0, <2>2, <3>1, <4>1 DEF TypeOK, Begun
    <3> QED BY <1>6, <3>2, <3>3 DEF NackJob, Crash
  <2>3. UNCHANGED woken
    BY <1>6 DEF NackJob, Crash
  <2> QED BY <1>0, <2>1, <2>2, <2>3, RepeatsStay
<1>7. ASSUME NEW i \in Waits, Elapse(i) \/ ReclaimStalled(i)
      PROVE  RepeatShape'
  <2>1. UNCHANGED <<woken, pc, cur, made>>
    BY <1>7 DEF Elapse, ReclaimStalled
  <2>2. ASSUME NEW j \in Waits, job'[j] # "none"
        PROVE  /\ job[j] # "none"
               /\ made[j] + stalls[j] + Begun(j) <= made'[j] + stalls'[j] + Begun(j)'
    <3>1. made[j] \in Nat /\ stalls[j] \in Nat
      BY <1>0, Constants DEF TypeOK
    <3>2. CASE Elapse(i)
      BY <1>0, <2>2, <3>1, <3>2 DEF TypeOK, Elapse, Begun
    <3>3. CASE ReclaimStalled(i)
      BY <1>0, <2>2, <3>1, <3>3 DEF TypeOK, ReclaimStalled, Begun
    <3> QED BY <1>7, <3>2, <3>3
  <2> QED BY <1>0, <2>1, <2>2, RepeatsStay
<1> QED BY <1>0, <1>2, <1>3, <1>4, <1>5, <1>6, <1>7, StartRepeats, AddRepeats, AckRepeats
     DEF Next, Handling, Waking, Running

LEMMA RepeatShapeHolds == Spec => []RepeatShape
<1>1. Init => RepeatShape
  BY DEF Init, RepeatShape
<1>2. IInv /\ IInv' /\ RepeatShape /\ [Next]_vars => RepeatShape'
  BY RepeatsInductive
<1> QED BY <1>1, <1>2, InvariantHolds, PTL DEF Spec

-----------------------------------------------------------------------------
(* The properties the run checks *)

\* Every variable keeps its type: no run takes more steps than MAX_STEPS and no
\* job more attempts than the queue gives it.
THEOREM TypeCorrect == Spec => []TypeOK
<1>1. IInv => TypeOK
  BY DEF IInv
<1> QED BY <1>1, InvariantHolds, PTL

\* loadGraph takes the execution's own version and validateGraph checked it, so
\* resumeWithAnswer and resumeAfterWait always find the node they need.
THEOREM WaitsTheorem == Spec => []WaitsWhereItCanResume
<1>1. IInv => WaitsWhereItCanResume
  BY DEF IInv
<1> QED BY <1>1, InvariantHolds, PTL

\* The other ways in which FlowInterpreter can fail are never taken on a
\* published graph.
THEOREM FailsTheorem == Spec => []FailsOnlyAtTheLimit
<1>1. IInv => FailsOnlyAtTheLimit
  BY DEF IInv
<1> QED BY <1>1, InvariantHolds, PTL

\* startFlow's row stays "running" only if its handler did not come to commit.
THEOREM RunningTheorem == Spec => []RunningIsAtWork
<1>1. IInv => RunningIsAtWork
  BY DEF IInv
<1> QED BY <1>1, InvariantHolds, PTL

\* BullMQ runs a wake job again only for a counted attempt or a counted stall,
\* and each run takes its execution past the wait at most once.
THEOREM RepeatsTheorem == Spec => []RepeatsArePaidFor
<1>1. IInv /\ RepeatShape => RepeatsArePaidFor
  <2> SUFFICES ASSUME IInv, RepeatShape, NEW j \in Waits, job[j] # "none"
               PROVE  woken[j] <= 1 + made[j] + stalls[j]
    BY DEF RepeatsArePaidFor
  <2>1. woken[j] + Cardinality(OnItsWay(j)) <= made[j] + stalls[j] + Begun(j)
    BY DEF RepeatShape
  <2>2. woken[j] \in Nat /\ made[j] \in Nat /\ stalls[j] \in Nat /\ Begun(j) \in {0, 1}
    BY Constants DEF IInv, TypeOK, Begun
  <2> QED BY <2>1, <2>2, WayIsFinite
<1> QED BY <1>1, InvariantHolds, RepeatShapeHolds, PTL

\* A job is taken off the queue only when the wait it was added for is over,
\* because wake reads the row again and commit writes it before the job ends.
THEOREM JobTheorem == Spec => JobEndsItsWait
<1> DEFINE Over == \A j \in Waits, x \in Messages :
                     job[j] = "active" /\ job'[j] = "none" => wakeAt'[x] # j
<1>1. IInv /\ [Next]_vars => [Over]_vars
  <2> SUFFICES ASSUME IInv, Next, NEW j \in Waits, NEW x \in Messages,
                      job[j] = "active", job'[j] = "none"
               PROVE  wakeAt'[x] # j
    BY DEF vars, jobVars
  <2>1. job \in [Waits -> JobState] /\ job'[j] # job[j]
    BY DEF IInv, TypeOK
  <2>2. PICK w \in Wakers : AckJob(w) /\ cur[w] = j
    <3>1. \A r \in Runs : ~Interpreting(r)
      BY <2>1, InterpreterSteps DEF StepShape, jobVars
    <3>2. ASSUME NEW r \in Runs, Running(r)
          PROVE  FALSE
      <4>1. AddJob(r)
        BY <2>1, <3>1, <3>2 DEF Running, Load, Commit, Fail, jobVars
      <4>2. job' = [job EXCEPT ![wait[r]] = "delayed"]
        BY <4>1 DEF AddJob
      <4> QED BY <2>1, <4>2
    <3>3. ASSUME NEW w \in Wakers, NackJob(w)
          PROVE  FALSE
      BY <2>1, <3>3 DEF NackJob, jobVars
    <3>4. ASSUME NEW i \in Waits, Elapse(i) \/ ReclaimStalled(i)
          PROVE  FALSE
      BY <2>1, <3>4 DEF Elapse, ReclaimStalled
    <3>5. ASSUME NEW w \in Wakers, NEW i \in Waits, StartJob(w, i)
          PROVE  FALSE
      BY <2>1, <3>5 DEF StartJob
    <3>6. \E w \in Wakers : AckJob(w)
      BY <2>1, <3>2, <3>3, <3>4, <3>5 DEF Next, Handling, Waking, Runs, jobVars,
        Publish, SetEnabled, Remove, SwitchMode, WindowExpires, SnapshotExpires,
        Receive, FindWaiting, Match, Create, ReadExecution, Crash, LoseLock
    <3> QED BY <2>1, <3>6 DEF AckJob, jobVars
  <2>3. pc[w] = "done" /\ wakeAt' = wakeAt /\ cur[w] # None
    BY <2>2, Constants DEF AckJob, rowVars
  <2> QED BY <2>2, <2>3 DEF IInv, WakesItsOwner, AtWork, Walking
<1> QED BY <1>1, InvariantHolds, PTL DEF Spec, JobEndsItsWait

-----------------------------------------------------------------------------
(* The editor. *)


\* Every graph is made of changes that have been made.
GraphShape ==
  /\ row.draft \subseteq 1..edits
  /\ \A t \in Tabs : cache[t] = Nothing \/ cache[t] \subseteq 1..edits
  /\ \A t \in Tabs : fetch[t].graph \subseteq 1..edits
  /\ \A c \in Calls : call[c].graph \subseteq 1..edits

\* A request has a tab, and whoever is told of it is in the editor.
CallShape ==
  \A c \in Calls :
    /\ call[c].at # "idle" => call[c].tab \in Tabs
    /\ call[c].mine => call[c].at # "idle" /\ page[call[c].tab] = "editor"

\* The stages of each kind of request.
OpShape ==
  \A c \in Calls :
    /\ call[c].at \in {"post", "read", "numbered", "published"} => call[c].op = "publish"
    /\ call[c].at \in {"check", "valid", "invalid"} => call[c].op = "validate"
    /\ call[c].at \in {"patch", "patched"} => call[c].op \in {"save", "publish"}

\* A number is at most the next one, and the version that took it is there.
NumberShape ==
  row.there => \A c \in Calls :
    /\ call[c].at = "numbered" => call[c].num \in 1..Len(releases) + 1
    /\ call[c].at = "published" =>
         call[c].num \in 1..Len(releases) /\ releases[call[c].num] = call[c].read

\* Unless it was crossed, a publication reads what it has saved.
ReadShape ==
  \A c \in Calls : call[c].op = "publish" /\ ~call[c].crossed =>
    /\ call[c].at \in {"patched", "post"} /\ row.there => row.draft = call[c].graph
    /\ call[c].at \in {"read", "numbered", "published"} => call[c].read = call[c].graph

\* An editor that nobody meddled with has only sent what it shows, and what it
\* has saved is the draft.
SaveShape ==
  \A t \in Tabs : page[t] = "editor" /\ ~meddled[t] =>
    /\ row.there
    /\ \A c \in Under(t, {"save", "publish"}) :
         call[c].graph = shown[t] /\ (call[c].at # "patch" => row.draft = shown[t])

\* The type of a request, and what changing one of them leaves of the type.
Request ==
  [tab : Tabs \union {Nothing}, op : Ops, at : Stage, graph : Draft, read : Draft, num : 0..MaxVersions,
   mine : BOOLEAN, crossed : BOOLEAN]

\* Every request is a request, ...
LEMMA RequestType == EditorTypeOK => \A c \in Calls : call[c] \in Request
  BY DEF EditorTypeOK, Request

\* ... after a step that changes one of them, too.
LEMMA OneRequest ==
  ASSUME EditorTypeOK, NEW c \in Calls, NEW k \in Request, call' = [call EXCEPT ![c] = k]
  PROVE  /\ call' \in [Calls -> Request]
         /\ call'[c] = k
         /\ \A d \in Calls \ {c} : call'[d] = call[d]
  BY RequestType DEF EditorTypeOK, Request

\* That nothing is under way is one of them.
LEMMA NoCallType == NoCall \in Request
  BY FlowEditorAssumption DEF NoCall, Request, Ops, Stage, Draft

EditorInv ==
  /\ EditorTypeOK
  /\ GraphShape
  /\ CallShape
  /\ OpShape
  /\ NumberShape
  /\ ReadShape
  /\ SaveShape
  /\ PublishedIsNewest
  /\ CleanIsSaved

\* The invariant holds at the start ...
LEMMA EditorBeginning == EditorInit => EditorInv
<1> SUFFICES ASSUME EditorInit PROVE EditorInv
  OBVIOUS
<1> USE FlowEditorAssumption DEF EditorInit, NoCall, NoFetch
<1>1. EditorTypeOK
  BY DEF EditorTypeOK, Draft, Ops, Stage
<1>2. GraphShape /\ CallShape /\ OpShape
  BY DEF GraphShape, CallShape, OpShape
<1>3. NumberShape /\ ReadShape /\ SaveShape
  BY DEF NumberShape, ReadShape, SaveShape
<1>4. PublishedIsNewest /\ CleanIsSaved
  BY DEF PublishedIsNewest, CleanIsSaved
<1> QED BY <1>1, <1>2, <1>3, <1>4 DEF EditorInv

\* ... and every step keeps it.
LEMMA EditorInductive == EditorInv /\ [EditorNext]_editorVars => EditorInv'
<1> SUFFICES ASSUME EditorInv, [EditorNext]_editorVars PROVE EditorInv'
  OBVIOUS
<1> USE FlowEditorAssumption DEF EditorInv, serverVars, tabVars
<1>1. ASSUME NEW t \in Tabs, OpenEditor(t)
      PROVE  EditorInv'
  <2>a. page[t] # "editor" => Under(t, {"save", "publish"})' = {}
    BY <1>1 DEF OpenEditor, CallShape, Under
  <2>b. UNCHANGED <<row, releases, edits, sound, call>>
    BY <1>1 DEF OpenEditor
  <2>c. /\ fetch' \in [Tabs -> [at : {"no", "sent", "answered"}, graph : Draft]]
        /\ \A u \in Tabs : fetch'[u].graph \subseteq 1..edits
    <3>1. fetch' = fetch \/ fetch' = [fetch EXCEPT ![t] = [fetch[t] EXCEPT !.at = "sent"]]
      BY <1>1 DEF OpenEditor, EditorTypeOK
    <3>2. CASE fetch' = fetch
      BY <3>2 DEF EditorTypeOK, GraphShape
    <3>3. CASE fetch' = [fetch EXCEPT ![t] = [fetch[t] EXCEPT !.at = "sent"]]
      <4> DEFINE f == [fetch[t] EXCEPT !.at = "sent"]
      <4>1. f \in [at : {"no", "sent", "answered"}, graph : Draft] /\ f.graph = fetch[t].graph
        BY DEF EditorTypeOK
      <4>2. fetch' = [fetch EXCEPT ![t] = f]
        BY <3>3
      <4> HIDE DEF f
      <4> QED BY <4>1, <4>2 DEF EditorTypeOK, GraphShape
    <3> QED BY <3>1, <3>2, <3>3
  <2>d. /\ cache' \in [Tabs -> Draft \union {Nothing}] /\ left' \in 0..MaxEvents
        /\ \A u \in Tabs : cache'[u] = Nothing \/ cache'[u] \subseteq 1..edits
    BY <1>1 DEF OpenEditor, Event, EditorTypeOK, GraphShape, Draft
  <2>e. GraphShape'
    BY <2>b, <2>c, <2>d DEF GraphShape
  <2>f. ASSUME cache[t] # Nothing PROVE EditorTypeOK' /\ SaveShape' /\ CleanIsSaved'
    <3>1. Mount(t, cache[t]) /\ page[t] # "editor"
      BY <1>1, <2>f DEF OpenEditor
    <3>2. cache[t] \subseteq 1..edits /\ cache[t] \in Draft
      BY <2>f DEF GraphShape, EditorTypeOK
    <3>3. ~meddled'[t] => row.there /\ cache[t] = row.draft
      BY <3>1 DEF Mount, EditorTypeOK
    <3>4. shown'[t] = cache[t]
      BY <3>1 DEF Mount, EditorTypeOK
    <3>5. \A u \in Tabs \ {t} : /\ meddled'[u] = meddled[u] /\ page'[u] = page[u]
                                /\ dirty'[u] = dirty[u] /\ shown'[u] = shown[u]
      BY <3>1 DEF Mount, EditorTypeOK
    <3>6. /\ page' \in [Tabs -> {"list", "loading", "editor"}]
          /\ shown' \in [Tabs -> SUBSET (1..edits)] /\ dirty' \in [Tabs -> BOOLEAN]
          /\ verdict' \in [Tabs -> {"none", "valid", "invalid"}]
          /\ meddled' \in [Tabs -> BOOLEAN]
      BY <3>1, <3>2 DEF Mount, EditorTypeOK
    <3>7. EditorTypeOK'
      BY <2>b, <2>c, <2>d, <3>6 DEF EditorTypeOK
    <3>8. SaveShape'
      BY <2>a, <2>b, <3>1, <3>3, <3>4, <3>5 DEF SaveShape, Under
    <3>9. CleanIsSaved'
      BY <2>b, <3>3, <3>4, <3>5 DEF CleanIsSaved
    <3> QED BY <3>7, <3>8, <3>9
  <2>g. ASSUME cache[t] = Nothing PROVE EditorTypeOK' /\ SaveShape' /\ CleanIsSaved'
    <3>1. UNCHANGED <<shown, dirty, verdict, meddled>> /\ page' = [page EXCEPT ![t] = "loading"]
      BY <1>1, <2>g DEF OpenEditor, EditorTypeOK
    <3>2. page' \in [Tabs -> {"list", "loading", "editor"}]
      BY <3>1 DEF EditorTypeOK
    <3>3. \A u \in Tabs : page'[u] = "editor" => page[u] = "editor"
      BY <3>1 DEF EditorTypeOK
    <3>4. EditorTypeOK'
      BY <2>b, <2>c, <2>d, <3>1, <3>2 DEF EditorTypeOK
    <3>5. SaveShape' /\ CleanIsSaved'
      BY <2>b, <3>1, <3>3 DEF SaveShape, CleanIsSaved, Under
    <3> QED BY <3>4, <3>5
  <2>1. EditorTypeOK'
    BY <2>f, <2>g
  <2>2. GraphShape'
    BY <2>e
  <2>3. CallShape'
    BY <1>1 DEF OpenEditor, Event, Mount, CallShape, EditorTypeOK, NoCall, Stage
  <2>4. OpShape'
    BY <1>1 DEF OpenEditor, Event, Mount, OpShape, EditorTypeOK, NoCall, Stage, Ops
  <2>5. NumberShape'
    BY <1>1 DEF OpenEditor, Event, Mount, NumberShape, EditorTypeOK, NoCall
  <2>6. ReadShape'
    BY <1>1 DEF OpenEditor, Event, Mount, ReadShape, EditorTypeOK, OpShape, NumberShape, NoCall
  <2>7. SaveShape'
    BY <2>f, <2>g
  <2>8. PublishedIsNewest'
    BY <1>1 DEF OpenEditor, Event, Mount, PublishedIsNewest, EditorTypeOK, NumberShape, NoCall
  <2>9. CleanIsSaved'
    BY <2>f, <2>g
  <2> QED BY <2>1, <2>2, <2>3, <2>4, <2>5, <2>6, <2>7, <2>8, <2>9
<1>2. ASSUME NEW t \in Tabs, ServeGet(t)
      PROVE  EditorInv'
  <2>1. EditorTypeOK'
    BY <1>2 DEF ServeGet, EditorTypeOK, GraphShape, CallShape, Draft, Ops, Stage, NoFetch, NoCall
  <2>2. GraphShape'
    BY <1>2 DEF ServeGet, GraphShape, EditorTypeOK, CallShape, Draft, NoFetch, NoCall
  <2>3. CallShape'
    BY <1>2 DEF ServeGet, CallShape, EditorTypeOK, NoCall, Stage
  <2>4. OpShape'
    BY <1>2 DEF ServeGet, OpShape, EditorTypeOK, NoCall, Stage, Ops
  <2>5. NumberShape'
    BY <1>2 DEF ServeGet, NumberShape, EditorTypeOK, NoCall
  <2>6. ReadShape'
    BY <1>2 DEF ServeGet, ReadShape, EditorTypeOK, OpShape, NumberShape, NoCall
  <2>7. SaveShape'
    BY <1>2 DEF ServeGet, SaveShape, EditorTypeOK, CallShape, OpShape, Under, NoCall, Ops
  <2>8. PublishedIsNewest'
    BY <1>2 DEF ServeGet, PublishedIsNewest, EditorTypeOK, NumberShape, NoCall
  <2>9. CleanIsSaved'
    BY <1>2 DEF ServeGet, CleanIsSaved, EditorTypeOK, SaveShape, CallShape, OpShape, Under, NoCall
  <2> QED BY <2>1, <2>2, <2>3, <2>4, <2>5, <2>6, <2>7, <2>8, <2>9
<1>3. ASSUME NEW t \in Tabs, Loaded(t)
      PROVE  EditorInv'
  <2>a. page[t] # "editor" => Under(t, {"save", "publish"})' = {}
    BY <1>3 DEF Loaded, CallShape, Under
  <2>b. UNCHANGED <<row, releases, edits, sound, call>>
    BY <1>3 DEF Loaded
  <2>c. /\ fetch' \in [Tabs -> [at : {"no", "sent", "answered"}, graph : Draft]]
        /\ \A u \in Tabs : fetch'[u].graph \subseteq 1..edits
    BY <1>3 DEF Loaded, EditorTypeOK, GraphShape, NoFetch, Draft
  <2>d. /\ cache' \in [Tabs -> Draft \union {Nothing}] /\ left' \in 0..MaxEvents
        /\ \A u \in Tabs : cache'[u] = Nothing \/ cache'[u] \subseteq 1..edits
    BY <1>3 DEF Loaded, EditorTypeOK, GraphShape, Draft
  <2>e. GraphShape'
    BY <2>b, <2>c, <2>d DEF GraphShape
  <2>f. ASSUME page[t] = "loading" PROVE EditorTypeOK' /\ SaveShape' /\ CleanIsSaved'
    <3>1. Mount(t, fetch[t].graph) /\ page[t] # "editor"
      BY <1>3, <2>f DEF Loaded
    <3>2. fetch[t].graph \subseteq 1..edits /\ fetch[t].graph \in Draft
      BY <2>f DEF GraphShape, EditorTypeOK
    <3>3. ~meddled'[t] => row.there /\ fetch[t].graph = row.draft
      BY <3>1 DEF Mount, EditorTypeOK
    <3>4. shown'[t] = fetch[t].graph
      BY <3>1 DEF Mount, EditorTypeOK
    <3>5. \A u \in Tabs \ {t} : /\ meddled'[u] = meddled[u] /\ page'[u] = page[u]
                                /\ dirty'[u] = dirty[u] /\ shown'[u] = shown[u]
      BY <3>1 DEF Mount, EditorTypeOK
    <3>6. /\ page' \in [Tabs -> {"list", "loading", "editor"}]
          /\ shown' \in [Tabs -> SUBSET (1..edits)] /\ dirty' \in [Tabs -> BOOLEAN]
          /\ verdict' \in [Tabs -> {"none", "valid", "invalid"}]
          /\ meddled' \in [Tabs -> BOOLEAN]
      BY <3>1, <3>2 DEF Mount, EditorTypeOK
    <3>7. EditorTypeOK'
      BY <2>b, <2>c, <2>d, <3>6 DEF EditorTypeOK
    <3>8. SaveShape'
      BY <2>a, <2>b, <3>1, <3>3, <3>4, <3>5 DEF SaveShape, Under
    <3>9. CleanIsSaved'
      BY <2>b, <3>3, <3>4, <3>5 DEF CleanIsSaved
    <3> QED BY <3>7, <3>8, <3>9
  <2>g. ASSUME page[t] # "loading" PROVE EditorTypeOK' /\ SaveShape' /\ CleanIsSaved'
    <3>1. UNCHANGED <<shown, dirty, verdict, meddled>> /\ page' = [page EXCEPT ![t] = page[t]]
      BY <1>3, <2>g DEF Loaded, EditorTypeOK
    <3>2. page' \in [Tabs -> {"list", "loading", "editor"}]
      BY <3>1 DEF EditorTypeOK
    <3>3. \A u \in Tabs : page'[u] = "editor" => page[u] = "editor"
      BY <3>1 DEF EditorTypeOK
    <3>4. EditorTypeOK'
      BY <2>b, <2>c, <2>d, <3>1, <3>2 DEF EditorTypeOK
    <3>5. SaveShape' /\ CleanIsSaved'
      BY <2>b, <3>1, <3>3 DEF SaveShape, CleanIsSaved, Under
    <3> QED BY <3>4, <3>5
  <2>1. EditorTypeOK'
    BY <2>f, <2>g
  <2>2. GraphShape'
    BY <2>e
  <2>3. CallShape'
    BY <1>3 DEF Loaded, Mount, CallShape, EditorTypeOK, NoCall, Stage
  <2>4. OpShape'
    BY <1>3 DEF Loaded, Mount, OpShape, EditorTypeOK, NoCall, Stage, Ops
  <2>5. NumberShape'
    BY <1>3 DEF Loaded, Mount, NumberShape, EditorTypeOK, NoCall
  <2>6. ReadShape'
    BY <1>3 DEF Loaded, Mount, ReadShape, EditorTypeOK, OpShape, NumberShape, NoCall
  <2>7. SaveShape'
    BY <2>f, <2>g
  <2>8. PublishedIsNewest'
    BY <1>3 DEF Loaded, Mount, PublishedIsNewest, EditorTypeOK, NumberShape, NoCall
  <2>9. CleanIsSaved'
    BY <2>f, <2>g
  <2> QED BY <2>1, <2>2, <2>3, <2>4, <2>5, <2>6, <2>7, <2>8, <2>9
<1>4. ASSUME NEW t \in Tabs, LeaveEditor(t)
      PROVE  EditorInv'
  <2>a. call' \in [Calls -> Request]
    BY <1>4, RequestType, NoCallType DEF LeaveEditor, Unheard, Request
  <2>1. EditorTypeOK'
    BY <1>4, <2>a DEF LeaveEditor, EditorTypeOK, Request
  <2>2. GraphShape'
    BY <1>4 DEF LeaveEditor, Unheard, GraphShape, EditorTypeOK, CallShape, Draft, NoFetch, NoCall
  <2>3. CallShape'
    BY <1>4 DEF LeaveEditor, Unheard, CallShape, EditorTypeOK, NoCall, Stage
  <2>4. OpShape'
    BY <1>4 DEF LeaveEditor, Unheard, OpShape, EditorTypeOK, NoCall, Stage, Ops
  <2>5. NumberShape'
    BY <1>4 DEF LeaveEditor, Unheard, NumberShape, EditorTypeOK, NoCall
  <2>6. ReadShape'
    BY <1>4 DEF LeaveEditor, Unheard, ReadShape, EditorTypeOK, OpShape, NumberShape, NoCall
  <2>7. SaveShape'
    BY <1>4 DEF LeaveEditor, Unheard, SaveShape, EditorTypeOK, CallShape, OpShape, Under, NoCall, Ops
  <2>8. PublishedIsNewest'
    BY <1>4 DEF LeaveEditor, Unheard, PublishedIsNewest, EditorTypeOK, NumberShape, NoCall
  <2>9. CleanIsSaved'
    BY <1>4 DEF LeaveEditor, Unheard, CleanIsSaved, EditorTypeOK, SaveShape, CallShape, OpShape, Under,
       NoCall
  <2> QED BY <2>1, <2>2, <2>3, <2>4, <2>5, <2>6, <2>7, <2>8, <2>9
<1>5. ASSUME NEW t \in Tabs, Forget(t)
      PROVE  EditorInv'
  <2>1. EditorTypeOK'
    BY <1>5 DEF Forget, EditorTypeOK, GraphShape, CallShape, Draft, Ops, Stage, NoFetch, NoCall
  <2>2. GraphShape'
    BY <1>5 DEF Forget, GraphShape, EditorTypeOK, CallShape, Draft, NoFetch, NoCall
  <2>3. CallShape'
    BY <1>5 DEF Forget, CallShape, EditorTypeOK, NoCall, Stage
  <2>4. OpShape'
    BY <1>5 DEF Forget, OpShape, EditorTypeOK, NoCall, Stage, Ops
  <2>5. NumberShape'
    BY <1>5 DEF Forget, NumberShape, EditorTypeOK, NoCall
  <2>6. ReadShape'
    BY <1>5 DEF Forget, ReadShape, EditorTypeOK, OpShape, NumberShape, NoCall
  <2>7. SaveShape'
    BY <1>5 DEF Forget, SaveShape, EditorTypeOK, CallShape, OpShape, Under, NoCall, Ops
  <2>8. PublishedIsNewest'
    BY <1>5 DEF Forget, PublishedIsNewest, EditorTypeOK, NumberShape, NoCall
  <2>9. CleanIsSaved'
    BY <1>5 DEF Forget, CleanIsSaved, EditorTypeOK, SaveShape, CallShape, OpShape, Under, NoCall
  <2> QED BY <2>1, <2>2, <2>3, <2>4, <2>5, <2>6, <2>7, <2>8, <2>9
<1>6. ASSUME NEW t \in Tabs, Edit(t)
      PROVE  EditorInv'
  <2>1. EditorTypeOK'
    BY <1>6 DEF Edit, Changes, EditorTypeOK, GraphShape, CallShape, Draft, Ops, Stage, NoFetch, NoCall
  <2>2. GraphShape'
    BY <1>6 DEF Edit, Changes, GraphShape, EditorTypeOK, CallShape, Draft, NoFetch, NoCall
  <2>3. CallShape'
    BY <1>6 DEF Edit, Changes, CallShape, EditorTypeOK, NoCall, Stage
  <2>4. OpShape'
    BY <1>6 DEF Edit, Changes, OpShape, EditorTypeOK, NoCall, Stage, Ops
  <2>5. NumberShape'
    BY <1>6 DEF Edit, Changes, NumberShape, EditorTypeOK, NoCall
  <2>6. ReadShape'
    BY <1>6 DEF Edit, Changes, ReadShape, EditorTypeOK, OpShape, NumberShape, NoCall
  <2>7. SaveShape'
    BY <1>6 DEF Edit, Changes, SaveShape, EditorTypeOK, CallShape, OpShape, Under, NoCall, Ops
  <2>8. PublishedIsNewest'
    BY <1>6 DEF Edit, Changes, PublishedIsNewest, EditorTypeOK, NumberShape, NoCall
  <2>9. CleanIsSaved'
    BY <1>6 DEF Edit, Changes, CleanIsSaved, EditorTypeOK, SaveShape, CallShape, OpShape, Under,
       NoCall
  <2> QED BY <2>1, <2>2, <2>3, <2>4, <2>5, <2>6, <2>7, <2>8, <2>9
<1>7. ASSUME NEW t \in Tabs, RemoveByKey(t)
      PROVE  EditorInv'
  <2>1. EditorTypeOK'
    BY <1>7 DEF RemoveByKey, Changes, EditorTypeOK, GraphShape, CallShape, Draft, Ops, Stage,
       NoFetch, NoCall
  <2>2. GraphShape'
    BY <1>7 DEF RemoveByKey, Changes, GraphShape, EditorTypeOK, CallShape, Draft, NoFetch, NoCall
  <2>3. CallShape'
    BY <1>7 DEF RemoveByKey, Changes, CallShape, EditorTypeOK, NoCall, Stage
  <2>4. OpShape'
    BY <1>7 DEF RemoveByKey, Changes, OpShape, EditorTypeOK, NoCall, Stage, Ops
  <2>5. NumberShape'
    BY <1>7 DEF RemoveByKey, Changes, NumberShape, EditorTypeOK, NoCall
  <2>6. ReadShape'
    BY <1>7 DEF RemoveByKey, Changes, ReadShape, EditorTypeOK, OpShape, NumberShape, NoCall
  <2>7. SaveShape'
    BY <1>7 DEF RemoveByKey, Changes, SaveShape, EditorTypeOK, CallShape, OpShape, Under, NoCall, Ops
  <2>8. PublishedIsNewest'
    BY <1>7 DEF RemoveByKey, Changes, PublishedIsNewest, EditorTypeOK, NumberShape, NoCall
  <2>9. CleanIsSaved'
    BY <1>7 DEF RemoveByKey, Changes, CleanIsSaved, EditorTypeOK, SaveShape, CallShape, OpShape,
       Under, NoCall
  <2> QED BY <2>1, <2>2, <2>3, <2>4, <2>5, <2>6, <2>7, <2>8, <2>9
<1>8. ASSUME NEW t \in Tabs, NEW c \in Calls, NEW op \in Ops, Click(c, t, op)
      PROVE  EditorInv'
  <2> DEFINE k == [NoCall EXCEPT !.tab = t, !.op = op, !.at = IF op = "validate" THEN "check" ELSE "patch",
                              !.graph = shown[t], !.mine = TRUE]
  <2>a. call[c] \in Request /\ call[c].graph \in Draft
    BY <1>8, RequestType DEF Request
  <2>b. shown[t] \in Draft
    BY DEF EditorTypeOK, Draft
  <2>c. k \in Request
    BY <2>b, NoCallType DEF Request, Ops, Stage
  <2>d. call' = [call EXCEPT ![c] = k]
    BY <1>8 DEF Click, Start
  <2>e. call' \in [Calls -> Request]
    BY <2>c, <2>d, OneRequest
  <2> HIDE DEF k
  <2>1. EditorTypeOK'
    BY <1>8, <2>e DEF Click, EditorTypeOK, Request
  <2>2. GraphShape'
    BY <1>8 DEF Click, Start, GraphShape, EditorTypeOK, CallShape, Draft, NoFetch, NoCall, Under
  <2>3. CallShape'
    BY <1>8 DEF Click, Start, CallShape, EditorTypeOK, NoCall, Stage, Under
  <2>4. OpShape'
    BY <1>8 DEF Click, Start, OpShape, EditorTypeOK, NoCall, Stage, Ops, Under
  <2>5. NumberShape'
    BY <1>8 DEF Click, Start, NumberShape, EditorTypeOK, NoCall, Under
  <2>6. ReadShape'
    BY <1>8 DEF Click, Start, ReadShape, EditorTypeOK, OpShape, NumberShape, NoCall, Under
  <2>7. SaveShape'
    BY <1>8 DEF Click, Start, SaveShape, EditorTypeOK, CallShape, OpShape, Under, NoCall, Ops
  <2>8. PublishedIsNewest'
    BY <1>8 DEF Click, Start, PublishedIsNewest, EditorTypeOK, NumberShape, NoCall, Under
  <2>9. CleanIsSaved'
    BY <1>8 DEF Click, Start, CleanIsSaved, EditorTypeOK, SaveShape, CallShape, OpShape, Under,
       NoCall
  <2> QED BY <2>1, <2>2, <2>3, <2>4, <2>5, <2>6, <2>7, <2>8, <2>9
<1>9. ASSUME NEW c \in Calls, ServePatch(c)
      PROVE  EditorInv'
  <2>a. CASE row.there
    <3>1. ASSUME NEW d \in Calls
          PROVE  /\ call'[d] \in Request
                 /\ call'[d].tab = call[d].tab /\ call'[d].op = call[d].op
                 /\ call'[d].graph = call[d].graph /\ call'[d].read = call[d].read
                 /\ call'[d].num = call[d].num /\ call'[d].mine = call[d].mine
                 /\ call'[d].at = IF d = c THEN "patched" ELSE call[d].at
                 /\ d # c /\ call[d].op = "publish" /\ call[d].at \in {"patched", "post"} =>
                      call'[d].crossed
                 /\ ~call'[d].crossed => ~call[d].crossed
      <4>1. CASE d = c
        <5>1. call'[d] = [call[d] EXCEPT !.at = "patched"]
          BY <1>9, <2>a, <4>1 DEF ServePatch
        <5>2. call[d] \in Request
          BY RequestType
        <5> QED BY <4>1, <5>1, <5>2 DEF Request, Stage
      <4>2. CASE d # c
        <5> DEFINE x == call[d].crossed \/ (call[d].op = "publish" /\ call[d].at \in {"patched", "post"})
        <5>1. call'[d] = [call[d] EXCEPT !.crossed = x]
          BY <1>9, <2>a, <4>2 DEF ServePatch
        <5>2. call[d] \in Request
          BY RequestType
        <5>3. x \in BOOLEAN
          BY <5>2 DEF Request
        <5>4. call'[d].crossed = x
          BY <5>1, <5>2 DEF Request
        <5>5. call'[d] \in Request /\ call'[d].tab = call[d].tab /\ call'[d].op = call[d].op
              /\ call'[d].graph = call[d].graph /\ call'[d].read = call[d].read
              /\ call'[d].num = call[d].num /\ call'[d].mine = call[d].mine /\ call'[d].at = call[d].at
          <6> HIDE DEF x
          <6> QED BY <5>1, <5>2, <5>3 DEF Request
        <5> QED BY <4>2, <5>4, <5>5
      <4> QED BY <4>1, <4>2
    <3>2. call' \in [Calls -> Request]
      BY <1>9, <2>a, <3>1 DEF ServePatch
    <3>3. call[c].at = "patch" /\ call[c].graph \in Draft /\ call[c].graph \subseteq 1..edits
      BY <1>9, RequestType DEF ServePatch, Request, GraphShape
    <3>4. row' = [row EXCEPT !.draft = call[c].graph]
      BY <1>9, <2>a DEF ServePatch
    <3>5. row'.there /\ row'.draft = call[c].graph /\ row'.enabled = row.enabled
          /\ row'.published = row.published
      BY <2>a, <3>4 DEF EditorTypeOK
    <3>6. ASSUME NEW t \in Tabs, ~meddled'[t], page[t] = "editor"
          PROVE  ~meddled[t] /\ call[c].tab = t /\ call[c].mine
      BY <1>9, <2>a, <3>6 DEF ServePatch, EditorTypeOK
    <3>7. UNCHANGED <<releases, edits, sound, page, cache, fetch, shown, dirty, verdict, left>>
      BY <1>9 DEF ServePatch
    <3>8. meddled' \in [Tabs -> BOOLEAN]
      BY <1>9, <2>a DEF ServePatch, EditorTypeOK
    <3>9. row' \in [draft : Draft, there : BOOLEAN, enabled : BOOLEAN, published : 0..MaxVersions]
      BY <3>3, <3>4 DEF EditorTypeOK
    <3>10. EditorTypeOK'
      BY <3>2, <3>5, <3>7, <3>8, <3>9 DEF EditorTypeOK, Request
    <3>11. GraphShape'
      BY <3>1, <3>3, <3>5, <3>7 DEF GraphShape
    <3>12. CallShape' /\ OpShape'
      BY <3>1, <3>3, <3>7 DEF CallShape, OpShape
    <3>13. NumberShape' /\ PublishedIsNewest'
      BY <2>a, <3>1, <3>5, <3>7 DEF NumberShape, PublishedIsNewest
    <3>14. ReadShape'
      BY <2>a, <3>1, <3>3, <3>5, <3>7 DEF ReadShape, OpShape
    <3>15. ASSUME NEW t \in Tabs, page[t] = "editor", ~meddled'[t]
           PROVE  /\ row'.draft = shown[t]
                  /\ \A d \in Under(t, {"save", "publish"})' : call'[d].graph = shown[t]
      <4>1. ~meddled[t] /\ c \in Under(t, {"save", "publish"})
        BY <3>3, <3>6, <3>15 DEF Under, OpShape
      <4>2. row'.draft = shown[t]
        BY <3>5, <3>15, <4>1 DEF SaveShape
      <4>3. Under(t, {"save", "publish"})' \subseteq Under(t, {"save", "publish"})
        BY <3>1, <3>3 DEF Under
      <4> QED BY <3>1, <3>15, <4>1, <4>2, <4>3 DEF SaveShape, Under
    <3>16. SaveShape' /\ CleanIsSaved'
      BY <3>5, <3>7, <3>15 DEF SaveShape, CleanIsSaved
    <3> QED BY <3>10, <3>11, <3>12, <3>13, <3>14, <3>16
  <2>b. CASE ~row.there
    <3> DEFINE k == [call[c] EXCEPT !.at = "failed"]
    <3>1. k \in Request
      BY RequestType DEF Request, Stage
    <3>2. call' = [call EXCEPT ![c] = k] /\ row' = row /\ meddled' = meddled
      BY <1>9, <2>b DEF ServePatch
    <3>3. call' \in [Calls -> Request]
      BY <3>1, <3>2, OneRequest
    <3>4. EditorTypeOK'
      BY <1>9, <3>2, <3>3 DEF ServePatch, EditorTypeOK, Request
    <3>5. GraphShape' /\ CallShape' /\ OpShape' /\ ReadShape'
      BY <1>9, <3>2, RequestType DEF ServePatch, GraphShape, CallShape, OpShape, ReadShape,
         Request, EditorTypeOK
    <3>6. NumberShape' /\ PublishedIsNewest' /\ SaveShape' /\ CleanIsSaved'
      BY <1>9, <2>b, <3>2 DEF ServePatch, NumberShape, PublishedIsNewest, SaveShape,
         CleanIsSaved
    <3> QED BY <3>4, <3>5, <3>6
  <2> QED BY <2>a, <2>b
<1>10. ASSUME NEW c \in Calls, Saved(c)
      PROVE  EditorInv'
  <2>1. EditorTypeOK'
    BY <1>10 DEF Saved, Clean, Done, EditorTypeOK, GraphShape, CallShape, Draft, Ops, Stage, NoFetch,
       NoCall
  <2>2. GraphShape'
    BY <1>10 DEF Saved, Clean, Done, GraphShape, EditorTypeOK, CallShape, Draft, NoFetch, NoCall
  <2>3. CallShape'
    BY <1>10 DEF Saved, Clean, Done, CallShape, EditorTypeOK, NoCall, Stage
  <2>4. OpShape'
    BY <1>10 DEF Saved, Clean, Done, OpShape, EditorTypeOK, NoCall, Stage, Ops
  <2>5. NumberShape'
    BY <1>10 DEF Saved, Clean, Done, NumberShape, EditorTypeOK, NoCall
  <2>6. ReadShape'
    BY <1>10 DEF Saved, Clean, Done, ReadShape, EditorTypeOK, OpShape, NumberShape, NoCall
  <2>7. SaveShape'
    BY <1>10 DEF Saved, Clean, Done, SaveShape, EditorTypeOK, CallShape, OpShape, Under, NoCall, Ops
  <2>8. PublishedIsNewest'
    BY <1>10 DEF Saved, Clean, Done, PublishedIsNewest, EditorTypeOK, NumberShape, NoCall
  <2>9. CleanIsSaved'
    BY <1>10 DEF Saved, Clean, Done, CleanIsSaved, EditorTypeOK, SaveShape, CallShape, OpShape,
       Under, NoCall
  <2> QED BY <2>1, <2>2, <2>3, <2>4, <2>5, <2>6, <2>7, <2>8, <2>9
<1>11. ASSUME NEW c \in Calls, ServeValidate(c)
      PROVE  EditorInv'
  <2> DEFINE k == [call[c] EXCEPT !.at = IF ~row.there THEN "failed"
                                     ELSE IF ValidDraft(call[c].graph) THEN "valid" ELSE "invalid"]
  <2>a. call[c] \in Request /\ call[c].graph \in Draft
    BY <1>11, RequestType DEF Request
  <2>c. k \in Request
    BY <2>a DEF Request, Stage
  <2>d. call' = [call EXCEPT ![c] = k]
    BY <1>11 DEF ServeValidate
  <2>e. call' \in [Calls -> Request]
    BY <2>c, <2>d, OneRequest
  <2> HIDE DEF k
  <2>1. EditorTypeOK'
    BY <1>11, <2>e DEF ServeValidate, EditorTypeOK, Request
  <2>2. GraphShape'
    BY <1>11 DEF ServeValidate, GraphShape, EditorTypeOK, CallShape, Draft, NoFetch, NoCall
  <2>3. CallShape'
    BY <1>11 DEF ServeValidate, CallShape, EditorTypeOK, NoCall, Stage
  <2>4. OpShape'
    BY <1>11 DEF ServeValidate, OpShape, EditorTypeOK, NoCall, Stage, Ops
  <2>5. NumberShape'
    BY <1>11 DEF ServeValidate, NumberShape, EditorTypeOK, NoCall
  <2>6. ReadShape'
    BY <1>11 DEF ServeValidate, ReadShape, EditorTypeOK, OpShape, NumberShape, NoCall
  <2>7. SaveShape'
    BY <1>11 DEF ServeValidate, SaveShape, EditorTypeOK, CallShape, OpShape, Under, NoCall, Ops
  <2>8. PublishedIsNewest'
    BY <1>11 DEF ServeValidate, PublishedIsNewest, EditorTypeOK, NumberShape, NoCall
  <2>9. CleanIsSaved'
    BY <1>11 DEF ServeValidate, CleanIsSaved, EditorTypeOK, SaveShape, CallShape, OpShape, Under,
       NoCall
  <2> QED BY <2>1, <2>2, <2>3, <2>4, <2>5, <2>6, <2>7, <2>8, <2>9
<1>12. ASSUME NEW c \in Calls, Validated(c)
      PROVE  EditorInv'
  <2>1. EditorTypeOK'
    BY <1>12 DEF Validated, Done, EditorTypeOK, GraphShape, CallShape, Draft, Ops, Stage, NoFetch,
       NoCall
  <2>2. GraphShape'
    BY <1>12 DEF Validated, Done, GraphShape, EditorTypeOK, CallShape, Draft, NoFetch, NoCall
  <2>3. CallShape'
    BY <1>12 DEF Validated, Done, CallShape, EditorTypeOK, NoCall, Stage
  <2>4. OpShape'
    BY <1>12 DEF Validated, Done, OpShape, EditorTypeOK, NoCall, Stage, Ops
  <2>5. NumberShape'
    BY <1>12 DEF Validated, Done, NumberShape, EditorTypeOK, NoCall
  <2>6. ReadShape'
    BY <1>12 DEF Validated, Done, ReadShape, EditorTypeOK, OpShape, NumberShape, NoCall
  <2>7. SaveShape'
    BY <1>12 DEF Validated, Done, SaveShape, EditorTypeOK, CallShape, OpShape, Under, NoCall, Ops
  <2>8. PublishedIsNewest'
    BY <1>12 DEF Validated, Done, PublishedIsNewest, EditorTypeOK, NumberShape, NoCall
  <2>9. CleanIsSaved'
    BY <1>12 DEF Validated, Done, CleanIsSaved, EditorTypeOK, SaveShape, CallShape, OpShape,
       Under, NoCall
  <2> QED BY <2>1, <2>2, <2>3, <2>4, <2>5, <2>6, <2>7, <2>8, <2>9
<1>13. ASSUME NEW c \in Calls, Post(c)
      PROVE  EditorInv'
  <2> DEFINE k == [call[c] EXCEPT !.at = "post"]
  <2>a. call[c] \in Request /\ call[c].graph \in Draft
    BY <1>13, RequestType DEF Request
  <2>c. k \in Request
    BY <2>a DEF Request, Stage
  <2>d. call' = [call EXCEPT ![c] = k]
    BY <1>13 DEF Post
  <2>e. call' \in [Calls -> Request]
    BY <2>c, <2>d, OneRequest
  <2> HIDE DEF k
  <2>1. EditorTypeOK'
    BY <1>13, <2>e DEF Post, EditorTypeOK, Request
  <2>2. GraphShape'
    BY <1>13 DEF Post, GraphShape, EditorTypeOK, CallShape, Draft, NoFetch, NoCall
  <2>3. CallShape'
    BY <1>13 DEF Post, CallShape, EditorTypeOK, NoCall, Stage
  <2>4. OpShape'
    BY <1>13 DEF Post, OpShape, EditorTypeOK, NoCall, Stage, Ops
  <2>5. NumberShape'
    BY <1>13 DEF Post, NumberShape, EditorTypeOK, NoCall
  <2>6. ReadShape'
    BY <1>13 DEF Post, ReadShape, EditorTypeOK, OpShape, NumberShape, NoCall
  <2>7. SaveShape'
    BY <1>13 DEF Post, SaveShape, EditorTypeOK, CallShape, OpShape, Under, NoCall, Ops
  <2>8. PublishedIsNewest'
    BY <1>13 DEF Post, PublishedIsNewest, EditorTypeOK, NumberShape, NoCall
  <2>9. CleanIsSaved'
    BY <1>13 DEF Post, CleanIsSaved, EditorTypeOK, SaveShape, CallShape, OpShape, Under, NoCall
  <2> QED BY <2>1, <2>2, <2>3, <2>4, <2>5, <2>6, <2>7, <2>8, <2>9
<1>14. ASSUME NEW c \in Calls, ReadDraft(c)
      PROVE  EditorInv'
  <2> DEFINE k == [call[c] EXCEPT !.at = IF row.there /\ ValidDraft(row.draft) THEN "read" ELSE "failed",
                              !.read = row.draft]
  <2>a. call[c] \in Request /\ call[c].graph \in Draft
    BY <1>14, RequestType DEF Request
  <2>c. k \in Request
    BY <2>a DEF Request, Stage, EditorTypeOK
  <2>d. call' = [call EXCEPT ![c] = k]
    BY <1>14 DEF ReadDraft
  <2>e. call' \in [Calls -> Request]
    BY <2>c, <2>d, OneRequest
  <2> HIDE DEF k
  <2>1. EditorTypeOK'
    BY <1>14, <2>e DEF ReadDraft, EditorTypeOK, Request
  <2>2. GraphShape'
    BY <1>14 DEF ReadDraft, GraphShape, EditorTypeOK, CallShape, Draft, NoFetch, NoCall
  <2>3. CallShape'
    BY <1>14 DEF ReadDraft, CallShape, EditorTypeOK, NoCall, Stage
  <2>4. OpShape'
    BY <1>14 DEF ReadDraft, OpShape, EditorTypeOK, NoCall, Stage, Ops
  <2>5. NumberShape'
    BY <1>14 DEF ReadDraft, NumberShape, EditorTypeOK, NoCall
  <2>6. ReadShape'
    BY <1>14 DEF ReadDraft, ReadShape, EditorTypeOK, OpShape, NumberShape, NoCall
  <2>7. SaveShape'
    BY <1>14 DEF ReadDraft, SaveShape, EditorTypeOK, CallShape, OpShape, Under, NoCall, Ops
  <2>8. PublishedIsNewest'
    BY <1>14 DEF ReadDraft, PublishedIsNewest, EditorTypeOK, NumberShape, NoCall
  <2>9. CleanIsSaved'
    BY <1>14 DEF ReadDraft, CleanIsSaved, EditorTypeOK, SaveShape, CallShape, OpShape, Under, NoCall
  <2> QED BY <2>1, <2>2, <2>3, <2>4, <2>5, <2>6, <2>7, <2>8, <2>9
<1>15. ASSUME NEW c \in Calls, NumberIt(c)
      PROVE  EditorInv'
  <2> DEFINE k == [call[c] EXCEPT !.at = "numbered", !.num = Len(releases) + 1]
  <2>a. call[c] \in Request /\ call[c].graph \in Draft
    BY <1>15, RequestType DEF Request
  <2>b. Len(releases) + 1 \in 0..MaxVersions
    BY <1>15 DEF NumberIt, EditorTypeOK
  <2>c. k \in Request
    BY <2>a, <2>b DEF Request, Stage
  <2>d. call' = [call EXCEPT ![c] = k]
    BY <1>15 DEF NumberIt
  <2>e. call' \in [Calls -> Request]
    BY <2>c, <2>d, OneRequest
  <2> HIDE DEF k
  <2>1. EditorTypeOK'
    BY <1>15, <2>e DEF NumberIt, EditorTypeOK, Request
  <2>2. GraphShape'
    BY <1>15 DEF NumberIt, GraphShape, EditorTypeOK, CallShape, Draft, NoFetch, NoCall
  <2>3. CallShape'
    BY <1>15 DEF NumberIt, CallShape, EditorTypeOK, NoCall, Stage
  <2>4. OpShape'
    BY <1>15 DEF NumberIt, OpShape, EditorTypeOK, NoCall, Stage, Ops
  <2>5. NumberShape'
    BY <1>15 DEF NumberIt, NumberShape, EditorTypeOK, NoCall
  <2>6. ReadShape'
    BY <1>15 DEF NumberIt, ReadShape, EditorTypeOK, OpShape, NumberShape, NoCall
  <2>7. SaveShape'
    BY <1>15 DEF NumberIt, SaveShape, EditorTypeOK, CallShape, OpShape, Under, NoCall, Ops
  <2>8. PublishedIsNewest'
    BY <1>15 DEF NumberIt, PublishedIsNewest, EditorTypeOK, NumberShape, NoCall
  <2>9. CleanIsSaved'
    BY <1>15 DEF NumberIt, CleanIsSaved, EditorTypeOK, SaveShape, CallShape, OpShape, Under, NoCall
  <2> QED BY <2>1, <2>2, <2>3, <2>4, <2>5, <2>6, <2>7, <2>8, <2>9
<1>16. ASSUME NEW c \in Calls, WriteVersion(c)
      PROVE  EditorInv'
  <2> DEFINE k(x) == [call[c] EXCEPT !.at = x]
  <2>a. ASSUME NEW x \in {"published", "failed"}, call' = [call EXCEPT ![c] = k(x)]
        PROVE  /\ call' \in [Calls -> Request]
               /\ \A d \in Calls : /\ call'[d].tab = call[d].tab /\ call'[d].op = call[d].op
                                   /\ call'[d].graph = call[d].graph /\ call'[d].read = call[d].read
                                   /\ call'[d].num = call[d].num /\ call'[d].mine = call[d].mine
                                   /\ call'[d].crossed = call[d].crossed
                                   /\ call'[d].at = IF d = c THEN x ELSE call[d].at
    <3>1. k(x) \in Request
      BY RequestType DEF Request, Stage
    <3>2. call' \in [Calls -> Request] /\ call'[c] = k(x) /\ \A d \in Calls \ {c} : call'[d] = call[d]
      <4> HIDE DEF k
      <4> QED BY <2>a, <3>1, OneRequest
    <3> QED BY <3>2, RequestType DEF Request
  <2>b. call[c].at = "numbered" /\ call[c].num \in 0..MaxVersions /\ call[c].read \in Draft
    BY <1>16, RequestType DEF WriteVersion, Request
  <2>c. UNCHANGED <<edits, sound, page, cache, fetch, shown, dirty, verdict, meddled, left>>
    BY <1>16 DEF WriteVersion
  <2>d. CASE row.there /\ call[c].num > Len(releases)
    <3>1. /\ releases' = Append(releases, call[c].read)
          /\ row' = [row EXCEPT !.enabled = TRUE, !.published = call[c].num]
          /\ call' = [call EXCEPT ![c] = k("published")]
      BY <1>16, <2>d DEF WriteVersion
    <3>2. /\ row'.there /\ row'.draft = row.draft /\ row'.published = call[c].num
          /\ row' \in [draft : Draft, there : BOOLEAN, enabled : BOOLEAN, published : 0..MaxVersions]
      BY <2>b, <2>d, <3>1 DEF EditorTypeOK
    <3>3. releases \in Seq(Draft) /\ Len(releases) \in Nat
      BY DEF EditorTypeOK
    <3>4. call[c].num = Len(releases) + 1
      BY <2>b, <2>d, <3>3 DEF NumberShape
    <3>5. /\ releases' \in Seq(Draft) /\ Len(releases') = Len(releases) + 1
          /\ releases'[Len(releases) + 1] = call[c].read
          /\ \A m \in 1..Len(releases) : releases'[m] = releases[m]
      BY <2>b, <3>1, <3>3
    <3>6. call' \in [Calls -> Request]
      BY <2>a, <3>1
    <3>7. \A d \in Calls : /\ call'[d].tab = call[d].tab /\ call'[d].op = call[d].op
                           /\ call'[d].graph = call[d].graph /\ call'[d].read = call[d].read
                           /\ call'[d].num = call[d].num /\ call'[d].mine = call[d].mine
                           /\ call'[d].crossed = call[d].crossed
                           /\ call'[d].at = IF d = c THEN "published" ELSE call[d].at
      BY <2>a, <3>1
    <3>8. EditorTypeOK'
      BY <2>b, <2>c, <3>2, <3>3, <3>4, <3>5, <3>6 DEF EditorTypeOK, Request
    <3>9. GraphShape' /\ CallShape'
      BY <2>b, <2>c, <3>2, <3>7 DEF GraphShape, CallShape
    <3>10. OpShape' /\ ReadShape'
      BY <2>b, <2>d, <3>2, <3>7 DEF OpShape, ReadShape
    <3>11. NumberShape'
      BY <2>b, <2>d, <3>3, <3>4, <3>5, <3>7, RequestType DEF NumberShape, Request
    <3>12. SaveShape' /\ CleanIsSaved'
      BY <2>b, <2>c, <3>2, <3>7 DEF SaveShape, CleanIsSaved, Under
    <3>13. PublishedIsNewest'
      BY <3>2, <3>4, <3>5 DEF PublishedIsNewest
    <3> QED BY <3>8, <3>9, <3>10, <3>11, <3>12, <3>13
  <2>e. CASE ~(row.there /\ call[c].num > Len(releases))
    <3>1. call' = [call EXCEPT ![c] = k("failed")] /\ row' = row /\ releases' = releases
      BY <1>16, <2>e DEF WriteVersion
    <3>2. call' \in [Calls -> Request]
      BY <2>a, <3>1
    <3>3. \A d \in Calls : /\ call'[d].tab = call[d].tab /\ call'[d].op = call[d].op
                           /\ call'[d].graph = call[d].graph /\ call'[d].read = call[d].read
                           /\ call'[d].num = call[d].num /\ call'[d].mine = call[d].mine
                           /\ call'[d].crossed = call[d].crossed
                           /\ call'[d].at = IF d = c THEN "failed" ELSE call[d].at
      BY <2>a, <3>1
    <3>4. EditorTypeOK'
      BY <2>c, <3>1, <3>2 DEF EditorTypeOK, Request
    <3>5. GraphShape' /\ CallShape'
      BY <2>b, <2>c, <3>1, <3>3 DEF GraphShape, CallShape
    <3>6. OpShape' /\ ReadShape' /\ NumberShape' /\ PublishedIsNewest'
      BY <2>b, <3>1, <3>3 DEF OpShape, ReadShape, NumberShape, PublishedIsNewest
    <3>7. SaveShape' /\ CleanIsSaved'
      BY <2>b, <2>c, <3>1, <3>3 DEF SaveShape, CleanIsSaved, Under
    <3> QED BY <3>4, <3>5, <3>6, <3>7
  <2> QED BY <2>d, <2>e
<1>17. ASSUME NEW c \in Calls, Announced(c)
      PROVE  EditorInv'
  <2>1. EditorTypeOK'
    BY <1>17 DEF Announced, Clean, Done, EditorTypeOK, GraphShape, CallShape, Draft, Ops, Stage,
       NoFetch, NoCall
  <2>2. GraphShape'
    BY <1>17 DEF Announced, Clean, Done, GraphShape, EditorTypeOK, CallShape, Draft, NoFetch, NoCall
  <2>3. CallShape'
    BY <1>17 DEF Announced, Clean, Done, CallShape, EditorTypeOK, NoCall, Stage
  <2>4. OpShape'
    BY <1>17 DEF Announced, Clean, Done, OpShape, EditorTypeOK, NoCall, Stage, Ops
  <2>5. NumberShape'
    BY <1>17 DEF Announced, Clean, Done, NumberShape, EditorTypeOK, NoCall
  <2>6. ReadShape'
    BY <1>17 DEF Announced, Clean, Done, ReadShape, EditorTypeOK, OpShape, NumberShape, NoCall
  <2>7. SaveShape'
    BY <1>17 DEF Announced, Clean, Done, SaveShape, EditorTypeOK, CallShape, OpShape, Under,
       NoCall, Ops
  <2>8. PublishedIsNewest'
    BY <1>17 DEF Announced, Clean, Done, PublishedIsNewest, EditorTypeOK, NumberShape, NoCall
  <2>9. CleanIsSaved'
    BY <1>17 DEF Announced, Clean, Done, CleanIsSaved, EditorTypeOK, SaveShape, CallShape,
       OpShape, Under, NoCall
  <2> QED BY <2>1, <2>2, <2>3, <2>4, <2>5, <2>6, <2>7, <2>8, <2>9
<1>18. ASSUME NEW c \in Calls, Failed(c)
      PROVE  EditorInv'
  <2> DEFINE t == call[c].tab
             k == IF call[c].op = "publish" /\ call[c].mine /\ Under(t, {"validate"}) = {}
                  THEN [NoCall EXCEPT !.tab = t, !.op = "validate", !.at = "check",
                                      !.graph = shown[t], !.mine = TRUE]
                  ELSE NoCall
  <2>a. call[c].at = "failed" /\ t \in Tabs
    BY <1>18 DEF Failed, CallShape
  <2>b. call' = [call EXCEPT ![c] = k]
    BY <1>18 DEF Failed, Start, Done
  <2>c. shown[t] \in Draft /\ shown[t] \subseteq 1..edits
    BY <2>a DEF EditorTypeOK, Draft
  <2>d. /\ k \in Request /\ k.at \in {"idle", "check"} /\ k.graph \subseteq 1..edits
        /\ k.at = "check" => k.op = "validate" /\ k.tab = t /\ call[c].mine
        /\ k.at = "idle" => ~k.mine
        /\ k.op \in {"save", "validate"}
    BY <2>a, <2>c, NoCallType DEF Request, Ops, Stage, NoCall
  <2> HIDE DEF k
  <2>e. call' \in [Calls -> Request] /\ call'[c] = k /\ \A d \in Calls \ {c} : call'[d] = call[d]
    BY <2>b, <2>d, OneRequest
  <2>f. UNCHANGED <<row, releases, edits, sound, page, cache, fetch, shown, dirty, verdict, meddled, left>>
    BY <1>18 DEF Failed
  <2> HIDE DEF t
  <2>1. EditorTypeOK'
    BY <2>e, <2>f DEF EditorTypeOK, Request
  <2>2. GraphShape'
    BY <2>d, <2>e, <2>f DEF GraphShape
  <2>3. CallShape'
    BY <2>a, <2>d, <2>e, <2>f DEF CallShape, t
  <2>4. OpShape'
    BY <2>d, <2>e DEF OpShape
  <2>5. NumberShape'
    BY <2>d, <2>e, <2>f DEF NumberShape
  <2>6. ReadShape'
    BY <2>d, <2>e, <2>f DEF ReadShape
  <2>7. SaveShape'
    BY <2>d, <2>e, <2>f DEF SaveShape, Under
  <2>8. PublishedIsNewest'
    BY <2>f DEF PublishedIsNewest
  <2>9. CleanIsSaved'
    BY <2>f DEF CleanIsSaved
  <2> QED BY <2>1, <2>2, <2>3, <2>4, <2>5, <2>6, <2>7, <2>8, <2>9
<1>19. ASSUME NEW c \in Calls, Lost(c)
      PROVE  EditorInv'
  <2> DEFINE k == IF call[c].at = "patched" THEN NoCall
                 ELSE [Unheard(call[c]) EXCEPT !.op = IF call[c].at = "patch" THEN "save" ELSE @]
  <2>a. call[c] \in Request /\ call[c].graph \in Draft
    BY <1>19, RequestType DEF Request
  <2>b. Unheard(call[c]) \in Request
    BY <2>a, NoCallType DEF Unheard, Request
  <2>c. k \in Request
    BY <2>a, <2>b, NoCallType DEF Request, Ops
  <2>d. call' = [call EXCEPT ![c] = k]
    BY <1>19 DEF Lost
  <2>e. call' \in [Calls -> Request]
    BY <2>c, <2>d, OneRequest
  <2> HIDE DEF k
  <2>1. EditorTypeOK'
    BY <1>19, <2>e DEF Lost, Event, EditorTypeOK, Request
  <2>2. GraphShape'
    BY <1>19 DEF Lost, Event, Unheard, GraphShape, EditorTypeOK, CallShape, Draft, NoFetch, NoCall
  <2>3. CallShape'
    BY <1>19 DEF Lost, Event, Unheard, CallShape, EditorTypeOK, NoCall, Stage
  <2>4. OpShape'
    BY <1>19 DEF Lost, Event, Unheard, OpShape, EditorTypeOK, NoCall, Stage, Ops
  <2>5. NumberShape'
    BY <1>19 DEF Lost, Event, Unheard, NumberShape, EditorTypeOK, NoCall
  <2>6. ReadShape'
    BY <1>19 DEF Lost, Event, Unheard, ReadShape, EditorTypeOK, OpShape, NumberShape, NoCall
  <2>7. SaveShape'
    BY <1>19 DEF Lost, Event, Unheard, SaveShape, EditorTypeOK, CallShape, OpShape, Under, NoCall,
       Ops
  <2>8. PublishedIsNewest'
    BY <1>19 DEF Lost, Event, Unheard, PublishedIsNewest, EditorTypeOK, NumberShape, NoCall
  <2>9. CleanIsSaved'
    BY <1>19 DEF Lost, Event, Unheard, CleanIsSaved, EditorTypeOK, SaveShape, CallShape, OpShape,
       Under, NoCall
  <2> QED BY <2>1, <2>2, <2>3, <2>4, <2>5, <2>6, <2>7, <2>8, <2>9
<1>20. ASSUME Toggle
      PROVE  EditorInv'
  <2>1. EditorTypeOK'
    BY <1>20 DEF Toggle, EditorTypeOK, GraphShape, CallShape, Draft, Ops, Stage, NoFetch, NoCall
  <2>2. GraphShape'
    BY <1>20 DEF Toggle, GraphShape, EditorTypeOK, CallShape, Draft, NoFetch, NoCall
  <2>3. CallShape'
    BY <1>20 DEF Toggle, CallShape, EditorTypeOK, NoCall, Stage
  <2>4. OpShape'
    BY <1>20 DEF Toggle, OpShape, EditorTypeOK, NoCall, Stage, Ops
  <2>5. NumberShape'
    BY <1>20 DEF Toggle, NumberShape, EditorTypeOK, NoCall
  <2>6. ReadShape'
    BY <1>20 DEF Toggle, ReadShape, EditorTypeOK, OpShape, NumberShape, NoCall
  <2>7. SaveShape'
    BY <1>20 DEF Toggle, SaveShape, EditorTypeOK, CallShape, OpShape, Under, NoCall, Ops
  <2>8. PublishedIsNewest'
    BY <1>20 DEF Toggle, PublishedIsNewest, EditorTypeOK, NumberShape, NoCall
  <2>9. CleanIsSaved'
    BY <1>20 DEF Toggle, CleanIsSaved, EditorTypeOK, SaveShape, CallShape, OpShape, Under, NoCall
  <2> QED BY <2>1, <2>2, <2>3, <2>4, <2>5, <2>6, <2>7, <2>8, <2>9
<1>21. ASSUME RemoveFlow
      PROVE  EditorInv'
  <2>1. EditorTypeOK'
    BY <1>21 DEF RemoveFlow, Event, EditorTypeOK, GraphShape, CallShape, Draft, Ops, Stage, NoFetch, NoCall
  <2>2. GraphShape'
    BY <1>21 DEF RemoveFlow, Event, GraphShape, EditorTypeOK, CallShape, Draft, NoFetch, NoCall
  <2>3. CallShape'
    BY <1>21 DEF RemoveFlow, Event, CallShape, EditorTypeOK, NoCall, Stage
  <2>4. OpShape'
    BY <1>21 DEF RemoveFlow, Event, OpShape, EditorTypeOK, NoCall, Stage, Ops
  <2>5. NumberShape'
    BY <1>21 DEF RemoveFlow, Event, NumberShape, EditorTypeOK, NoCall
  <2>6. ReadShape'
    BY <1>21 DEF RemoveFlow, Event, ReadShape, EditorTypeOK, OpShape, NumberShape, NoCall
  <2>7. SaveShape'
    BY <1>21 DEF RemoveFlow, Event, SaveShape, EditorTypeOK, CallShape, OpShape, Under, NoCall, Ops
  <2>8. PublishedIsNewest'
    BY <1>21 DEF RemoveFlow, Event, PublishedIsNewest, EditorTypeOK, NumberShape, NoCall
  <2>9. CleanIsSaved'
    BY <1>21 DEF RemoveFlow, Event, CleanIsSaved, EditorTypeOK, SaveShape, CallShape, OpShape, Under,
       NoCall
  <2> QED BY <2>1, <2>2, <2>3, <2>4, <2>5, <2>6, <2>7, <2>8, <2>9
<1>22. CASE UNCHANGED editorVars
  BY <1>22 DEF editorVars, EditorTypeOK, GraphShape, CallShape, OpShape, NumberShape, ReadShape, SaveShape,
      PublishedIsNewest, CleanIsSaved, Under
<1> QED
  BY <1>1, <1>2, <1>3, <1>4, <1>5, <1>6, <1>7, <1>8, <1>9, <1>10, <1>11, <1>12, <1>13,
     <1>14, <1>15, <1>16, <1>17, <1>18, <1>19, <1>20, <1>21, <1>22 DEF EditorNext

\* The invariant holds in every state.
THEOREM EditorInvariance == EditorSpec => []EditorInv
<1>1. EditorInit => EditorInv
  BY EditorBeginning
<1>2. EditorInv /\ [EditorNext]_editorVars => EditorInv'
  BY EditorInductive
<1> QED BY <1>1, <1>2, PTL DEF EditorSpec

\* Type correctness; a flow that is on has a version.
THEOREM EditorTypeCorrect == EditorSpec => []EditorTypeOK
<1>1. EditorInv => EditorTypeOK
  BY DEF EditorInv
<1> QED BY <1>1, EditorInvariance, PTL

\* The flow points to its newest version, however many publications overlap.
THEOREM NewestTheorem == EditorSpec => []PublishedIsNewest
<1>1. EditorInv => PublishedIsNewest
  BY DEF EditorInv
<1> QED BY <1>1, EditorInvariance, PTL

\* What the editor announces as published is what it showed, unless the PATCH of
\* somebody else came between its own and the publication.
THEOREM AnnouncedTheorem == EditorSpec => []AnnouncedIsPublished
<1>1. EditorInv => AnnouncedIsPublished
  BY DEF EditorInv, NumberShape, ReadShape, OpShape, AnnouncedIsPublished
<1> QED BY <1>1, EditorInvariance, PTL

\* An editor without "sin guardar" shows the draft, but for the cases named in
\* CleanIsSaved: markDirty, setDirty, save and publish.
THEOREM CleanTheorem == EditorSpec => []CleanIsSaved
<1>1. EditorInv => CleanIsSaved
  BY DEF EditorInv
<1> QED BY <1>1, EditorInvariance, PTL

-----------------------------------------------------------------------------
(* The canvas. *)

\* A graph of the canvas has its fields, and a type for each of its nodes.
IsCanvas(g) ==
  /\ g = [kind |-> g.kind, edges |-> g.edges, options |-> g.options, intents |-> g.intents,
          timed |-> g.timed, blank |-> g.blank, routed |-> g.routed, refused |-> g.refused]
  /\ g.kind \in [NodesOf(g) -> NodeType]
  /\ g.options = [n \in NodesOf(g) |-> g.options[n]]
  /\ g.intents = [n \in NodesOf(g) |-> g.intents[n]]

\* defaultGraph: an editor begins with a graph that is whole.
THEOREM NewGraphTheorem ==
  ASSUME NEW s
  PROVE  IsCanvas(NewGraph(s)) /\ Whole(NewGraph(s))
<1>1. NodesOf(NewGraph(s)) = {s}
  BY DEF NewGraph, NodesOf
<1>2. "start" \in NodeType /\ "start" # "wait"
  BY DEF NodeType
<1> QED BY <1>1, <1>2 DEF IsCanvas, Whole, NewGraph, NoDangling, Starts

LEMMA AddKeeps ==
  ASSUME NEW g, IsCanvas(g), Whole(g), NEW n, n \notin NodesOf(g), NEW type \in Palette
  PROVE  IsCanvas(Add(g, n, type)) /\ Whole(Add(g, n, type))
<1> DEFINE h == Add(g, n, type)
           nodes == NodesOf(g) \union {n}
<1>1. h = [kind |-> [x \in nodes |-> IF x = n THEN type ELSE g.kind[x]],
           edges |-> g.edges,
           options |-> [x \in nodes |-> IF x = n THEN {} ELSE g.options[x]],
           intents |-> [x \in nodes |-> IF x = n THEN {} ELSE g.intents[x]],
           timed |-> IF type = "wait" THEN g.timed \union {n} ELSE g.timed,
           blank |-> g.blank, routed |-> g.routed,
           refused |-> IF type \in Unfilled THEN g.refused \union {n} ELSE g.refused]
  BY DEF Add
<1>2. NodesOf(h) = nodes
  BY <1>1 DEF NodesOf
<1>3. type \in NodeType /\ type # "start"
  BY DEF Palette
<1>4. \A x \in NodesOf(g) : g.kind[x] \in NodeType
  BY DEF IsCanvas
<1>5. IsCanvas(h)
  <2> HIDE DEF h
  <2> QED BY <1>1, <1>2, <1>3, <1>4 DEF IsCanvas
<1>6. \A x \in nodes : h.kind[x] = IF x = n THEN type ELSE g.kind[x]
  BY <1>1
<1>7. h.edges = g.edges /\ g.timed \subseteq h.timed /\ g.refused \subseteq h.refused
       /\ (type = "wait" => n \in h.timed)
  BY <1>1
<1> HIDE DEF h
<1>8. Whole(h)
  BY <1>2, <1>3, <1>6, <1>7 DEF Whole, NoDangling, Starts
<1> QED BY <1>5, <1>8 DEF h

LEMMA WithoutKeeps ==
  ASSUME NEW g, IsCanvas(g), Whole(g), NEW n
  PROVE  IsCanvas(Without(g, n)) /\ Whole(Without(g, n))
<1> DEFINE h == Without(g, n)
           nodes == NodesOf(g) \ {n}
<1>1. h = [kind |-> [x \in nodes |-> g.kind[x]],
           edges |-> {e \in g.edges : n \notin {e.from, e.to}},
           options |-> [x \in nodes |-> g.options[x]],
           intents |-> [x \in nodes |-> g.intents[x]],
           timed |-> g.timed \ {n}, blank |-> g.blank \ {n}, routed |-> g.routed \ {n},
           refused |-> g.refused \ {n}]
  BY DEF Without
<1>2. NodesOf(h) = nodes
  BY <1>1 DEF NodesOf
<1>3. \A x \in nodes : h.kind[x] = g.kind[x] /\ g.kind[x] \in NodeType
  BY <1>1 DEF IsCanvas
<1>4. IsCanvas(h)
  <2> HIDE DEF h
  <2> QED BY <1>1, <1>2, <1>3 DEF IsCanvas
<1>5. /\ \A e \in h.edges : e \in g.edges /\ e.from # n /\ e.to # n
      /\ h.timed = g.timed \ {n} /\ h.refused = g.refused \ {n}
  BY <1>1
<1> HIDE DEF h
<1>6. Whole(h)
  BY <1>2, <1>3, <1>5 DEF Whole, NoDangling, Starts
<1> QED BY <1>4, <1>6 DEF h

\* An edit that leaves the nodes alone and what leads to them.
LEMMA OtherEditsKeep ==
  ASSUME NEW g, IsCanvas(g), Whole(g), NEW h, IsCanvas(h), h.kind = g.kind,
         \A e \in h.edges :
           \/ e \in g.edges
           \/ /\ {e.from, e.to} \subseteq NodesOf(g) /\ e.to \notin Starts(g)
              /\ g.kind[e.from] = "condition" => e.by \in {"true", "false"},
         \A n \in NodesOf(g) : n \in g.timed \union g.refused => n \in h.timed \union h.refused
  PROVE  Whole(h)
<1>1. NodesOf(h) = NodesOf(g) /\ Starts(h) = Starts(g)
  BY DEF NodesOf, Starts
<1> QED BY <1>1 DEF Whole, NoDangling, Starts

LEMMA JoinedKeeps ==
  ASSUME NEW g, IsCanvas(g), Whole(g), NEW h \in Joined(g) \union Disjoined(g)
  PROVE  IsCanvas(h) /\ Whole(h)
<1>1. PICK some : /\ h = [g EXCEPT !.edges = some]
                  /\ \A e \in some :
                       e \in g.edges \/ (e \in MayJoin(g) /\ e.by \in Outlets(g, e.from))
  BY DEF Joined, Disjoined
<1>2. h = [kind |-> g.kind, edges |-> some, options |-> g.options, intents |-> g.intents,
           timed |-> g.timed, blank |-> g.blank, routed |-> g.routed, refused |-> g.refused]
  BY <1>1 DEF IsCanvas
<1>3. IsCanvas(h)
  BY <1>2 DEF IsCanvas, NodesOf
<1>4. \A e \in MayJoin(g) : {e.from, e.to} \subseteq NodesOf(g) /\ e.to \notin Starts(g)
  BY DEF MayJoin
<1>5. \A e : g.kind[e.from] = "condition" => Outlets(g, e.from) = {"true", "false"}
  BY DEF Outlets
<1> QED BY <1>1, <1>2, <1>3, <1>4, <1>5, OtherEditsKeep

LEMMA ConfiguredKeeps ==
  ASSUME NEW g, IsCanvas(g), Whole(g), NEW n \in NodesOf(g), NEW labels,
         NEW h \in Configured(g, n, labels)
  PROVE  IsCanvas(h) /\ Whole(h)
<1> DEFINE Same(o, i, t, b, w, r) ==
      h = [kind |-> g.kind, edges |-> g.edges, options |-> o, intents |-> i,
           timed |-> t, blank |-> b, routed |-> w, refused |-> r]
<1>1. CASE h \in SetText(g, n)
  <2>1. PICK b : h = [g EXCEPT !.blank = b]
    BY <1>1 DEF SetText
  <2>2. Same(g.options, g.intents, g.timed, b, g.routed, g.refused)
    BY <2>1 DEF IsCanvas
  <2>3. IsCanvas(h)
    BY <2>2 DEF IsCanvas, NodesOf
  <2> QED BY <2>2, <2>3, OtherEditsKeep
<1>2. CASE \E some : h = SetOptions(g, n, some)
  <2>1. PICK some : h = [g EXCEPT !.options[n] = some]
    BY <1>2 DEF SetOptions
  <2>2. Same([g.options EXCEPT ![n] = some], g.intents, g.timed, g.blank, g.routed, g.refused)
    BY <2>1 DEF IsCanvas
  <2>3. IsCanvas(h)
    BY <2>2 DEF IsCanvas, NodesOf
  <2> QED BY <2>2, <2>3, OtherEditsKeep
<1>3. CASE \E some : h = SetIntents(g, n, some)
  <2>1. PICK some : h = [g EXCEPT !.intents[n] = some]
    BY <1>3 DEF SetIntents
  <2>2. Same(g.options, [g.intents EXCEPT ![n] = some], g.timed, g.blank, g.routed, g.refused)
    BY <2>1 DEF IsCanvas
  <2>3. IsCanvas(h)
    BY <2>2 DEF IsCanvas, NodesOf
  <2> QED BY <2>2, <2>3, OtherEditsKeep
<1>4. CASE h \in SetRouted(g, n)
  <2>1. PICK w : h = [g EXCEPT !.routed = w]
    BY <1>4 DEF SetRouted
  <2>2. Same(g.options, g.intents, g.timed, g.blank, w, g.refused)
    BY <2>1 DEF IsCanvas
  <2>3. IsCanvas(h)
    BY <2>2 DEF IsCanvas, NodesOf
  <2> QED BY <2>2, <2>3, OtherEditsKeep
<1>5. CASE h \in SetSeconds(g, n)
  <2>1. \/ Same(g.options, g.intents, g.timed \union {n}, g.blank, g.routed, g.refused \ {n})
        \/ Same(g.options, g.intents, g.timed \union {n}, g.blank, g.routed, g.refused \union {n})
        \/ Same(g.options, g.intents, g.timed \ {n}, g.blank, g.routed, g.refused \union {n})
    BY <1>5 DEF SetSeconds, IsCanvas
  <2>2. \E t, r : /\ Same(g.options, g.intents, t, g.blank, g.routed, r)
                 /\ \A x \in g.timed \union g.refused : x \in t \union r
    <3>1. CASE Same(g.options, g.intents, g.timed \union {n}, g.blank, g.routed, g.refused \ {n})
      <4> WITNESS g.timed \union {n}, g.refused \ {n}
      <4> QED BY <3>1
    <3>2. CASE Same(g.options, g.intents, g.timed \union {n}, g.blank, g.routed, g.refused \union {n})
      <4> WITNESS g.timed \union {n}, g.refused \union {n}
      <4> QED BY <3>2
    <3>3. CASE Same(g.options, g.intents, g.timed \ {n}, g.blank, g.routed, g.refused \union {n})
      <4> WITNESS g.timed \ {n}, g.refused \union {n}
      <4> QED BY <3>3
    <3> QED BY <2>1, <3>1, <3>2, <3>3
  <2>3. PICK t, r : /\ Same(g.options, g.intents, t, g.blank, g.routed, r)
                    /\ \A x \in g.timed \union g.refused : x \in t \union r
    BY <2>2
  <2>4. IsCanvas(h)
    BY <2>3 DEF IsCanvas, NodesOf
  <2> QED BY <2>3, <2>4, OtherEditsKeep
<1>6. CASE g.kind[n] # "wait" /\ h \in SetTarget(g, n)
  <2>1. PICK r : /\ h = [g EXCEPT !.refused = r]
                 /\ \A x : x # n => (x \in g.refused => x \in r)
    BY <1>6 DEF SetTarget
  <2>2. Same(g.options, g.intents, g.timed, g.blank, g.routed, r)
    BY <2>1 DEF IsCanvas
  <2>3. IsCanvas(h)
    BY <2>2 DEF IsCanvas, NodesOf
  <2>4. NodesOf(h) = NodesOf(g) /\ Starts(h) = Starts(g)
    BY <2>2 DEF NodesOf, Starts
  <2> QED BY <1>6, <2>1, <2>2, <2>3, <2>4 DEF Whole, NoDangling, Starts
<1> QED BY <1>1, <1>2, <1>3, <1>4, <1>5, <1>6 DEF Configured

\* Palette, connections, panel and keyboard keep a graph whole, whatever it is and
\* whatever its nodes and branches are called.
THEOREM CanvasTheorem ==
  ASSUME NEW g, IsCanvas(g), Whole(g), NEW names, NEW labels, NEW h \in Edited(g, names, labels)
  PROVE  IsCanvas(h) /\ Whole(h)
<1>1. CASE \E n \in names \ NodesOf(g), type \in Palette : h = Add(g, n, type)
  BY <1>1, AddKeeps
<1>2. CASE h \in Joined(g) \union Disjoined(g)
  BY <1>2, JoinedKeeps
<1>3. CASE \E n \in NodesOf(g) : h = Without(g, n)
  BY <1>3, WithoutKeeps
<1>4. CASE \E n \in NodesOf(g) : h \in Configured(g, n, labels)
  BY <1>4, ConfiguredKeeps
<1> QED BY <1>1, <1>2, <1>3, <1>4 DEF Edited

\* What validateGraph can say of a graph that was drawn and saved.
THEOREM SavedTheorem ==
  ASSUME NEW g, Whole(g)
  PROVE  SavedIsNearlyValid(g)
<1> SUFFICES ASSUME Savable(g)
             PROVE  Valid(g) <=> /\ Starts(g) # {}
                                 /\ \A n \in NodesOf(g) : Connected(g, n) /\ Filled(g, n)
                                 /\ AllReachable(g)
  BY DEF SavedIsNearlyValid
<1>1. Starts(g) # {} => Cardinality(Starts(g)) = 1
  <2> SUFFICES ASSUME NEW s \in Starts(g)
               PROVE  Cardinality(Starts(g)) = 1
    OBVIOUS
  <2>1. Starts(g) = {s}
    BY DEF Whole
  <2> QED BY <2>1, FS_Singleton
<1>2. Starts(g) = {} => Cardinality(Starts(g)) # 1
  BY FS_EmptySet
<1>3. NoDangling(g) /\ \A n \in NodesOf(g) : Timed(g, n)
  BY DEF Whole, Savable, Timed
<1> QED BY <1>1, <1>2, <1>3 DEF Valid

\* In a flow that was drawn and may be published the interpreter takes only what
\* the canvas draws, and the connections of intents that are not listed any more.
THEOREM UnseenTheorem ==
  ASSUME NEW g, IsCanvas(g), Whole(g)
  PROVE  UnseenIsAnIntent(g)
<1> SUFFICES ASSUME Valid(g), NEW e \in g.edges, e \in Taken(g), e.by \notin Outlets(g, e.from)
             PROVE  /\ g.kind[e.from] = "ai"
                    /\ e.from \in g.routed /\ e.by \notin g.intents[e.from]
  BY DEF UnseenIsAnIntent, Unseen
<1> DEFINE n == e.from
<1>1. n \in NodesOf(g) /\ g.kind[n] \in NodeType
  BY DEF Whole, NoDangling, IsCanvas
<1>2. Connected(g, n)
  BY <1>1 DEF Valid
<1>3. PICK h \in WaysOut(g, n) :
        e.by = h \/ (h = "true" /\ Through(g, n, h) = {} /\ e.by = "default")
  BY DEF Taken
<1>4. "true" \in Handles(g, n) => Through(g, n, "true") # {}
  BY DEF Handles, Through
<1>5. CASE g.kind[n] = "question"
  <2>1. g.options[n] \subseteq Handles(g, n)
    BY <1>2, <1>5 DEF Connected
  <2>2. g.options[n] # {} /\ h \in g.options[n]
    BY <1>3, <1>5 DEF WaysOut, Answers, Outlets
  <2> QED BY <1>3, <1>4, <1>5, <2>1, <2>2 DEF Outlets
<1>6. CASE g.kind[n] = "condition"
  BY <1>6 DEF Whole, Outlets
<1>7. CASE g.kind[n] = "ai"
  <2>1. n \in g.routed
    BY <1>3, <1>7 DEF WaysOut, Outlets
  <2> QED BY <1>7, <2>1 DEF Outlets
<1>8. CASE g.kind[n] = "wait"
  BY <1>3, <1>8 DEF WaysOut, Outlets
<1>9. CASE g.kind[n] \in {"transfer", "end"}
  BY <1>3, <1>9 DEF WaysOut
<1>10. CASE g.kind[n] \notin {"question", "condition", "ai", "wait", "transfer", "end"}
  BY <1>3, <1>10 DEF WaysOut, Outlets, Branches
<1> QED BY <1>5, <1>6, <1>7, <1>8, <1>9, <1>10

\* A connection from "invalid", or from an option that is gone, is never followed.
THEOREM IdleTheorem ==
  ASSUME NEW g, IsCanvas(g)
  PROVE  IdleIsIdle(g)
<1> SUFFICES ASSUME NEW n \in NodesOf(g), NEW h \in WaysOut(g, n)
             PROVE  Follow(Pruned(g), n, h) = Follow(g, n, h)
  BY DEF IdleIsIdle
<1>1. Pruned(g).edges = g.edges \ Idle(g)
  BY DEF Pruned, IsCanvas
<1>2. \A e \in Idle(g) : e.from = n => g.kind[n] = "question" /\ e.by \notin TakenBy(Answers(g, n))
  BY DEF Idle
<1>3. ASSUME NEW b, g.kind[n] = "question" => b \in TakenBy(Answers(g, n))
      PROVE  Through(Pruned(g), n, b) = Through(g, n, b)
  BY <1>1, <1>2, <1>3 DEF Through
<1>4. g.kind[n] = "question" => h \in Answers(g, n)
  BY DEF WaysOut
<1>5. Through(Pruned(g), n, h) = Through(g, n, h)
  BY <1>3, <1>4 DEF TakenBy
<1>6. h = "true" => Through(Pruned(g), n, "default") = Through(g, n, "default")
  BY <1>3, <1>4 DEF TakenBy
<1> QED BY <1>5, <1>6 DEF Follow

\* All of this holds of a flow's graph as long as it is edited, whatever the edits.
THEOREM DrawnTheorem ==
  ASSUME NEW CONSTANT s, NEW CONSTANT names, NEW CONSTANT labels, NEW VARIABLE drawn
  PROVE  drawn = NewGraph(s) /\ [][drawn' \in Edited(drawn, names, labels)]_drawn =>
           [](/\ Whole(drawn) /\ UnseenIsAnIntent(drawn)
              /\ SavedIsNearlyValid(drawn) /\ IdleIsIdle(drawn))
<1> DEFINE Good == IsCanvas(drawn) /\ Whole(drawn)
           Step == drawn' \in Edited(drawn, names, labels)
           Said == /\ Whole(drawn) /\ UnseenIsAnIntent(drawn)
                   /\ SavedIsNearlyValid(drawn) /\ IdleIsIdle(drawn)
<1>1. drawn = NewGraph(s) => Good
  BY NewGraphTheorem
<1>2. Good /\ [Step]_drawn => Good'
  <2>1. ASSUME Good, Step PROVE IsCanvas(drawn') /\ Whole(drawn')
    BY <2>1, CanvasTheorem
  <2>2. CASE UNCHANGED drawn
    BY <2>2
  <2> QED BY <2>1, <2>2
<1>3. Good => Said
  <2> SUFFICES ASSUME Good PROVE Said
    OBVIOUS
  <2> QED BY UnseenTheorem, SavedTheorem, IdleTheorem
<1> QED BY <1>1, <1>2, <1>3, PTL

=============================================================================
