--------------------------- MODULE FlowSimulator ---------------------------
(***************************************************************************)
(* The sandbox of a flow: FlowSimulatorService walks a draft with the      *)
(* interpreter of the real flows and with answers that are given in        *)
(* advance, and shows the nodes that it went through.                      *)
(*                                                                         *)
(* A walk is a record: its status ("walk" while it goes on), the node it   *)
(* is at, the steps that are counted and the nodes that were recorded.     *)
(* The interpreter may find one of several connections, a condition and    *)
(* the AI may go either way: a simulation has a set of outcomes.           *)
(***************************************************************************)
EXTENDS FlowGraph, Naturals, Sequences
LOCAL INSTANCE SequencesExt

CONSTANT MaxSteps  (* MAX_STEPS *)

Iterate(Op(_), n, S) == FoldLeft(LAMBDA T, i : UNION {Op(x) : x \in T}, S, [i \in 1..n |-> i])

-----------------------------------------------------------------------------
(* FlowInterpreter *)

Ends(w, status) == {[w EXCEPT !.status = status, !.node = None]}
Stays(w, status) == {[w EXCEPT !.status = status]}
Goes(w, nodes) == {[w EXCEPT !.node = n] : n \in nodes}

\* What one more step makes of the walk w.
Step(g, w) ==
  LET n == w.node
      seen == [w EXCEPT !.count = @ + 1, !.trace = Append(@, n)] IN
  CASE w.status # "walk" -> {w}
    [] w.status = "walk" /\ n = None -> Ends(w, "completed")
    [] w.status = "walk" /\ n # None /\ (w.count >= MaxSteps \/ n \notin NodesOf(g)) -> Ends(w, "failed")
    [] OTHER ->
       CASE g.kind[n] \in {"transfer", "end"} -> Ends(seen, "completed")
         [] g.kind[n] = "question" -> Stays(seen, "waiting_input")
         [] g.kind[n] = "wait" -> Stays(seen, "waiting_timer")
         [] g.kind[n] = "ai" -> Goes(seen, AfterAi(g, n)) \union Ends(seen, "completed")
         [] g.kind[n] = "start" -> Goes([w EXCEPT !.count = @ + 1], Follow(g, n, "default"))
         [] OTHER -> Goes(seen, UNION {Follow(g, n, h) : h \in Branches(g.kind[n])})

\* walk: as far as it goes without an answer.
Walk(g, ws) == Iterate(LAMBDA w : Step(g, w), MaxSteps + 2, ws)

StartWalk(g) ==
  LET new == [status |-> "walk", node |-> None, count |-> 0, trace |-> <<>>] IN
  Walk(g, IF Starts(g) = {} THEN Ends(new, "failed")
          ELSE UNION {Goes(new, Follow(g, s, "default")) : s \in Starts(g)})

\* resumeWithAnswer, of an answer that is valid or not; count is the
\* startingSteps of the interpreter.
Resume(g, w, valid, count) ==
  LET seen == [w EXCEPT !.trace = Append(@, w.node), !.count = count] IN
  IF valid
  THEN Walk(g, UNION {Goes([seen EXCEPT !.status = "walk"], Follow(g, w.node, h)) : h \in Answers(g, w.node)})
  ELSE {seen}

-----------------------------------------------------------------------------
(* FlowSimulatorService.simulate: an answer is used only by a walk that     *)
(* waits for one, and every answer has all the steps again.                 *)

Simulate(g, answers) ==
  FoldLeft(LAMBDA ws, valid : UNION {IF w.status = "waiting_input" THEN Resume(g, w, valid, 0) ELSE {w} : w \in ws},
           StartWalk(g), answers)

\* The engine goes on with the steps that are stored with the execution.
Execute(g, answers) ==
  FoldLeft(LAMBDA ws, valid : UNION {IF w.status = "waiting_input" THEN Resume(g, w, valid, w.count) ELSE {w} : w \in ws},
           StartWalk(g), answers)

-----------------------------------------------------------------------------
(* Properties. *)

Shown(ws) == {[status |-> w.status, node |-> w.node, trace |-> w.trace] : w \in ws}
NotFailed(ws) == {w \in ws : w.status # "failed"}

\* What a flow may do with the users, up to its first timer, is what the sandbox
\* shows, as long as it does not fail.
\* (flow-simulator.service.ts: the same interpreter)
SimulationIsComplete(g, answers) ==
  Shown(NotFailed(Execute(g, answers))) \subseteq Shown(NotFailed(Simulate(g, answers)))

\* A simulation ends at the first timer, or where there is no answer left.
\* (flow-simulator.service.ts: the loop over the messages)
StopsAtTheFirstTimer(g, answers) ==
  \A w \in Simulate(g, answers) : \A i \in DOMAIN w.trace :
    g.kind[w.trace[i]] = "wait" => w.status = "waiting_timer" /\ i = Len(w.trace)

\* A valid graph fails in the sandbox only by its steps: it has every node that
\* a connection leads to.
\* (flow-graph.schema.ts: validateGraph; flow-interpreter.ts: fail)
ValidFailsByStepsOnly(g, answers) ==
  Valid(g) => \A w \in Simulate(g, answers) : w.status = "failed" => w.count = MaxSteps

=============================================================================
