---------------------------- MODULE MCFlowEngine ----------------------------
(* FlowEngine for TLC: two versions that may be published, and two drafts    *)
(* that may not.  All give the same names to nodes of other types.           *)
(* The sandbox is tried on each, and on a loop of questions.                  *)
EXTENDS FlowEngine

CONSTANTS long, short, untimed, dangling

MCVersions == {long, short, untimed, dangling}

Edge(from, by, to) == [from |-> from, by |-> by, to |-> to]
NoOptions(kind) == [n \in DOMAIN kind |-> {}]

\* A question, a wait and the AI, and round again for one intent; another, or an
\* expired window, leads to a person.  Without an intent the flow is over.
Long ==
  LET kind == [s |-> "start", a |-> "question", b |-> "wait", c |-> "ai",
               d |-> "transfer"]
  IN [kind |-> kind,
      edges |-> {Edge("s", "default", "a"), Edge("a", "default", "b"),
                 Edge("b", "default", "c"), Edge("b", "closed", "d"),
                 Edge("c", "again", "a"), Edge("c", "complaint", "d")},
      options |-> NoOptions(kind),
      timed |-> {"b"}, blank |-> {}]

\* A condition, and a message on one of its branches that leads back to it.
Short ==
  LET kind == [s |-> "start", a |-> "condition", b |-> "message", d |-> "end"]
  IN [kind |-> kind,
      edges |-> {Edge("s", "default", "a"), Edge("a", "default", "b"),
                 Edge("b", "default", "a"), Edge("a", "false", "d")},
      options |-> NoOptions(kind),
      timed |-> {}, blank |-> {}]

\* A wait without a duration.
Untimed ==
  LET kind == [s |-> "start", a |-> "wait", d |-> "end"]
  IN [kind |-> kind,
      edges |-> {Edge("s", "default", "a"), Edge("a", "default", "d")},
      options |-> NoOptions(kind),
      timed |-> {}, blank |-> {}]

\* A connection to a node that is not there.
Dangling ==
  LET kind == [s |-> "start"]
  IN [kind |-> kind,
      edges |-> {Edge("s", "default", "a")},
      options |-> NoOptions(kind),
      timed |-> {}, blank |-> {}]

MCGraphOf == [v \in MCVersions |->
                CASE v = long -> Long
                  [] v = short -> Short
                  [] v = untimed -> Untimed
                  [] v = dangling -> Dangling]

-----------------------------------------------------------------------------
(* The sandbox *)

S == INSTANCE FlowSimulator

\* A question that is asked again and again, and a message in between.
Loop ==
  LET kind == [s |-> "start", a |-> "question", b |-> "message", d |-> "end"]
  IN [kind |-> kind,
      edges |-> {Edge("s", "default", "a"), Edge("a", "yes", "b"), Edge("b", "default", "a"),
                 Edge("a", "no", "d")},
      options |-> [NoOptions(kind) EXCEPT !["a"] = {"yes", "no"}],
      timed |-> {}, blank |-> {}]

Sandboxes == {Long, Short, Untimed, Dangling, Loop}
AnswerLists == UNION {[1..n -> BOOLEAN] : n \in 0..4}

ASSUME SimulationHolds ==
  \A g \in Sandboxes, list \in AnswerLists :
    /\ S!SimulationIsComplete(g, list)
    /\ S!StopsAtTheFirstTimer(g, list)
    /\ S!ValidFailsByStepsOnly(g, list)

\* The sandbox promises more than the engine does: with enough answers a loop of
\* questions fails in the engine, by its steps, where it goes on in the sandbox.
ASSUME SandboxForgetsSteps ==
  LET list == [i \in 1..MaxSteps |-> TRUE] IN
  /\ \E w \in S!Execute(Loop, list) : w.status = "failed"
  /\ \A w \in S!Simulate(Loop, list) : w.status # "failed"

-----------------------------------------------------------------------------
(* The canvas *)

C == INSTANCE FlowCanvas

\* A question with options whose "invalid" leads to a message: it may be
\* published, and no answer ever brings the message.
Retry ==
  LET kind == [s |-> "start", a |-> "question", b |-> "message", d |-> "end"]
  IN [kind |-> kind,
      edges |-> {Edge("s", "default", "a"), Edge("a", "yes", "d"), Edge("a", "invalid", "b"),
                 Edge("b", "default", "d")},
      options |-> [NoOptions(kind) EXCEPT !["a"] = {"yes"}],
      intents |-> NoOptions(kind), timed |-> {}, blank |-> {}, routed |-> {}, refused |-> {}]

\* The AI, routed by an intent, and a condition.
Routed ==
  LET kind == [s |-> "start", a |-> "ai", b |-> "condition", d |-> "end"]
  IN [kind |-> kind,
      edges |-> {Edge("s", "default", "a"), Edge("a", "yes", "d"), Edge("a", "default", "b"),
                 Edge("b", "true", "d"), Edge("b", "false", "a")},
      options |-> NoOptions(kind), intents |-> [NoOptions(kind) EXCEPT !["a"] = {"yes"}],
      timed |-> {}, blank |-> {}, routed |-> {"a"}, refused |-> {}]

\* The graphs that so many edits may make of these, or of a new flow.
More(graphs) == graphs \union UNION {C!Edited(g, {"a", "b"}, {"yes", "true"}) : g \in graphs}
Drawn[n \in 0..4] == IF n = 0 THEN {C!NewGraph("s")} ELSE More(Drawn[n - 1])
Redrawn == More(More(More({Retry, Routed})))

ASSUME CanvasHolds ==
  \A g \in Drawn[4] \union Redrawn :
    C!Whole(g) /\ C!UnseenIsAnIntent(g) /\ C!SavedIsNearlyValid(g) /\ C!IdleIsIdle(g)

\* The connection of an intent that was taken off the panel's list is followed,
\* in a flow that may be published, and is not drawn.
ASSUME RemovedIntentIsTaken ==
  \E g \in Redrawn : C!Savable(g) /\ Valid(g) /\ C!Unseen(g) \intersect C!Taken(g) # {}

\* A text that was deleted is no reason not to save, only not to publish.
ASSUME BlankIsSavable ==
  \E g \in Redrawn : /\ C!Savable(g) /\ ~Valid(g)
                     /\ \A n \in NodesOf(g) : Connected(g, n) /\ AllReachable(g)

ASSUME InvalidIsNotTaken ==
  /\ C!Savable(Retry) /\ Valid(Retry)
  /\ \A list \in AnswerLists : \A w \in S!Simulate(Retry, list) :
       \A i \in DOMAIN w.trace : w.trace[i] # "b"
  /\ \A list \in AnswerLists : S!Simulate(Retry, list) = S!Simulate(C!Pruned(Retry), list)

\* A call from the palette cannot be saved before its url is there.
ASSUME PaletteIsNotSavable == \E g \in Drawn[1] : ~C!Savable(g)
=============================================================================
