----------------------------- MODULE FlowCanvas -----------------------------
(***************************************************************************)
(* The canvas of the flow editor: what the palette, the connections, the   *)
(* panel of a node and the keyboard make of the graph of a new flow.       *)
(*                                                                         *)
(* A graph of the canvas has three fields more than those of FlowGraph:    *)
(*   routed   the AI nodes with route_by_intent                            *)
(*   intents  the intents an AI node lists, {} for other nodes             *)
(*   refused  the nodes whose data graphSchema refuses: a url or a tag     *)
(*            that is "", a wait whose seconds are not a number from 1     *)
(* Texts and names keep to the lengths that graphSchema allows.            *)
(***************************************************************************)
EXTENDS FlowGraph

\* defaultGraph: the graph of a flow that has just been created.
NewGraph(s) ==
  [kind |-> [n \in {s} |-> "start"], edges |-> {}, options |-> [n \in {s} |-> {}],
   intents |-> [n \in {s} |-> {}], timed |-> {}, blank |-> {}, routed |-> {},
   refused |-> {}]

\* PALETTE_NODES, and the types whose defaultData has a url "".
Palette == NodeType \ {"start"}
Unfilled == {"webhook", "api"}

\* outHandles: the points of node n at which a connection may begin.
Outlets(g, n) ==
  CASE g.kind[n] = "condition" -> {"true", "false"}
    [] g.kind[n] = "question" ->
         IF g.options[n] = {} THEN {"default"} ELSE g.options[n] \union {"invalid"}
    [] g.kind[n] = "wait" -> {"default", "closed"}
    [] g.kind[n] = "ai" -> {"default"} \union IF n \in g.routed THEN g.intents[n] ELSE {}
    [] g.kind[n] \in {"transfer", "end"} -> {}
    [] OTHER -> {"default"}

\* FlowNodeCard: a connection begins at an outlet, and ends anywhere but at the
\* start, which has no point for it.
MayJoin(g) ==
  [from : NodesOf(g), by : UNION {Outlets(g, n) : n \in NodesOf(g)}, to : NodesOf(g) \ Starts(g)]

-----------------------------------------------------------------------------
(* What one edit makes of graph g. *)

\* addNode, with the defaultData of its type
Add(g, n, type) ==
  LET nodes == NodesOf(g) \union {n}
      With(f, new) == [x \in nodes |-> IF x = n THEN new ELSE f[x]] IN
  [kind |-> With(g.kind, type), edges |-> g.edges,
   options |-> With(g.options, {}), intents |-> With(g.intents, {}),
   timed |-> IF type = "wait" THEN g.timed \union {n} ELSE g.timed,
   blank |-> g.blank, routed |-> g.routed,
   refused |-> IF type \in Unfilled THEN g.refused \union {n} ELSE g.refused]

\* onConnect
Joined(g) ==
  {[g EXCEPT !.edges = @ \union {e}] : e \in {d \in MayJoin(g) : d.by \in Outlets(g, d.from)}}

\* deleteNode: the connections of the node go with it.
Without(g, n) ==
  LET Rest(f) == [x \in NodesOf(g) \ {n} |-> f[x]] IN
  [kind |-> Rest(g.kind), edges |-> {e \in g.edges : n \notin {e.from, e.to}},
   options |-> Rest(g.options), intents |-> Rest(g.intents),
   timed |-> g.timed \ {n}, blank |-> g.blank \ {n}, routed |-> g.routed \ {n},
   refused |-> g.refused \ {n}]

\* The Backspace key takes away a connection, or any node: the start, too.
Disjoined(g) == {[g EXCEPT !.edges = @ \ {e}] : e \in g.edges}

\* The panel: the text of a message or a question, the variable of a condition.
SetText(g, n) == {[g EXCEPT !.blank = @ \ {n}], [g EXCEPT !.blank = @ \union {n}]}

\* The panel: the type of the answer and its options; the connections of an
\* option that is not there any more stay.
SetOptions(g, n, labels) == [g EXCEPT !.options[n] = labels]

\* The panel: whether an AI node is routed by intents, and then by which; here,
\* too, the connections stay.
SetRouted(g, n) == {[g EXCEPT !.routed = @ \union {n}], [g EXCEPT !.routed = @ \ {n}]}
SetIntents(g, n, labels) == [g EXCEPT !.intents[n] = labels]

\* The panel: seconds, which are refused when there are none or too many.
SetSeconds(g, n) ==
  {[g EXCEPT !.timed = @ \union {n}, !.refused = @ \ {n}],
   [g EXCEPT !.timed = @ \union {n}, !.refused = @ \union {n}],
   [g EXCEPT !.timed = @ \ {n}, !.refused = @ \union {n}]}

\* The panel: the url of a call, the tag to apply.
SetTarget(g, n) == {[g EXCEPT !.refused = @ \ {n}], [g EXCEPT !.refused = @ \union {n}]}

\* The panel of a node, by its type.
Configured(g, n, labels) ==
  CASE g.kind[n] = "question" ->
         SetText(g, n) \union {SetOptions(g, n, some) : some \in SUBSET labels}
    [] g.kind[n] \in {"message", "condition"} -> SetText(g, n)
    [] g.kind[n] = "ai" ->
         SetRouted(g, n) \union {SetIntents(g, n, some) : some \in {l \in SUBSET labels : n \in g.routed}}
    [] g.kind[n] = "wait" -> SetSeconds(g, n)
    [] g.kind[n] \in {"webhook", "api", "tag"} -> SetTarget(g, n)
    [] OTHER -> {}

\* All that one edit may make of g, with these names for nodes and branches.
Edited(g, names, labels) ==
  {Add(g, n, type) : n \in names \ NodesOf(g), type \in Palette}
    \union Joined(g) \union Disjoined(g)
    \union {Without(g, n) : n \in NodesOf(g)}
    \union UNION {Configured(g, n, labels) : n \in NodesOf(g)}

-----------------------------------------------------------------------------
(* What PATCH takes, and what is said of it. *)

\* graphSchema
Savable(g) == g.refused = {}

\* The handles by which the interpreter leaves node n.  The AI names any intent,
\* listed or not.
WaysOut(g, n) ==
  CASE g.kind[n] = "question" -> Answers(g, n)
    [] g.kind[n] = "wait" -> {"default", "closed"}
    [] g.kind[n] = "ai" -> {"default"} \union IF n \in g.routed THEN Handles(g, n) ELSE {}
    [] g.kind[n] \in {"transfer", "end"} -> {}
    [] OTHER -> Branches(g.kind[n])

\* The connections that the interpreter may take, and those whose point the node
\* does not have any more, so that the canvas does not draw them.
Taken(g) ==
  {e \in g.edges : \E h \in WaysOut(g, e.from) :
     e.by = h \/ (h = "true" /\ Through(g, e.from, h) = {} /\ e.by = "default")}
Unseen(g) == {e \in g.edges : e.by \notin Outlets(g, e.from)}

\* The connections of questions that no answer takes: those of "invalid", and of
\* options that were removed or renamed.  (An option "true" may fall back on
\* "default".)
TakenBy(answers) == answers \union IF "true" \in answers THEN {"default"} ELSE {}
Idle(g) == {e \in g.edges : g.kind[e.from] = "question" /\ e.by \notin TakenBy(Answers(g, e.from))}
Pruned(g) == [g EXCEPT !.edges = @ \ Idle(g)]

-----------------------------------------------------------------------------
(* Properties. *)

\* However a graph is drawn, its connections have both their ends, it has one
\* start at most, nothing leads to it, a condition is left by "true" and "false"
\* only, and a wait without a time is refused.
\* (editor.tsx: addNode, deleteNode, onConnect; config-panel.tsx)
Whole(g) ==
  /\ NoDangling(g)
  /\ \A a, b \in Starts(g) : a = b
  /\ \A e \in g.edges : g.kind[e.to] # "start"
  /\ \A e \in g.edges : g.kind[e.from] = "condition" => e.by \in {"true", "false"}
  /\ \A n \in NodesOf(g) : g.kind[n] = "wait" => n \in g.timed \union g.refused

\* What a published flow does is what its canvas shows: the interpreter takes a
\* connection that is not drawn only for an intent that the panel does not list
\* any more.
\* (flow-node.tsx: outHandles; flow-interpreter.ts: nextNode, result.intent)
UnseenIsAnIntent(g) ==
  Valid(g) => \A e \in Unseen(g) \intersect Taken(g) :
                /\ g.kind[e.from] = "ai"
                /\ e.from \in g.routed /\ e.by \notin g.intents[e.from]

\* Of a graph that was drawn in the editor and saved validateGraph says only that
\* it has no start, that a node has no way on, no text or no variable, or that one
\* is not reached: never MULTIPLE_START, DANGLING_EDGE or WAIT_NO_TIME.
\* (flow-graph.schema.ts: validateGraph)
SavedIsNearlyValid(g) ==
  Savable(g) => (Valid(g) <=> /\ Starts(g) # {}
                              /\ \A n \in NodesOf(g) : Connected(g, n) /\ Filled(g, n)
                              /\ AllReachable(g))

\* The interpreter goes the same ways without the connections that no answer
\* takes. (flow-interpreter.ts: resumeWithAnswer never asks for "invalid")
IdleIsIdle(g) ==
  \A n \in NodesOf(g) : \A h \in WaysOut(g, n) : Follow(Pruned(g), n, h) = Follow(g, n, h)
=============================================================================
