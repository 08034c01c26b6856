----------------------------- MODULE FlowGraph -----------------------------
(***************************************************************************)
(* The graph of a flow: where its interpreter goes from a node, and what   *)
(* validateGraph demands of a graph before it may be published.            *)
(*                                                                         *)
(* A graph is a record:                                                    *)
(*   kind     its nodes, each with its type                                *)
(*   edges    its connections [from, by, to]; by is the sourceHandle, and  *)
(*            a missing one is "default"                                   *)
(*   options  the answers an option question offers, {} for other nodes    *)
(*            (without any it takes no answer; here it takes every one)    *)
(*   timed    the "wait" nodes that have a duration                        *)
(*   blank    the messages and questions without a text, the conditions    *)
(*            without a variable                                           *)
(* Of two connections with one source and one handle the code follows the  *)
(* first of its array; here it may be either.                              *)
(***************************************************************************)
EXTENDS FiniteSets

CONSTANT None   (* no node *)

NodeType ==
  {"start", "message", "question", "condition", "variable", "tag", "ai",
   "wait", "webhook", "api", "transfer", "end"}

NodesOf(g) == DOMAIN g.kind
Starts(g) == {n \in NodesOf(g) : g.kind[n] = "start"}

-----------------------------------------------------------------------------
(* FlowInterpreter.nextNode *)

Through(g, n, h) == {e.to : e \in {d \in g.edges : d.from = n /\ d.by = h}}

OrNone(nodes) == IF nodes = {} THEN {None} ELSE nodes

\* Where handle h of node n may lead; a branch "true" falls back on "default".
Follow(g, n, h) ==
  OrNone(IF h = "true" /\ Through(g, n, h) = {}
           THEN Through(g, n, "default")
           ELSE Through(g, n, h))

\* The handles by which a node with nothing to ask or to wait for is left.
Branches(type) == IF type = "condition" THEN {"true", "false"} ELSE {"default"}

\* The branches that the valid answers to question n take.
Answers(g, n) == IF g.options[n] = {} THEN {"default"} ELSE g.options[n]

\* An AI node may be left by the handle of any intent, else by "default".
AfterAi(g, n) ==
  {e.to : e \in {d \in g.edges : d.from = n}} \union Follow(g, n, "default")

-----------------------------------------------------------------------------
(* validateGraph *)

NoDangling(g) == \A e \in g.edges : {e.from, e.to} \subseteq NodesOf(g)

Handles(g, n) == {e.by : e \in {d \in g.edges : d.from = n}}

\* What the switch over the types demands: a text or a variable, a duration, and
\* of the connections of node n.
Filled(g, n) == g.kind[n] \in {"message", "question", "condition"} => n \notin g.blank
Timed(g, n) == g.kind[n] = "wait" => n \in g.timed

Connected(g, n) ==
  CASE g.kind[n] \in {"end", "transfer"} -> TRUE
    [] g.kind[n] = "condition" -> Handles(g, n) \intersect {"true", "default"} # {}
    [] g.kind[n] = "question" -> /\ Handles(g, n) # {}
                                 /\ g.options[n] \subseteq Handles(g, n)
    [] OTHER -> Handles(g, n) # {}

\* No set of nodes that has the start and is closed under the connections
\* leaves a node out.
AllReachable(g) ==
  \A seen \in SUBSET NodesOf(g) :
    (/\ Starts(g) \subseteq seen
     /\ \A e \in g.edges : e.from \in seen => e.to \in seen) => seen = NodesOf(g)

\* (A fault for checking: a wait may come without a duration.)
ValidUntimed(g) ==
  /\ Cardinality(Starts(g)) = 1
  /\ NoDangling(g)
  /\ \A n \in NodesOf(g) : Connected(g, n) /\ Filled(g, n)
  /\ AllReachable(g)

\* A graph that may be published.
Valid(g) ==
  /\ Cardinality(Starts(g)) = 1
  /\ NoDangling(g)
  /\ \A n \in NodesOf(g) : Connected(g, n) /\ Filled(g, n) /\ Timed(g, n)
  /\ AllReachable(g)
=============================================================================
