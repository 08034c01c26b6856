------------------------------- MODULE Answers -------------------------------
(***************************************************************************)
(* How an incoming message is answered: InboundProcessor.route hands it to *)
(* the automations, the flows and the AI in turn, while agents work on the *)
(* same conversation and owners change rules, tags, members and profile.   *)
(*                                                                         *)
(* The flows are in FlowEngine; here they take a message or they do not.   *)
(***************************************************************************)
EXTENDS Automations, AiReply

ASSUME AnswersAssumption == Calls = Messages

vars == <<inboxVars, autoVars, aiVars>>

TypeOK == InboxTypeOK /\ AutoTypeOK /\ AiTypeOK

Init == InboxInit /\ AutoInit /\ AiInit

-----------------------------------------------------------------------------
(* The handler of a message. *)

\* handleEvent stores message m, which opens the conversation again, and route
\* begins with the mode it has read.  A flow that waits for an answer takes it.
Receive(m) ==
  /\ step[m] = "new"
  /\ status' = "open"
  /\ \/ mode = "human" /\ step' = [step EXCEPT ![m] = "away"]
     \/ mode = "ai" /\ step' \in {[step EXCEPT ![m] = s] : s \in {"away", "rules"}}
  /\ UNCHANGED <<mode, assignee, tagged, members, tags, asked, moves, ruleVars,
                 cooling, burst, todo, doing, pending, fired, replied, open,
                 aiVars>>

\* No rule has taken it.  A flow does, or it has no text, or its window has
\* closed already ...
TakeElsewhere(m) ==
  /\ step[m] = "passed"
  /\ step' = [step EXCEPT ![m] = "away"]
  /\ UNCHANGED <<inboxVars, ruleVars, cooling, burst, todo, doing, pending,
                 fired, replied, open, aiVars>>

\* ... or the AI is asked.
AskAi(m) ==
  /\ step[m] = "passed" /\ m \in open
  /\ StartReply(m)
  /\ step' = [step EXCEPT ![m] = "away"]
  /\ UNCHANGED <<inboxVars, ruleVars, cooling, burst, todo, doing, pending,
                 fired, replied, open>>

RulesStep(m) ==
  \/ Evaluate(m) /\ UNCHANGED <<inboxVars, aiVars>>
  \/ Execute(m) /\ UNCHANGED <<members, tags, asked, moves, aiVars>>

AiStep(m) ==
  /\ \/ LoadProfile(m) \/ AiAnswers(m) \/ GiveUp(m) \/ Charge(m)
     \/ GiveToPerson(m) \/ WriteNote(m) \/ Send(m, m \in open)
  /\ UNCHANGED <<members, tags, asked, moves, autoVars>>

-----------------------------------------------------------------------------
(* People and time. *)

Inbox == InboxNext /\ UNCHANGED <<autoVars, aiVars>>

Settings ==
  /\ Move
  /\ UNCHANGED <<rowVars, members, tags, asked>>
  /\ \/ EditRules /\ UNCHANGED aiVars
     \/ /\ \E on \in BOOLEAN, b \in Budgets : UpdateProfile(on, b)
        /\ UNCHANGED autoVars

Later ==
  /\ \E u \in Rules : KeyExpires(u) \/ \E on \in BOOLEAN : ToggleWrite(u, on)
  /\ UNCHANGED <<inboxVars, aiVars>>

Next ==
  \/ \E m \in Messages :
       Receive(m) \/ TakeElsewhere(m) \/ AskAi(m) \/ RulesStep(m) \/ AiStep(m)
  \/ Inbox \/ Settings \/ Later

Spec == Init /\ [][Next]_vars

-----------------------------------------------------------------------------
(* Properties. *)

\* A message is answered by one voice: one rule at most acts on it, and the AI
\* is not asked about a message that a rule has acted on, even if the rule
\* failed in the middle.  (evaluate: "para que la IA no responda encima")
OneVoice ==
  \A m \in Messages :
    /\ Cardinality(fired[m]) <= 1
    /\ fired[m] # {} => at[m] = "off"

=============================================================================
