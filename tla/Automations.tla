----------------------------- MODULE Automations -----------------------------
(***************************************************************************)
(* Automations: rules that answer, tag, assign or change the status of a   *)
(* conversation when an incoming message matches their trigger.            *)
(*                                                                         *)
(* AutomationsEngine.evaluate reads the enabled rules once, in the order   *)
(* of their priority, and takes the first that matches and is not cooling  *)
(* down.  Its actions are transactions of their own, one after the other;  *)
(* what it assigns and the status it sets are written at the end, with the *)
(* count of the rule.  An error in the middle ends the rule, and the       *)
(* message counts as handled.  Meanwhile people edit the rules, and other  *)
(* messages of the contact are handled.                                    *)
(*                                                                         *)
(* The text of a message is what the matcher asks of it: the keywords it   *)
(* contains and the one it equals, both after normalizeText.               *)
(***************************************************************************)
EXTENDS Conversation, Sequences

CONSTANTS
  Messages,     (* the incoming messages, one handler each                 *)
  Content,      (* Content[m]: kind, keywords, newness of the message      *)
  Rules,        (* the names of rules, numbers in the order of createdAt   *)
  Definitions,  (* what a rule may say: trigger, actions, priority, ...    *)
  FirstRules,   (* the sets of rules there may be at first                 *)
  Gone          (* what is left of a rule that was removed                 *)

\* triggerSchema, actionSchema and the definition made of them
Trigger ==
  [type : {"any_message", "story_reply", "reaction", "new_contact"}]
    \union [type : {"keyword"}, keywords : SUBSET STRING, match : {"contains", "exact"}]
Action ==
  [type : {"reply"}]
    \union [type : {"add_tag"}, tag : Tags]
    \union [type : {"assign"}, user : Users]
    \union [type : {"set_status"}, status : Status]
Definition ==
  [trigger : Trigger, actions : Seq(Action), priority : Nat, cooldown : BOOLEAN,
   here : BOOLEAN]

ASSUME AutomationsAssumption ==
  /\ Rules \subseteq Nat
  /\ FirstRules \subseteq [Rules -> Definitions \union {None}]
  /\ None \notin Definitions /\ Gone \notin Definitions
  /\ None \notin Rules
  /\ Definitions \subseteq Definition
  /\ \A d \in Definitions : Len(d.actions) \in 1..5

VARIABLES
  rule,      (* rule[u]: the definition of rule u; None before it is there *)
  enabled,   (* the rules whose enabled is set                             *)
  toggling,  (* toggles between their read and their write, with the value *)
  cooling,   (* the rules with a cooldown key for the contact in Redis     *)
  burst,     (* burst[u]: the messages u acted on since its key expired    *)
  step,      (* step[m]: where evaluate is with message m                  *)
  todo,      (* todo[m]: the rules it has still to consider, as read       *)
  doing,     (* doing[m]: what the chosen rule has still to do             *)
  pending,   (* pending[m]: the assignee and the status to write at the end*)
  fired,     (* fired[m]: the rules that were executed for m               *)
  replied,   (* the messages a rule has queued a reply to                  *)
  open       (* the messages whose conversation, as read, has its window   *)

ruleVars == <<rule, enabled, toggling>>
evalVars == <<step, todo, doing, pending, fired, replied>>
autoVars == <<ruleVars, cooling, burst, evalVars, open>>

-----------------------------------------------------------------------------
Step == {"new", "rules", "match", "act", "handled", "passed", "away", "dead"}
Unsaid == [assignee |-> None, status |-> None]
Chosen == [id : Rules, def : Definitions]
Doing == [id : Rules, actions : Seq(Action)]
Pending == [assignee : Users \union {None}, status : Status \union {None}]

AutoTypeOK ==
  /\ rule \in [Rules -> Definitions \union {None, Gone}]
  /\ enabled \subseteq {u \in Rules : rule[u] \in Definitions}
  /\ toggling \subseteq Rules \X BOOLEAN
  /\ cooling \subseteq Rules
  /\ burst \in [Rules -> SUBSET Messages]
  /\ step \in [Messages -> Step]
  /\ todo \in [Messages -> SUBSET Chosen]
  /\ doing \in [Messages -> Doing \union {None}]
  /\ pending \in [Messages -> Pending]
  /\ fired \in [Messages -> SUBSET Rules]
  /\ \A m \in Messages :
       step[m] = "act" => doing[m] \in Doing /\ doing[m].id \in fired[m]
  /\ replied \subseteq Messages
  /\ open \subseteq Messages

AutoInit ==
  /\ rule \in FirstRules
  /\ enabled = {u \in Rules : rule[u] # None}
  /\ toggling = {}
  /\ cooling = {} /\ burst = [u \in Rules |-> {}]
  /\ step = [m \in Messages |-> "new"]
  /\ todo = [m \in Messages |-> {}]
  /\ doing = [m \in Messages |-> None]
  /\ pending = [m \in Messages |-> Unsaid]
  /\ fired = [m \in Messages |-> {}]
  /\ replied = {}
  /\ open = Messages

-----------------------------------------------------------------------------
(* Matching. *)

\* matchesTrigger
Matches(trigger, c) ==
  CASE trigger.type = "any_message" -> c.kind \in {"message", "story_reply"}
    [] trigger.type = "keyword" /\ trigger.match = "exact" ->
         c.equals \in trigger.keywords
    [] trigger.type = "keyword" /\ trigger.match = "contains" ->
         c.contains \intersect trigger.keywords # {}
    [] trigger.type = "new_contact" -> c.isNewContact
    [] OTHER -> c.kind = trigger.type

\* The enabled rules of the channel, as they are now.
Applicable ==
  {[id |-> u, def |-> rule[u]] : u \in {v \in enabled : rule[v].here}}

\* By priority, and then by age.
Earlier(a, b) ==
  \/ a.def.priority < b.def.priority
  \/ a.def.priority = b.def.priority /\ a.id < b.id

-----------------------------------------------------------------------------
(* evaluate. *)

ReadRules(m) ==
  /\ step[m] = "rules"
  /\ step' = [step EXCEPT ![m] = "match"]
  /\ todo' = [todo EXCEPT ![m] = Applicable]
  /\ UNCHANGED <<ruleVars, cooling, burst, doing, pending, fired, replied, open>>

\* Rule c is the one to consider, and it fits.
IsNext(m, c) ==
  /\ step[m] = "match" /\ c \in todo[m]
  /\ \A o \in todo[m] : ~Earlier(o, c)
Fits(m, c) == Matches(c.def.trigger, Content[m])

PassOver(m, c) ==
  /\ IsNext(m, c)
  /\ Fits(m, c) => c.def.cooldown /\ c.id \in cooling
  /\ todo' = [todo EXCEPT ![m] = @ \ {c}]
  /\ UNCHANGED <<ruleVars, cooling, burst, step, doing, pending, fired, replied,
                 open>>

\* The rule is chosen: execute begins.
Begin(m, c) ==
  /\ IsNext(m, c) /\ Fits(m, c)
  /\ step' = [step EXCEPT ![m] = "act"]
  /\ doing' = [doing EXCEPT ![m] = [id |-> c.id, actions |-> c.def.actions]]
  /\ fired' = [fired EXCEPT ![m] = @ \union {c.id}]
  /\ UNCHANGED <<ruleVars, todo, pending, replied, open>>

\* As if the cooldown key were set without NX.
FireAnyway(m, c) ==
  /\ Begin(m, c)
  /\ cooling' = cooling \union {c.id}
  /\ burst' = [burst EXCEPT ![c.id] = @ \union {m}]

\* passesCooldown: SET NX makes the key, and only one of two makes it.
Fire(m, c) ==
  /\ Begin(m, c)
  /\ IF c.def.cooldown
     THEN /\ c.id \notin cooling
          /\ cooling' = cooling \union {c.id}
          /\ burst' = [burst EXCEPT ![c.id] = @ \union {m}]
     ELSE UNCHANGED <<cooling, burst>>

\* Redis does not answer: rather once too often than not at all.
FireWithoutRedis(m, c) ==
  /\ Begin(m, c)
  /\ c.def.cooldown
  /\ cooling' \in {cooling, cooling \union {c.id}}
  /\ UNCHANGED burst

NothingFits(m) ==
  /\ step[m] = "match" /\ todo[m] = {}
  /\ step' = [step EXCEPT ![m] = "passed"]
  /\ UNCHANGED <<ruleVars, cooling, burst, todo, doing, pending, fired, replied,
                 open>>

-----------------------------------------------------------------------------
(* execute: one action after the other. *)

Acting(m, type) ==
  /\ step[m] = "act" /\ doing[m].actions # <<>>
  /\ Head(doing[m].actions).type = type
Proceed(m) == doing' = [doing EXCEPT ![m].actions = Tail(@)]

\* sendAsAutomation, which is silent when the window has closed meanwhile
Reply(m) ==
  /\ Acting(m, "reply") /\ Proceed(m)
  /\ replied' = IF m \in open THEN replied \union {m} ELSE replied
  /\ UNCHANGED <<rowVars, ruleVars, cooling, burst, step, todo, pending, fired,
                 open>>

TagIt(m) ==
  /\ Acting(m, "add_tag") /\ Proceed(m)
  /\ PutTag(Head(doing[m].actions).tag)
  /\ UNCHANGED <<mode, status, assignee, ruleVars, cooling, burst, step, todo,
                 pending, fired, replied, open>>

\* assign and set_status are kept for the end.
Keep(m) ==
  /\ \/ /\ Acting(m, "assign")
        /\ pending' = [pending EXCEPT ![m].assignee = Head(doing[m].actions).user]
     \/ /\ Acting(m, "set_status")
        /\ pending' = [pending EXCEPT ![m].status = Head(doing[m].actions).status]
  /\ Proceed(m)
  /\ UNCHANGED <<rowVars, ruleVars, cooling, burst, step, todo, fired, replied, open>>

\* The end of evaluate, and of what it remembers.
EndRules(m, how) ==
  /\ step' = [step EXCEPT ![m] = how]
  /\ todo' = [todo EXCEPT ![m] = {}]
  /\ doing' = [doing EXCEPT ![m] = None]
  /\ pending' = [pending EXCEPT ![m] = Unsaid]

\* The last transaction: the count of the rule, if it still has a row, and
\* what was kept.  Without the row all of it is taken back.
Or(new, old) == IF new = None THEN old ELSE new
Finish(m) ==
  /\ step[m] = "act" /\ doing[m].actions = <<>>
  /\ EndRules(m, "handled")
  /\ IF rule[doing[m].id] \in Definitions
     THEN /\ assignee' = Or(pending[m].assignee, assignee)
          /\ status' = Or(pending[m].status, status)
          /\ UNCHANGED <<mode, tagged>>
     ELSE UNCHANGED rowVars
  /\ UNCHANGED <<ruleVars, cooling, burst, fired, replied, open>>

\* As if the catch in evaluate returned false.
BreakUnhandled(m) ==
  /\ step[m] = "act"
  /\ EndRules(m, "passed")
  /\ UNCHANGED <<rowVars, ruleVars, cooling, burst, fired, replied, open>>

\* A step fails.  What was done stays, the rest is not done, and the message
\* counts as handled.
Break(m) ==
  /\ step[m] = "act"
  /\ EndRules(m, "handled")
  /\ UNCHANGED <<rowVars, ruleVars, cooling, burst, fired, replied, open>>

\* The read of the rules fails, which is outside the try; or the process dies.
Abandon(m) ==
  /\ step[m] \in {"rules", "match", "act"}
  /\ EndRules(m, "dead")
  /\ UNCHANGED <<ruleVars, cooling, burst, fired, replied, open>>

-----------------------------------------------------------------------------
(* The rules and their keys. *)

\* The window of the conversation as a handler read it comes to its end.
WindowEnds(m) ==
  /\ m \in open
  /\ open' = open \ {m}
  /\ UNCHANGED <<ruleVars, cooling, burst, evalVars>>

KeyExpires(u) ==
  /\ u \in cooling
  /\ cooling' = cooling \ {u}
  /\ burst' = [burst EXCEPT ![u] = {}]
  /\ UNCHANGED <<ruleVars, evalVars, open>>

\* validateReferences
Valid(d) ==
  \A i \in DOMAIN d.actions :
    /\ d.actions[i].type = "add_tag" => d.actions[i].tag \in tags
    /\ d.actions[i].type = "assign" => d.actions[i].user \in members

\* AutomationsService.create, update
Create(u, d) ==
  /\ rule[u] = None /\ Valid(d)
  /\ rule' = [rule EXCEPT ![u] = d]
  /\ enabled' = enabled \union {u}
  /\ UNCHANGED <<toggling, cooling, burst, evalVars, open>>

Update(u, d, on) ==
  /\ rule[u] \in Definitions
  /\ d # rule[u] => Valid(d)
  /\ rule' = [rule EXCEPT ![u] = d]
  /\ enabled' = IF on THEN enabled \union {u} ELSE enabled \ {u}
  /\ UNCHANGED <<toggling, cooling, burst, evalVars, open>>

\* toggle reads and writes the opposite.
Toggle(u) ==
  /\ rule[u] \in Definitions
  /\ toggling' = toggling \union {<<u, u \notin enabled>>}
  /\ UNCHANGED <<rule, enabled, cooling, burst, evalVars, open>>
ToggleWrite(u, on) ==
  /\ <<u, on>> \in toggling
  /\ toggling' = toggling \ {<<u, on>>}
  /\ enabled' = IF rule[u] \notin Definitions THEN enabled
                ELSE IF on THEN enabled \union {u} ELSE enabled \ {u}
  /\ UNCHANGED <<rule, cooling, burst, evalVars, open>>

RemoveRule(u) ==
  /\ rule[u] \in Definitions
  /\ rule' = [rule EXCEPT ![u] = Gone]
  /\ enabled' = enabled \ {u}
  /\ UNCHANGED <<toggling, cooling, burst, evalVars, open>>

\* What evaluate does with m that leaves the row of the conversation alone,
\* what it does to the row, and what people do to the rules.
Evaluate(m) ==
  \/ ReadRules(m) \/ NothingFits(m) \/ Abandon(m) \/ WindowEnds(m)
  \/ \E c \in todo[m] :
       PassOver(m, c) \/ Fire(m, c) \/ FireWithoutRedis(m, c)
Execute(m) == Reply(m) \/ TagIt(m) \/ Keep(m) \/ Finish(m) \/ Break(m)
EditRules ==
  \E u \in Rules :
    \/ RemoveRule(u) \/ Toggle(u)
    \/ \E d \in Definitions :
         Create(u, d) \/ \E on \in BOOLEAN : Update(u, d, on)

-----------------------------------------------------------------------------
(* Properties. *)

\* While the cooldown key of a rule lives, the rule has acted on one message of
\* the contact at most, however many are handled at the same time and whatever
\* happens to the rule meanwhile.  (passesCooldown; Redis must answer.)
CooldownHolds == \A u \in Rules : Cardinality(burst[u]) <= 1

=============================================================================
