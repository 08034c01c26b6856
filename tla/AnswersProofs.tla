---------------------------- MODULE AnswersProofs ----------------------------
(***************************************************************************)
(* Proofs about Answers, for any messages, rules, users and tags, whatever *)
(* people do meanwhile, and for any budget and price of an answer.         *)
(***************************************************************************)
EXTENDS Answers, FiniteSetTheorems, TLAPS

\* Before a rule is chosen none has acted on the message, and never do two.
FiredShape ==
  \A m \in Messages :
    /\ step[m] \in {"new", "rules", "match", "passed"} => fired[m] = {}
    /\ Cardinality(fired[m]) <= 1

\* A rule without a cooldown key has acted on nothing since the key expired.
KeyShape == \A u \in Rules \ cooling : burst[u] = {}

RulesInv ==
  /\ AutoTypeOK
  /\ FiredShape
  /\ KeyShape
  /\ CooldownHolds

\* The AI is asked only about messages that no rule has acted on.
AskedShape == \A m \in Messages : at[m] # "off" => step[m] = "away" /\ fired[m] = {}

\* A call that is to disclose nothing has found an answer of the AI ...
NoticeShape ==
  \A c \in Calls : at[c] \in {"ask", "charge", "settle"} => c \in notice \/ answered # {}

\* ... and what the first of them said is remembered.
SpokenShape == answered = {} <=> first = "none"

\* No budget is above the ceiling.
BudgetShape ==
  ceiling # Unlimited => budget \in Nat /\ ceiling \in Nat /\ budget <= ceiling

PeakShape == Cardinality(Underway) <= peak

\* Even if every call under way costs as much as it may, the overrun is bounded.
ChargeShape ==
  ceiling # Unlimited /\ (used # 0 \/ Underway # {}) =>
    used + MaxCost * Cardinality(Underway) < ceiling + MaxCost * peak

AiInv ==
  /\ AiTypeOK
  /\ NoticeShape
  /\ SpokenShape
  /\ FirstAnswerDiscloses
  /\ BudgetShape
  /\ PeakShape
  /\ ChargeShape

IInv ==
  /\ InboxTypeOK
  /\ RulesInv
  /\ AskedShape
  /\ AiInv

-----------------------------------------------------------------------------
(* Sets and products. *)

\* No element, or one.
LEMMA Few == Cardinality({}) = 0 /\ \A x : Cardinality({x}) = 1 /\ Cardinality({x}) <= 1
  BY FS_EmptySet, FS_Singleton

\* The calls under way can be counted.
LEMMA UnderwayIsFinite == IsFiniteSet(Underway) /\ Cardinality(Underway) \in Nat
<1>1. IsFiniteSet(Calls)
  BY AiAssumption
<1>2. Underway \subseteq Calls
  BY DEF Underway
<1> QED BY <1>1, <1>2, FS_Subset, FS_CardinalityType

\* What one more call, or a higher peak, adds to the bound.
LEMMA Products ==
  ASSUME NEW a \in Nat, NEW b \in Nat, NEW c \in 0..MaxCost
  PROVE  /\ MaxCost * (a + 1) = MaxCost * a + MaxCost
         /\ MaxCost * a \in Nat
         /\ a <= b => MaxCost * a <= MaxCost * b
         /\ a >= 1 => c + MaxCost * (a - 1) <= MaxCost * a
<1>1. MaxCost \in Nat
  BY AiAssumption
<1>2. MaxCost * (a + 1) = MaxCost * a + MaxCost
  BY <1>1
<1>3. MaxCost * a \in Nat
  BY <1>1
<1>4. ASSUME a <= b PROVE MaxCost * a <= MaxCost * b
  <2>1. PICK d \in Nat : b = a + d
    BY <1>4
  <2>2. MaxCost * b = MaxCost * a + MaxCost * d
    BY <1>1, <2>1
  <2>3. MaxCost * d \in Nat
    BY <1>1
  <2> QED BY <1>3, <2>2, <2>3
<1>5. ASSUME a >= 1 PROVE c + MaxCost * (a - 1) <= MaxCost * a
  <2>1. MaxCost * a = MaxCost * (a - 1) + MaxCost
    BY <1>1
  <2>2. MaxCost * (a - 1) \in Nat
    BY <1>1, <1>5
  <2> QED BY <1>1, <2>1, <2>2
<1> QED BY <1>2, <1>3, <1>4, <1>5

-----------------------------------------------------------------------------
(* What a step does not touch stays as it is. *)

LEMMA InboxStays == InboxTypeOK /\ UNCHANGED inboxVars => InboxTypeOK'
  BY DEF InboxTypeOK, inboxVars, rowVars

LEMMA RulesStay == RulesInv /\ UNCHANGED autoVars => RulesInv'
  BY DEF RulesInv, AutoTypeOK, FiredShape, KeyShape, CooldownHolds, autoVars, ruleVars, evalVars

LEMMA AiStays == AiInv /\ UNCHANGED aiVars => AiInv'
  BY DEF AiInv, AiTypeOK, NoticeShape, SpokenShape, FirstAnswerDiscloses, BudgetShape,
     PeakShape, ChargeShape, Underway, aiVars

-----------------------------------------------------------------------------
(* People, and the row of the conversation. *)

LEMMA InboxSteps == InboxTypeOK /\ InboxNext => InboxTypeOK'
<1> SUFFICES ASSUME InboxTypeOK, InboxNext PROVE InboxTypeOK'
  OBVIOUS
<1> USE ConversationAssumption DEF InboxTypeOK, rowVars, Mode, Status
<1>1. CASE HandOver \/ ReturnToAi \/ Unassign
  BY <1>1 DEF HandOver, ReturnToAi, Unassign, PassToHuman, Move
<1>2. ASSUME NEW s \in Status, SetStatus(s) PROVE InboxTypeOK'
  BY <1>2 DEF SetStatus, Move
<1>3. ASSUME NEW u \in Users, CheckAssignee(u) \/ Assign(u) \/ DropMember(u) \/ JoinMember(u)
      PROVE  InboxTypeOK'
  BY <1>3 DEF CheckAssignee, Assign, DropMember, JoinMember, Move
<1>4. ASSUME NEW t \in Tags, AddTag(t) \/ RemoveTag(t) \/ CreateTag(t) \/ DeleteTag(t)
      PROVE  InboxTypeOK'
  BY <1>4 DEF AddTag, RemoveTag, CreateTag, DeleteTag, PutTag, Move
<1> QED BY <1>1, <1>2, <1>3, <1>4 DEF InboxNext

\* What a rule writes into the row is a user, a status or a tag that is there.
LEMMA RuleWrites ==
  ASSUME InboxTypeOK, AutoTypeOK, NEW m \in Messages, Execute(m),
         UNCHANGED <<members, tags, asked, moves>>
  PROVE  InboxTypeOK'
<1> USE DEF InboxTypeOK, rowVars
<1>1. CASE Reply(m) \/ Keep(m) \/ Break(m)
  BY <1>1 DEF Reply, Keep, Break
<1>2. CASE TagIt(m)
  BY <1>2 DEF TagIt, PutTag
<1>3. CASE Finish(m)
  <2>1. pending[m].assignee \in Users \union {None} /\ pending[m].status \in Status \union {None}
    BY DEF AutoTypeOK, Pending
  <2>2. assignee' \in Users \union {None} /\ status' \in Status
    BY <1>3, <2>1 DEF Finish, Or
  <2>3. mode' = mode /\ tagged' = tagged
    BY <1>3 DEF Finish
  <2> QED BY <2>2, <2>3
<1> QED BY <1>1, <1>2, <1>3 DEF Execute

\* The AI sets the mode and the status only.
LEMMA AiWrites ==
  ASSUME InboxTypeOK, NEW c \in Calls, UNCHANGED <<members, tags, asked, moves>>,
         \/ LoadProfile(c) \/ AiAnswers(c) \/ GiveUp(c) \/ Charge(c)
         \/ GiveToPerson(c) \/ WriteNote(c) \/ Send(c, c \in open)
  PROVE  InboxTypeOK'
  BY DEF InboxTypeOK, rowVars, Mode, Status, LoadProfile, Load, AiAnswers, GiveUp, Charge,
     GiveToPerson, PassToHuman, WriteNote, Send

-----------------------------------------------------------------------------
(* The rules. *)

\* What a step of evaluate or execute leaves of the other messages.
LEMMA EvaluateSteps ==
  ASSUME RulesInv, NEW m \in Messages, Evaluate(m) PROVE RulesInv'
<1> USE DEF RulesInv, ruleVars, evalVars, Step
<1>1. CASE ReadRules(m)
  <2>1. Applicable \in SUBSET Chosen
    BY DEF Applicable, Chosen, AutoTypeOK
  <2>2. AutoTypeOK'
    BY <1>1, <2>1 DEF ReadRules, AutoTypeOK
  <2>3. FiredShape' /\ KeyShape' /\ CooldownHolds'
    BY <1>1 DEF ReadRules, AutoTypeOK, FiredShape, KeyShape, CooldownHolds
  <2> QED BY <2>2, <2>3
<1>2. CASE NothingFits(m)
  <2>1. AutoTypeOK'
    BY <1>2 DEF NothingFits, AutoTypeOK
  <2>2. FiredShape' /\ KeyShape' /\ CooldownHolds'
    BY <1>2 DEF NothingFits, AutoTypeOK, FiredShape, KeyShape, CooldownHolds
  <2> QED BY <2>1, <2>2
<1>3. CASE Abandon(m)
  <2>1. Unsaid \in Pending
    BY DEF Unsaid, Pending
  <2>2. AutoTypeOK'
    BY <1>3, <2>1 DEF Abandon, EndRules, AutoTypeOK
  <2>3. FiredShape' /\ KeyShape' /\ CooldownHolds'
    BY <1>3 DEF Abandon, EndRules, AutoTypeOK, FiredShape, KeyShape, CooldownHolds
  <2> QED BY <2>2, <2>3
<1>4. CASE WindowEnds(m)
  BY <1>4 DEF WindowEnds, AutoTypeOK, FiredShape, KeyShape, CooldownHolds
<1>5. ASSUME NEW c \in todo[m], PassOver(m, c) PROVE RulesInv'
  BY <1>5 DEF PassOver, AutoTypeOK, FiredShape, KeyShape, CooldownHolds
<1>6. ASSUME NEW c \in todo[m], Begin(m, c), cooling' \subseteq Rules,
             cooling \subseteq cooling',
             \/ UNCHANGED burst
             \/ c.id \notin cooling /\ c.id \in cooling'
                /\ burst' = [burst EXCEPT ![c.id] = @ \union {m}]
      PROVE  RulesInv'
  <2>1. c \in Chosen /\ c.id \in Rules /\ c.def.actions \in Seq(Action)
    BY AutomationsAssumption DEF AutoTypeOK, Chosen, Definition
  <2>2. fired[m] = {} /\ step[m] = "match"
    BY <1>6 DEF Begin, IsNext, FiredShape
  <2>3. fired' = [fired EXCEPT ![m] = {c.id}]
    BY <1>6, <2>2 DEF Begin, AutoTypeOK
  <2>4. [id |-> c.id, actions |-> c.def.actions] \in Doing
    BY <2>1 DEF Doing
  <2>5. AutoTypeOK'
    BY <1>6, <2>1, <2>2, <2>3, <2>4 DEF Begin, AutoTypeOK
  <2>6. FiredShape'
    <3>1. Cardinality({c.id}) <= 1
      BY Few
    <3>2. step' = [step EXCEPT ![m] = "act"]
      BY <1>6 DEF Begin
    <3>3. \A n \in Messages : fired'[n] = IF n = m THEN {c.id} ELSE fired[n]
      BY <2>3 DEF AutoTypeOK
    <3>4. \A n \in Messages : step'[n] = IF n = m THEN "act" ELSE step[n]
      BY <3>2 DEF AutoTypeOK
    <3> QED BY <3>1, <3>3, <3>4 DEF FiredShape
  <2>7. KeyShape'
    BY <1>6, <2>1 DEF Begin, AutoTypeOK, KeyShape
  <2>8. CooldownHolds'
    <3>1. CASE UNCHANGED burst
      BY <3>1 DEF CooldownHolds
    <3>2. CASE ~UNCHANGED burst
      <4>1. c.id \in Rules \ cooling /\ burst' = [burst EXCEPT ![c.id] = @ \union {m}]
        BY <1>6, <2>1, <3>2
      <4>2. burst[c.id] = {}
        BY <4>1 DEF KeyShape
      <4>3. \A u \in Rules : burst'[u] = IF u = c.id THEN {m} ELSE burst[u]
        BY <4>1, <4>2 DEF AutoTypeOK
      <4>4. Cardinality({m}) <= 1
        BY Few
      <4> QED BY <4>3, <4>4 DEF CooldownHolds
    <3> QED BY <3>1, <3>2
  <2> QED BY <2>5, <2>6, <2>7, <2>8
<1>7. ASSUME NEW c \in todo[m], Fire(m, c) \/ FireWithoutRedis(m, c) PROVE RulesInv'
  <2>1. c.id \in Rules
    BY DEF AutoTypeOK, Chosen
  <2> QED BY <1>6, <1>7, <2>1 DEF Fire, FireWithoutRedis, AutoTypeOK
<1> QED BY <1>1, <1>2, <1>3, <1>4, <1>5, <1>7 DEF Evaluate

LEMMA ExecuteSteps ==
  ASSUME RulesInv, NEW m \in Messages, Execute(m) PROVE RulesInv'
<1> USE DEF RulesInv, ruleVars, evalVars, Step
<1>1. step[m] = "act" /\ doing[m] \in Doing
  BY DEF Execute, Reply, TagIt, Keep, Finish, Break, Acting, AutoTypeOK
<1>2. ASSUME doing[m].actions # <<>>
      PROVE  /\ Head(doing[m].actions) \in Action
             /\ [doing[m] EXCEPT !.actions = Tail(doing[m].actions)] \in Doing
             /\ [doing[m] EXCEPT !.actions = Tail(doing[m].actions)].id = doing[m].id
  BY <1>1, <1>2 DEF Doing
<1>3. CASE Reply(m) \/ TagIt(m)
  <2>1. doing' = [doing EXCEPT ![m] = [doing[m] EXCEPT !.actions = Tail(doing[m].actions)]]
    BY <1>3 DEF Reply, TagIt, Proceed
  <2>2. doing[m].actions # <<>>
    BY <1>3 DEF Reply, TagIt, Acting
  <2>3. AutoTypeOK'
    BY <1>1, <1>2, <1>3, <2>1, <2>2 DEF Reply, TagIt, AutoTypeOK
  <2>4. FiredShape' /\ KeyShape' /\ CooldownHolds'
    BY <1>3 DEF Reply, TagIt, FiredShape, KeyShape, CooldownHolds
  <2> QED BY <2>3, <2>4
<1>4. CASE Keep(m)
  <2>1. doing' = [doing EXCEPT ![m] = [doing[m] EXCEPT !.actions = Tail(doing[m].actions)]]
    BY <1>4 DEF Keep, Proceed
  <2>2. doing[m].actions # <<>>
    BY <1>4 DEF Keep, Acting
  <2>3. pending' \in [Messages -> Pending]
    <3>1. pending[m] \in Pending
      BY DEF AutoTypeOK
    <3>2. CASE Acting(m, "assign") /\ pending' =
                 [pending EXCEPT ![m].assignee = Head(doing[m].actions).user]
      <4>1. Head(doing[m].actions).user \in Users
        BY <1>2, <2>2, <3>2 DEF Acting, Action
      <4>2. [pending[m] EXCEPT !.assignee = Head(doing[m].actions).user] \in Pending
        BY <3>1, <4>1 DEF Pending
      <4> QED BY <3>2, <4>2 DEF AutoTypeOK
    <3>3. CASE Acting(m, "set_status") /\ pending' =
                 [pending EXCEPT ![m].status = Head(doing[m].actions).status]
      <4>1. Head(doing[m].actions).status \in Status
        BY <1>2, <2>2, <3>3 DEF Acting, Action
      <4>2. [pending[m] EXCEPT !.status = Head(doing[m].actions).status] \in Pending
        BY <3>1, <4>1 DEF Pending
      <4> QED BY <3>3, <4>2 DEF AutoTypeOK
    <3> QED BY <1>4, <3>2, <3>3 DEF Keep
  <2>4. AutoTypeOK'
    BY <1>1, <1>2, <1>4, <2>1, <2>2, <2>3 DEF Keep, AutoTypeOK
  <2>5. FiredShape' /\ KeyShape' /\ CooldownHolds'
    BY <1>4 DEF Keep, FiredShape, KeyShape, CooldownHolds
  <2> QED BY <2>4, <2>5
<1>5. CASE Finish(m) \/ Break(m)
  <2>1. Unsaid \in Pending
    BY DEF Unsaid, Pending
  <2>2. AutoTypeOK'
    BY <1>5, <2>1 DEF Finish, Break, EndRules, AutoTypeOK
  <2>3. FiredShape' /\ KeyShape' /\ CooldownHolds'
    BY <1>5 DEF Finish, Break, EndRules, AutoTypeOK, FiredShape, KeyShape, CooldownHolds
  <2> QED BY <2>2, <2>3
<1> QED BY <1>3, <1>4, <1>5 DEF Execute

\* What people and time do to the rules and their keys.
LEMMA RuleEdits ==
  ASSUME RulesInv,
         \/ EditRules
         \/ \E u \in Rules : KeyExpires(u) \/ \E on \in BOOLEAN : ToggleWrite(u, on)
  PROVE  RulesInv'
<1> USE AutomationsAssumption DEF RulesInv, AutoTypeOK, FiredShape, KeyShape, CooldownHolds,
        ruleVars, evalVars
<1>1. ASSUME NEW u \in Rules, RemoveRule(u) PROVE RulesInv'
  BY <1>1 DEF RemoveRule
<1>2. ASSUME NEW u \in Rules, Toggle(u) PROVE RulesInv'
  <2>1. <<u, u \notin enabled>> \in Rules \X BOOLEAN
    OBVIOUS
  <2>2. toggling' \subseteq Rules \X BOOLEAN
    BY <1>2, <2>1 DEF Toggle
  <2> QED BY <1>2, <2>2 DEF Toggle
<1>3. ASSUME NEW u \in Rules, NEW d \in Definitions, Create(u, d) PROVE RulesInv'
  BY <1>3 DEF Create
<1>4. ASSUME NEW u \in Rules, NEW d \in Definitions, NEW on \in BOOLEAN, Update(u, d, on)
      PROVE  RulesInv'
  BY <1>4 DEF Update
<1>5. ASSUME NEW u \in Rules, KeyExpires(u) PROVE RulesInv'
  BY <1>5, Few DEF KeyExpires
<1>6. ASSUME NEW u \in Rules, NEW on \in BOOLEAN, ToggleWrite(u, on) PROVE RulesInv'
  BY <1>6 DEF ToggleWrite
<1> QED BY <1>1, <1>2, <1>3, <1>4, <1>5, <1>6 DEF EditRules



-----------------------------------------------------------------------------
(* The AI. *)

LEMMA VerdictIsTyped == \A f \in Findings : Verdict(f) \in Verdicts
<1> SUFFICES ASSUME NEW f \in Findings PROVE Verdict(f) \in Verdicts
  OBVIOUS
<1>1. f.cost \in 0..MaxCost /\ 0 \in 0..MaxCost
  BY AiAssumption DEF Findings
<1>2. f.text \in BOOLEAN /\ f.wish \in BOOLEAN /\ f.confident \in BOOLEAN /\ f.relevant \in BOOLEAN
  BY DEF Findings
<1> DEFINE give == f.wish \/ ~f.confident \/ ~f.relevant
           said == f.text /\ ~give
<1>3. give \in BOOLEAN /\ said \in BOOLEAN
  BY <1>2
<1>4. \/ Verdict(f) = [handover |-> TRUE, reply |-> FALSE, cost |-> 0]
      \/ Verdict(f) = [handover |-> TRUE, reply |-> FALSE, cost |-> f.cost]
      \/ Verdict(f) = [handover |-> give, reply |-> said, cost |-> f.cost]
  BY DEF Verdict
<1> HIDE DEF give, said
<1>5. \A h, r \in BOOLEAN, k \in 0..MaxCost : [handover |-> h, reply |-> r, cost |-> k] \in Verdicts
  BY DEF Verdicts
<1> QED BY <1>1, <1>3, <1>4, <1>5

\* A call that ends, or goes on to a step that charges nothing.
LEMMA FewerUnderway ==
  ASSUME AiInv, NEW c \in Calls, NEW p \in Place \ {"ask", "charge"},
         at' = [at EXCEPT ![c] = p], UNCHANGED <<used, budget, ceiling, peak>>
  PROVE  BudgetShape' /\ PeakShape' /\ ChargeShape'
<1> USE DEF AiInv
<1>1. Underway' = Underway \ {c}
  BY DEF Underway, AiTypeOK
<1>2. Underway' \subseteq Underway
  BY <1>1
<1> DEFINE n == Cardinality(Underway)
           k == Cardinality(Underway')
<1>3. n \in Nat /\ k \in Nat /\ k <= n
  BY <1>2, UnderwayIsFinite, FS_Subset, FS_CardinalityType
<1>4. MaxCost * k \in Nat /\ MaxCost * n \in Nat /\ MaxCost * k <= MaxCost * n
  BY <1>3, Products, AiAssumption
<1>5. used \in Nat /\ peak \in Nat /\ (ceiling # Unlimited => ceiling \in Nat)
  BY DEF AiTypeOK
<1>6. MaxCost * peak \in Nat
  BY <1>5, AiAssumption
<1>7. PeakShape' /\ BudgetShape'
  BY <1>3, <1>5 DEF PeakShape, BudgetShape
<1>8. ChargeShape'
  <2> SUFFICES ASSUME ceiling # Unlimited, used # 0 \/ Underway' # {}
               PROVE  used + MaxCost * k < ceiling + MaxCost * peak
    BY DEF ChargeShape
  <2>1. used + MaxCost * n < ceiling + MaxCost * peak
    BY <1>2 DEF ChargeShape
  <2> QED BY <1>4, <1>5, <1>6, <2>1
<1> QED BY <1>7, <1>8

\* The call of the AI service begins: within the budget, whatever else is asked.
LEMMA OneMoreUnderway ==
  ASSUME AiInv, NEW c \in Calls, LoadProfile(c), active, Within
  PROVE  PeakShape' /\ ChargeShape'
<1> USE DEF AiInv
<1>1. at' = [at EXCEPT ![c] = "ask"] /\ at[c] = "load"
  BY DEF LoadProfile, Load
<1>2. Underway' = Underway \union {c} /\ c \notin Underway
  BY <1>1 DEF Underway, AiTypeOK
<1> DEFINE n == Cardinality(Underway)
<1>3. n \in Nat /\ Cardinality(Underway') = n + 1
  BY <1>2, UnderwayIsFinite, FS_AddElement
<1>4. used \in Nat /\ peak \in Nat /\ UNCHANGED <<used, ceiling>>
  BY DEF LoadProfile, Load, AiTypeOK
<1>5. peak' = IF n + 1 > peak THEN n + 1 ELSE peak
  BY DEF LoadProfile, Load
<1>6. peak' \in Nat /\ n + 1 <= peak'
  BY <1>3, <1>4, <1>5
<1>7. ASSUME ceiling # Unlimited
      PROVE  used + MaxCost * (n + 1) < ceiling + MaxCost * peak'
  <2>1. budget \in Nat /\ ceiling \in Nat /\ budget <= ceiling /\ used < budget
    BY <1>7, AiAssumption DEF BudgetShape, Within
  <2>2. n + 1 \in Nat
    BY <1>3
  <2>3. MaxCost * (n + 1) <= MaxCost * peak'
    BY <1>6, <2>2, Products, AiAssumption
  <2>4. MaxCost * (n + 1) \in Nat /\ MaxCost * peak' \in Nat
    <3>1. \A a, b \in Nat : a * b \in Nat
      OBVIOUS
    <3> QED BY <1>6, <2>2, <3>1, AiAssumption
  <2> QED BY <1>4, <2>1, <2>3, <2>4
<1>8. PeakShape'
  BY <1>3, <1>6 DEF PeakShape
<1>9. ChargeShape'
  BY <1>3, <1>4, <1>7 DEF ChargeShape
<1> QED BY <1>8, <1>9

\* The answer is charged: it was counted among those under way.
LEMMA ChargeKeepsBound ==
  ASSUME AiInv, NEW c \in Calls, Charge(c) PROVE ChargeShape'
<1> USE DEF AiInv
<1>1. at' = [at EXCEPT ![c] = "settle"] /\ at[c] = "charge"
  BY DEF Charge
<1>2. Underway' = Underway \ {c} /\ c \in Underway
  BY <1>1 DEF Underway, AiTypeOK
<1> DEFINE n == Cardinality(Underway)
<1>3. n \in Nat /\ n >= 1 /\ Cardinality(Underway') = n - 1
  <2>1. n \in Nat /\ Cardinality(Underway') = n - 1
    BY <1>2, UnderwayIsFinite, FS_RemoveElement
  <2>2. Cardinality(Underway') \in Nat
    BY <1>2, UnderwayIsFinite, FS_Subset, FS_CardinalityType
  <2> QED BY <2>1, <2>2
<1>4. used \in Nat /\ peak \in Nat /\ (ceiling # Unlimited => ceiling \in Nat)
  BY DEF AiTypeOK
<1>5. verdict[c].cost \in 0..MaxCost
  BY DEF AiTypeOK, Verdicts
<1>6. used' = used + verdict[c].cost /\ UNCHANGED <<ceiling, peak>>
  BY DEF Charge
<1>7. ASSUME ceiling # Unlimited
      PROVE  used' + MaxCost * (n - 1) < ceiling + MaxCost * peak
  <2>1. used + MaxCost * n < ceiling + MaxCost * peak
    BY <1>2, <1>7 DEF ChargeShape
  <2>2. verdict[c].cost + MaxCost * (n - 1) <= MaxCost * n
    BY <1>3, <1>5, Products
  <2>3. MaxCost * n \in Nat /\ MaxCost * (n - 1) \in Nat /\ MaxCost * peak \in Nat
    BY <1>3, <1>4, AiAssumption
  <2> DEFINE x == MaxCost * n
             y == MaxCost * (n - 1)
             z == MaxCost * peak
             v == verdict[c].cost
  <2>4. x \in Nat /\ y \in Nat /\ z \in Nat /\ v \in Nat
    BY <1>5, <2>3, AiAssumption
  <2> HIDE DEF x, y, z, v
  <2>5. used + x < ceiling + z /\ v + y <= x => (used + v) + y < ceiling + z
    BY <1>4, <1>7, <2>4
  <2> QED BY <1>6, <2>1, <2>2, <2>5 DEF x, y, z, v
<1> QED BY <1>3, <1>6, <1>7 DEF ChargeShape

-----------------------------------------------------------------------------
(* What each step of the AI keeps. *)

LEMMA AiSteps ==
  ASSUME AiInv, NEW c \in Calls,
         \/ LoadProfile(c) \/ AiAnswers(c) \/ GiveUp(c) \/ Charge(c)
         \/ GiveToPerson(c) \/ WriteNote(c) \/ Send(c, c \in open) \/ StartReply(c)
  PROVE  AiInv'
<1> USE DEF AiInv, Place
<1>1. Silent \in Verdicts
  BY AiAssumption DEF Silent, Verdicts
<1>2. CASE LoadProfile(c) /\ active /\ Within
  <2>1. Cardinality(Underway) \in Nat
    BY UnderwayIsFinite
  <2>2. AiTypeOK'
    BY <1>2, <2>1 DEF LoadProfile, Load, AiTypeOK
  <2>3. NoticeShape' /\ SpokenShape' /\ FirstAnswerDiscloses' /\ BudgetShape'
    BY <1>2 DEF LoadProfile, Load, AiTypeOK, NoticeShape, SpokenShape, FirstAnswerDiscloses,
       BudgetShape
  <2> QED BY <1>2, <2>2, <2>3, OneMoreUnderway
<1>3. CASE LoadProfile(c) /\ ~(active /\ Within)
  <2>1. at' = [at EXCEPT ![c] = "done"] /\ UNCHANGED <<used, budget, ceiling, peak>>
    BY <1>3 DEF LoadProfile, Load
  <2>2. AiTypeOK' /\ NoticeShape' /\ SpokenShape' /\ FirstAnswerDiscloses'
    BY <1>3, <2>1 DEF LoadProfile, Load, AiTypeOK, NoticeShape, SpokenShape, FirstAnswerDiscloses
  <2> QED BY <2>1, <2>2, FewerUnderway
<1>4. CASE AiAnswers(c)
  <2>1. at' = [at EXCEPT ![c] = "charge"] /\ at[c] = "ask"
        /\ UNCHANGED <<notice, answered, first, active, budget, used, ceiling, peak>>
    BY <1>4 DEF AiAnswers
  <2>2. verdict' \in [Calls -> Verdicts]
    BY <1>4, VerdictIsTyped DEF AiAnswers, AiTypeOK
  <2>3. AiTypeOK' /\ NoticeShape'
    BY <2>1, <2>2 DEF AiTypeOK, NoticeShape
  <2>4. Underway' = Underway
    BY <2>1 DEF Underway, AiTypeOK
  <2> QED BY <2>1, <2>3, <2>4 DEF SpokenShape, FirstAnswerDiscloses, BudgetShape, PeakShape,
     ChargeShape
<1>5. CASE GiveUp(c) \/ WriteNote(c)
  <2>1. /\ at' = [at EXCEPT ![c] = "done"] /\ verdict' = [verdict EXCEPT ![c] = Silent]
        /\ UNCHANGED <<notice, answered, first, active, budget, used, ceiling, peak>>
    BY <1>5 DEF GiveUp, WriteNote, EndReply
  <2>2. AiTypeOK' /\ NoticeShape' /\ SpokenShape' /\ FirstAnswerDiscloses'
    BY <1>1, <2>1 DEF AiTypeOK, NoticeShape, SpokenShape, FirstAnswerDiscloses
  <2> QED BY <2>1, <2>2, FewerUnderway
<1>6. CASE Charge(c)
  <2>1. verdict[c].cost \in Nat
    BY AiAssumption DEF AiTypeOK, Verdicts
  <2>2. AiTypeOK' /\ NoticeShape' /\ SpokenShape' /\ FirstAnswerDiscloses' /\ BudgetShape'
    BY <1>6, <2>1 DEF Charge, AiTypeOK, NoticeShape, SpokenShape, FirstAnswerDiscloses,
       BudgetShape
  <2>3. Underway' = Underway \ {c} /\ c \in Underway
    BY <1>6 DEF Charge, Underway, AiTypeOK
  <2>4. PeakShape'
    <3>1. Cardinality(Underway') = Cardinality(Underway) - 1
      BY <2>3, UnderwayIsFinite, FS_RemoveElement
    <3>2. peak' = peak /\ peak \in Nat
      BY <1>6 DEF Charge, AiTypeOK
    <3> QED BY <3>1, <3>2, UnderwayIsFinite DEF PeakShape
  <2> QED BY <1>6, <2>2, <2>4, ChargeKeepsBound
<1>7. CASE GiveToPerson(c) \/ StartReply(c)
  <2>1. /\ \E p \in {"note", "load"} : at' = [at EXCEPT ![c] = p]
        /\ UNCHANGED <<verdict, notice, answered, first, active, budget, used, ceiling, peak>>
    BY <1>7 DEF GiveToPerson, StartReply
  <2>2. AiTypeOK' /\ NoticeShape' /\ SpokenShape' /\ FirstAnswerDiscloses'
    BY <2>1 DEF AiTypeOK, NoticeShape, SpokenShape, FirstAnswerDiscloses
  <2> QED BY <2>1, <2>2, FewerUnderway
<1>8. CASE Send(c, c \in open)
  <2>1. /\ at' = [at EXCEPT ![c] = "done"] /\ verdict' = [verdict EXCEPT ![c] = Silent]
        /\ UNCHANGED <<notice, active, budget, used, ceiling, peak>> /\ at[c] = "settle"
    BY <1>8 DEF Send, EndReply
  <2>2. \/ UNCHANGED <<answered, first>>
        \/ /\ answered' = answered \union {c}
           /\ first' = IF first # "none" THEN first
                       ELSE IF c \in notice THEN "disclosed" ELSE "bare"
    BY <1>8 DEF Send
  <2>3. c \in notice \/ answered # {}
    BY <2>1 DEF NoticeShape
  <2>4. AiTypeOK' /\ NoticeShape'
    BY <1>1, <2>1, <2>2 DEF AiTypeOK, NoticeShape
  <2>5. SpokenShape' /\ FirstAnswerDiscloses'
    BY <2>2, <2>3 DEF SpokenShape, FirstAnswerDiscloses
  <2> QED BY <2>1, <2>4, <2>5, FewerUnderway
<1> QED BY <1>2, <1>3, <1>4, <1>5, <1>6, <1>7, <1>8

\* The owner changes the profile: the ceiling rises, or stays.
LEMMA ProfileSteps ==
  ASSUME AiInv, NEW on \in BOOLEAN, NEW b \in Budgets, UpdateProfile(on, b) PROVE AiInv'
<1> USE AiAssumption DEF AiInv, UpdateProfile
<1>1. b \in Nat \union {Unlimited}
  OBVIOUS
<1>2. AiTypeOK' /\ NoticeShape' /\ SpokenShape' /\ FirstAnswerDiscloses' /\ PeakShape'
  BY <1>1 DEF AiTypeOK, NoticeShape, SpokenShape, FirstAnswerDiscloses, PeakShape, Underway
<1>3. BudgetShape'
  BY <1>1 DEF AiTypeOK, BudgetShape
<1>4. ChargeShape'
  <2>1. Underway' = Underway /\ UNCHANGED <<used, peak>>
    BY DEF Underway
  <2>2. ASSUME ceiling' # Unlimited
        PROVE  ceiling # Unlimited /\ ceiling \in Nat /\ ceiling' \in Nat /\ ceiling <= ceiling'
    BY <1>1, <2>2 DEF AiTypeOK
  <2>3. used \in Nat /\ MaxCost * Cardinality(Underway) \in Nat /\ MaxCost * peak \in Nat
    BY UnderwayIsFinite DEF AiTypeOK
  <2> QED BY <2>1, <2>2, <2>3 DEF ChargeShape
<1> QED BY <1>2, <1>3, <1>4

-----------------------------------------------------------------------------
(* The whole. *)

LEMMA Beginning == Init => IInv
<1> SUFFICES ASSUME Init PROVE IInv
  OBVIOUS
<1> USE ConversationAssumption, AutomationsAssumption, AiAssumption, Few
    DEF Init, InboxInit, AutoInit, AiInit
<1>1. InboxTypeOK
  BY DEF InboxTypeOK, Mode, Status
<1>2. AutoTypeOK
  <2>1. Unsaid \in Pending
    BY DEF Unsaid, Pending
  <2>2. rule \in [Rules -> Definitions \union {None}]
    OBVIOUS
  <2>3. enabled \subseteq {u \in Rules : rule[u] \in Definitions}
    BY <2>2
  <2> QED BY <2>1, <2>2, <2>3 DEF AutoTypeOK, Step
<1>3. FiredShape /\ KeyShape /\ CooldownHolds
  BY DEF FiredShape, KeyShape, CooldownHolds
<1>4. AskedShape
  BY AnswersAssumption DEF AskedShape
<1>5. Underway = {}
  BY DEF Underway
<1>6. Silent \in Verdicts
  BY DEF Silent, Verdicts
<1>7. AiTypeOK
  BY <1>6 DEF AiTypeOK, Place
<1>8. NoticeShape /\ SpokenShape /\ FirstAnswerDiscloses
  BY DEF NoticeShape, SpokenShape, FirstAnswerDiscloses
<1>9. BudgetShape /\ PeakShape /\ ChargeShape
  BY <1>5 DEF BudgetShape, PeakShape, ChargeShape
<1> QED BY <1>1, <1>2, <1>3, <1>4, <1>7, <1>8, <1>9 DEF IInv, RulesInv, AiInv

\* The end of maybeReply, its beginning, and a step in the middle.
LEMMA AiMoves ==
  ASSUME AiTypeOK, NEW c \in Calls,
         \/ LoadProfile(c) \/ AiAnswers(c) \/ GiveUp(c) \/ Charge(c)
         \/ GiveToPerson(c) \/ WriteNote(c) \/ Send(c, c \in open)
  PROVE  at[c] # "off" /\ \E p \in Place : at' = [at EXCEPT ![c] = p]
  BY DEF LoadProfile, Load, AiAnswers, GiveUp, EndReply, Charge, GiveToPerson, WriteNote, Send,
     Place

LEMMA Inductive == IInv /\ [Next]_vars => IInv'
<1> SUFFICES ASSUME IInv, [Next]_vars PROVE IInv'
  OBVIOUS
<1> USE AnswersAssumption DEF IInv
<1>1. ASSUME NEW m \in Messages, Receive(m) PROVE IInv'
  <2>1. InboxTypeOK'
    BY <1>1 DEF Receive, InboxTypeOK, Status
  <2>2. step[m] = "new" /\ \E s \in {"away", "rules"} : step' = [step EXCEPT ![m] = s]
    BY <1>1 DEF Receive
  <2>3. UNCHANGED <<ruleVars, cooling, burst, todo, doing, pending, fired, replied, open, aiVars>>
    BY <1>1 DEF Receive
  <2>4. AutoTypeOK'
    BY <2>2, <2>3 DEF RulesInv, AutoTypeOK, Step, ruleVars
  <2>5. FiredShape' /\ KeyShape' /\ CooldownHolds'
    BY <2>2, <2>3 DEF RulesInv, AutoTypeOK, FiredShape, KeyShape, CooldownHolds
  <2>6. AskedShape'
    BY <2>2, <2>3 DEF RulesInv, AutoTypeOK, AskedShape, aiVars
  <2> QED BY <2>1, <2>3, <2>4, <2>5, <2>6, AiStays DEF RulesInv
<1>2. ASSUME NEW m \in Messages, TakeElsewhere(m) \/ AskAi(m) PROVE IInv'
  <2>1. /\ step[m] = "passed" /\ step' = [step EXCEPT ![m] = "away"]
        /\ UNCHANGED <<inboxVars, ruleVars, cooling, burst, todo, doing, pending, fired, replied,
                       open>>
    BY <1>2 DEF TakeElsewhere, AskAi
  <2>2. AutoTypeOK'
    BY <2>1 DEF RulesInv, AutoTypeOK, Step, ruleVars
  <2>3. FiredShape' /\ KeyShape' /\ CooldownHolds'
    BY <2>1 DEF RulesInv, AutoTypeOK, FiredShape, KeyShape, CooldownHolds
  <2>4. fired[m] = {}
    BY <2>1 DEF RulesInv, FiredShape
  <2>5. CASE TakeElsewhere(m)
    <3>1. UNCHANGED aiVars
      BY <2>5 DEF TakeElsewhere
    <3>2. AskedShape'
      BY <2>1, <3>1 DEF RulesInv, AutoTypeOK, AskedShape, aiVars
    <3> QED BY <2>1, <2>2, <2>3, <3>1, <3>2, InboxStays, AiStays DEF RulesInv
  <2>6. CASE AskAi(m)
    <3>1. StartReply(m) /\ AiInv'
      BY <2>6, AiSteps DEF AskAi
    <3>2. at' = [at EXCEPT ![m] = "load"]
      BY <3>1 DEF StartReply
    <3>3. AskedShape'
      BY <2>1, <2>4, <3>2 DEF RulesInv, AutoTypeOK, AskedShape, AiInv, AiTypeOK
    <3> QED BY <2>1, <2>2, <2>3, <3>1, <3>3, InboxStays DEF RulesInv
  <2> QED BY <1>2, <2>5, <2>6
<1>3. ASSUME NEW m \in Messages, RulesStep(m) PROVE IInv'
  <2>1. UNCHANGED aiVars /\ AiInv'
    BY <1>3, AiStays DEF RulesStep
  <2>2. RulesInv'
    BY <1>3, EvaluateSteps, ExecuteSteps DEF RulesStep
  <2>3. InboxTypeOK'
    BY <1>3, InboxStays, RuleWrites DEF RulesStep, RulesInv
  <2>4. /\ step[m] # "away" \/ WindowEnds(m)
        /\ \A n \in Messages \ {m} : step'[n] = step[n] /\ fired'[n] = fired[n]
    BY <1>3 DEF RulesStep, Evaluate, Execute, ReadRules, NothingFits, Abandon, WindowEnds, PassOver,
       Fire, FireWithoutRedis, Begin, IsNext, Reply, TagIt, Keep, Finish, Break, Acting, EndRules,
       RulesInv, AutoTypeOK, evalVars
  <2>5. WindowEnds(m) => UNCHANGED evalVars
    BY DEF WindowEnds
  <2>6. AskedShape'
    BY <2>1, <2>4, <2>5 DEF AskedShape, evalVars, aiVars
  <2> QED BY <2>1, <2>2, <2>3, <2>6
<1>4. ASSUME NEW m \in Messages, AiStep(m) PROVE IInv'
  <2>1. \/ LoadProfile(m) \/ AiAnswers(m) \/ GiveUp(m) \/ Charge(m)
        \/ GiveToPerson(m) \/ WriteNote(m) \/ Send(m, m \in open)
    BY <1>4 DEF AiStep
  <2>2. UNCHANGED <<members, tags, asked, moves>> /\ UNCHANGED autoVars
    BY <1>4 DEF AiStep
  <2>3. InboxTypeOK' /\ AiInv' /\ RulesInv'
    BY <2>1, <2>2, AiWrites, AiSteps, RulesStay
  <2>4. at[m] # "off" /\ \E p \in Place : at' = [at EXCEPT ![m] = p]
    BY <2>1, AiMoves DEF AiInv
  <2>5. step' = step /\ fired' = fired
    BY <2>2 DEF autoVars, evalVars
  <2>6. AskedShape'
    BY <2>4, <2>5 DEF AskedShape, AiInv, AiTypeOK
  <2> QED BY <2>3, <2>6
<1>5. CASE Inbox
  <2>1. InboxNext /\ UNCHANGED <<autoVars, aiVars>>
    BY <1>5 DEF Inbox
  <2>2. InboxTypeOK' /\ RulesInv' /\ AiInv'
    BY <2>1, InboxSteps, RulesStay, AiStays
  <2>3. AskedShape'
    BY <2>1 DEF AskedShape, autoVars, evalVars, aiVars
  <2> QED BY <2>2, <2>3
<1>6. CASE Settings \/ Later
  <2>1. InboxTypeOK'
    <3>1. CASE Settings
      BY <3>1, ConversationAssumption DEF Settings, Move, InboxTypeOK, rowVars
    <3> QED BY <1>6, <3>1, InboxStays DEF Later
  <2>2. CASE (EditRules \/ Later) /\ UNCHANGED aiVars
    <3>1. RulesInv' /\ AiInv'
      BY <2>2, RuleEdits, AiStays DEF Later
    <3>2. UNCHANGED evalVars
      BY <2>2 DEF Later, EditRules, Create, Update, Toggle, RemoveRule, KeyExpires, ToggleWrite
    <3>3. AskedShape'
      BY <2>2, <3>2 DEF AskedShape, evalVars, aiVars
    <3> QED BY <2>1, <3>1, <3>3
  <2>3. ASSUME NEW on \in BOOLEAN, NEW b \in Budgets, UpdateProfile(on, b), UNCHANGED autoVars
        PROVE  IInv'
    <3>1. RulesInv' /\ AiInv'
      BY <2>3, RulesStay, ProfileSteps
    <3>2. AskedShape'
      BY <2>3 DEF UpdateProfile, AskedShape, autoVars, evalVars
    <3> QED BY <2>1, <3>1, <3>2
  <2> QED BY <1>6, <2>2, <2>3 DEF Settings, Later
<1>7. CASE UNCHANGED vars
  <2>1. InboxTypeOK' /\ RulesInv' /\ AiInv'
    BY <1>7, InboxStays, RulesStay, AiStays DEF vars
  <2>2. AskedShape'
    BY <1>7 DEF vars, AskedShape, autoVars, evalVars, aiVars
  <2> QED BY <2>1, <2>2
<1> QED BY <1>1, <1>2, <1>3, <1>4, <1>5, <1>6, <1>7 DEF Next

LEMMA Invariance == Spec => []IInv
  BY Beginning, Inductive, PTL DEF Spec

\* The row of the conversation, the rules and the calls keep their types: what a
\* rule assigns, tags and sets is of its definition.
THEOREM TypeCorrect == Spec => []TypeOK
<1>1. IInv => TypeOK
  BY DEF IInv, RulesInv, AiInv, TypeOK
<1> QED BY <1>1, Invariance, PTL

\* A message is answered by one voice, whatever people, other messages and time
\* do between the steps of its handler.  (evaluate)
THEOREM OneVoiceTheorem == Spec => []OneVoice
<1>1. IInv => OneVoice
  BY DEF IInv, RulesInv, FiredShape, AskedShape, OneVoice
<1> QED BY <1>1, Invariance, PTL

\* A living cooldown key stands for one message at most, for any number of
\* handlers, toggles and edits of the rule.  (passesCooldown)
THEOREM CooldownTheorem == Spec => []CooldownHolds
<1>1. IInv => CooldownHolds
  BY DEF IInv, RulesInv
<1> QED BY <1>1, Invariance, PTL

\* The first answer of the AI that is queued says that it is an AI, in whatever
\* order the calls end.  (AiReplyService.maybeReply, buildContext)
THEOREM DisclosureTheorem == Spec => []FirstAnswerDiscloses
<1>1. IInv => FirstAnswerDiscloses
  BY DEF IInv, AiInv
<1> QED BY <1>1, Invariance, PTL

\* The budget is exceeded by less than the answers cost that there were at a
\* time, for every budget, price and number of calls.  (maybeReply)
THEOREM OverrunTheorem == Spec => []OverrunIsBounded
<1>1. IInv => OverrunIsBounded
  <2> SUFFICES ASSUME IInv, ceiling # Unlimited, used # 0
               PROVE  used < ceiling + MaxCost * peak
    BY DEF OverrunIsBounded
  <2>1. used + MaxCost * Cardinality(Underway) < ceiling + MaxCost * peak
    BY DEF IInv, AiInv, ChargeShape
  <2>2. used \in Nat /\ ceiling \in Nat /\ peak \in Nat
    BY DEF IInv, AiInv, AiTypeOK
  <2>3. MaxCost * Cardinality(Underway) \in Nat /\ MaxCost * peak \in Nat
    BY <2>2, UnderwayIsFinite, AiAssumption
  <2> QED BY <2>1, <2>2, <2>3
<1> QED BY <1>1, Invariance, PTL

==============================================================================
