------------------------------- MODULE AiReply -------------------------------
(***************************************************************************)
(* The AI's answer to an incoming message.                                 *)
(*                                                                         *)
(* AiReplyService.maybeReply works on the conversation as the inbound      *)
(* processor read it.  One transaction reads the profile, compares the     *)
(* tokens used this month with the budget and looks whether the AI has     *)
(* spoken in this conversation before; then comes a call of the AI service *)
(* of up to half a minute; another transaction charges the tokens; and the *)
(* answer is queued or the conversation is handed over.  Other handlers of *)
(* the same channel are at any of these points meanwhile.                  *)
(*                                                                         *)
(* generate_reply of the AI service is Verdict: what it returns for what   *)
(* it finds out about a message and its context.                           *)
(***************************************************************************)
EXTENDS Conversation

CONSTANTS
  Calls,     (* the handlers that may ask the AI, one for each message     *)
  Budgets,   (* the monthly budgets an owner may set, in units of tokens   *)
  MaxCost,   (* bound on the units one answer costs                        *)
  Unlimited  (* a monthlyTokenBudget that is null                          *)

ASSUME AiAssumption ==
  /\ Budgets \subseteq Nat \union {Unlimited}
  /\ Unlimited \notin Nat
  /\ MaxCost \in Nat \ {0}
  /\ IsFiniteSet(Calls)

VARIABLES
  active,    (* enabled of the profile                                     *)
  budget,    (* its monthlyTokenBudget                                     *)
  used,      (* its tokensUsedMonth                                        *)
  at,        (* at[c]: where maybeReply is                                 *)
  notice,    (* the calls that ask the AI to say that it is one            *)
  verdict,   (* verdict[c]: what the AI service returned                   *)
  answered,  (* the messages the AI has queued an answer to                *)
  first,     (* whether its first answer here said that it is an AI        *)
  ceiling,   (* the highest budget there has been                          *)
  peak       (* the largest number of calls there have been at a time      *)

aiVars == <<active, budget, used, at, notice, verdict, answered, first,
            ceiling, peak>>

-----------------------------------------------------------------------------
Place == {"off", "load", "ask", "charge", "settle", "note", "done"}
Verdicts == [handover : BOOLEAN, reply : BOOLEAN, cost : 0..MaxCost]
Silent == [handover |-> FALSE, reply |-> FALSE, cost |-> 0]

\* The calls whose tokens are still to be charged.
Underway == {c \in Calls : at[c] \in {"ask", "charge"}}

AiTypeOK ==
  /\ active \in BOOLEAN
  /\ budget \in Nat \union {Unlimited}
  /\ used \in Nat
  /\ at \in [Calls -> Place]
  /\ notice \subseteq Calls
  /\ verdict \in [Calls -> Verdicts]
  /\ answered \subseteq Calls
  /\ first \in {"none", "disclosed", "bare"}
  /\ ceiling \in Nat \union {Unlimited}
  /\ peak \in Nat

AiInit ==
  /\ active = TRUE
  /\ budget \in Budgets /\ ceiling = budget
  /\ used = 0 /\ peak = 0
  /\ at = [c \in Calls |-> "off"]
  /\ notice = {}
  /\ verdict = [c \in Calls |-> Silent]
  /\ answered = {} /\ first = "none"

-----------------------------------------------------------------------------
(* The AI service. *)

\* generate_reply.  f says what it finds: a handover keyword in the message,
\* relevant chunks, JSON in the model's answer, and in it a wish to hand over,
\* enough confidence and a text; and what the model's answer costs.
Findings == [keyword : BOOLEAN, relevant : BOOLEAN, json : BOOLEAN,
             wish : BOOLEAN, confident : BOOLEAN, text : BOOLEAN,
             cost : 1..MaxCost]

Verdict(f) ==
  IF f.keyword THEN [handover |-> TRUE, reply |-> FALSE, cost |-> 0]
  ELSE IF ~f.json THEN [handover |-> TRUE, reply |-> FALSE, cost |-> f.cost]
  ELSE LET give == f.wish \/ ~f.confident \/ ~f.relevant
       IN  [handover |-> give, reply |-> f.text /\ ~give, cost |-> f.cost]

-----------------------------------------------------------------------------
(* maybeReply. *)

\* The first transaction.  `spoken`: messages of the AI in the conversation.
Within == budget = Unlimited \/ used < budget

Load(c, within, spoken) ==
  /\ at[c] = "load"
  /\ IF active /\ within
     THEN /\ at' = [at EXCEPT ![c] = "ask"]
          /\ notice' = IF spoken THEN notice ELSE notice \union {c}
          /\ peak' = IF Cardinality(Underway) + 1 > peak
                     THEN Cardinality(Underway) + 1 ELSE peak
          /\ UNCHANGED status
     ELSE /\ at' = [at EXCEPT ![c] = "done"]
          /\ status' = IF active THEN "pending" ELSE status
          /\ UNCHANGED <<notice, peak>>
  /\ UNCHANGED <<mode, assignee, tagged, active, budget, used, verdict,
                 answered, first, ceiling>>

\* As if the budget could be reached once more after it was reached.
LoadAtBudget(c) ==
  Load(c, budget = Unlimited \/ used <= budget, answered # {})

\* As if a call under way counted as an answer of the AI.
LoadWhileAsked(c) == Load(c, Within, answered # {} \/ notice # {})

LoadProfile(c) == Load(c, Within, answered # {})

\* The end of maybeReply, and of what it remembers.
EndReply(c) ==
  /\ at' = [at EXCEPT ![c] = "done"]
  /\ verdict' = [verdict EXCEPT ![c] = Silent]

\* The AI service answers ...
AiAnswers(c) ==
  /\ at[c] = "ask"
  /\ \E f \in Findings : verdict' = [verdict EXCEPT ![c] = Verdict(f)]
  /\ at' = [at EXCEPT ![c] = "charge"]
  /\ UNCHANGED <<rowVars, active, budget, used, notice, answered, first,
                 ceiling, peak>>

\* ... or not, or not in time; or a transaction of maybeReply fails, or its
\* process dies.  `route` logs it, and nobody is told.
GiveUp(c) ==
  /\ at[c] \in {"load", "ask", "charge", "settle", "note"}
  /\ EndReply(c)
  /\ UNCHANGED <<rowVars, active, budget, used, notice, answered, first,
                 ceiling, peak>>

Charge(c) ==
  /\ at[c] = "charge"
  /\ used' = used + verdict[c].cost
  /\ at' = [at EXCEPT ![c] = "settle"]
  /\ UNCHANGED <<rowVars, active, budget, notice, verdict, answered, first,
                 ceiling, peak>>

\* The handover, whoever has the conversation by now; its note comes next.
GiveToPerson(c) ==
  /\ at[c] = "settle" /\ verdict[c].handover
  /\ PassToHuman
  /\ at' = [at EXCEPT ![c] = "note"]
  /\ UNCHANGED <<active, budget, used, notice, verdict, answered, first,
                 ceiling, peak>>

WriteNote(c) ==
  /\ at[c] = "note"
  /\ EndReply(c)
  /\ UNCHANGED <<rowVars, active, budget, used, notice, answered, first,
                 ceiling, peak>>

\* sendAsAi, if the window is open by the time in the conversation as read.
Send(c, inWindow) ==
  /\ at[c] = "settle" /\ ~verdict[c].handover
  /\ EndReply(c)
  /\ IF verdict[c].reply /\ inWindow
     THEN /\ answered' = answered \union {c}
          /\ first' = IF first # "none" THEN first
                      ELSE IF c \in notice THEN "disclosed" ELSE "bare"
     ELSE UNCHANGED <<answered, first>>
  /\ UNCHANGED <<rowVars, active, budget, used, notice, ceiling, peak>>

\* AiProfileService.update
UpdateProfile(on, b) ==
  /\ active' = on /\ budget' = b
  /\ ceiling' = IF ceiling = Unlimited \/ b = Unlimited THEN Unlimited
                ELSE IF b > ceiling THEN b ELSE ceiling
  /\ UNCHANGED <<used, at, notice, verdict, answered, first, peak>>

\* maybeReply begins, for a conversation read in mode ai with text in it.
StartReply(c) ==
  /\ at[c] = "off"
  /\ at' = [at EXCEPT ![c] = "load"]
  /\ UNCHANGED <<active, budget, used, notice, verdict, answered, first,
                 ceiling, peak>>

-----------------------------------------------------------------------------
(* Properties. *)

\* The first message of the AI in a conversation says that it comes from an AI,
\* in whatever order the answers to messages that came together are queued.
\* (reply_service: "Aviso de bot en la primera interaccion")
FirstAnswerDiscloses == first # "bare"

\* The month's tokens exceed the highest budget by less than what the answers
\* cost that were under way at the same time: calls one after the other exceed
\* it by less than one answer.
OverrunIsBounded ==
  ceiling # Unlimited /\ used # 0 => used < ceiling + MaxCost * peak

=============================================================================
