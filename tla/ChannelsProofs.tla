--------------------------- MODULE ChannelsProofs ---------------------------
(***************************************************************************)
(* Proofs about Channels, for any organizations, accounts, authorizations  *)
(* and any number of requests and jobs.                                    *)
(***************************************************************************)
EXTENDS Channels, TLAPS

Granted(f) == f \in Flows /\ flow[f].at \in {"choose", "over"} /\ flow[f].org \in Orgs

FlowShape ==
  \A f \in Flows : flow[f].at # "idle" => flow[f].org \in Orgs

\* An authorization that a row or a task refers to does not change any more.
RowShape ==
  \A a \in Accounts : There(a) => Granted(row[a].token)

\* A task that connects an account has an authorization for it, and a row that
\* it has found is still there, with the same organization.
SaverShape ==
  \A t \in Tasks :
    at[t] \in {"lookup", "save", "subscribe", "mark"} =>
      /\ acct[t] \in Accounts /\ Granted(tok[t])
      /\ acct[t] \in flow[tok[t]].accounts
      /\ at[t] = "save" /\ had[t] =>
           There(acct[t]) /\ row[acct[t]].org = flow[tok[t]].org
      /\ at[t] \in {"subscribe", "mark"} => There(acct[t])

\* A task that uses a channel has a token of the same organization and account.
UserShape ==
  \A t \in Tasks :
    at[t] \in {"probe", "endCheck", "refresh", "endRenewal", "send", "endSend"} =>
      /\ acct[t] \in Accounts /\ There(acct[t]) /\ Granted(tok[t])
      /\ acct[t] \in flow[tok[t]].accounts
      /\ row[acct[t]].org = flow[tok[t]].org

\* Meta has refused a token only after it died.
AnswerShape ==
  \A t \in Tasks :
    at[t] \in {"endCheck", "endSend"} /\ said[t] = "refused" => tok[t] \in dead

\* What a step may do to the rows: none goes, or changes its organization.
Keeps ==
  /\ row' \in [Accounts -> Channel \union {None}]
  /\ \A b \in Accounts : There(b) => row'[b] # None /\ row'[b].org = row[b].org

\* A write to one row, of a channel of the same organization.
LEMMA RowWritten ==
  ASSUME TypeOK, NEW a \in Accounts, NEW c \in Channel,
         There(a) => c.org = row[a].org,
         row' = [row EXCEPT ![a] = c]
  PROVE  Keeps
  BY ChannelsAssumption DEF TypeOK, There, Keeps

\* What is there is a channel.
LEMMA RowRead ==
  ASSUME TypeOK, NEW a \in Accounts, There(a)
  PROVE  row[a] \in Channel
  BY DEF TypeOK, There

IInv ==
  /\ TypeOK
  /\ FlowShape
  /\ RowShape
  /\ SaverShape
  /\ UserShape
  /\ AnswerShape
  /\ TokenIsItsOwn
  /\ ExpiredIsTrue

\* The invariant holds at the start ...
LEMMA Beginning == Init => IInv
  BY ChannelsAssumption
  DEF Init, IInv, TypeOK, FlowShape, RowShape, SaverShape, UserShape, AnswerShape, TokenIsItsOwn,
      ExpiredIsTrue, There, Channel, FlowAt, TaskAt, Type

\* ... and every step keeps it.
LEMMA Inductive == IInv /\ [Next]_vars => IInv'
<1> SUFFICES ASSUME IInv, [Next]_vars PROVE IInv'
  OBVIOUS
<1> USE ChannelsAssumption DEF IInv, taskVars, metaVars, history, There, Granted, Type, ChannelStatus,
     Channel, FlowAt, TaskAt
<1>1. ASSUME NEW f \in Flows, NEW o \in Orgs, NEW type \in Type, Connect(f, o, type)
      PROVE  IInv'
  <2>1. TypeOK'
    BY <1>1 DEF Connect, TypeOK, RowShape, SaverShape, UserShape
  <2>2. FlowShape'
    BY <1>1 DEF Connect, FlowShape, TypeOK, SaverShape
  <2>3. RowShape'
    BY <1>1 DEF Connect, RowShape, SaverShape, UserShape, TypeOK
  <2>4. SaverShape'
    BY <1>1 DEF Connect, SaverShape, TypeOK, RowShape, FlowShape
  <2>5. UserShape'
    BY <1>1 DEF Connect, UserShape, TypeOK, RowShape, SaverShape, TokenIsItsOwn
  <2>6. AnswerShape'
    BY <1>1 DEF Connect, AnswerShape, TypeOK
  <2>7. TokenIsItsOwn'
    BY <1>1 DEF Connect, TokenIsItsOwn, TypeOK, RowShape, SaverShape, UserShape
  <2>8. ExpiredIsTrue'
    BY <1>1 DEF Connect, ExpiredIsTrue, TypeOK, AnswerShape, UserShape, SaverShape
  <2> QED BY <2>1, <2>2, <2>3, <2>4, <2>5, <2>6, <2>7, <2>8
<1>2. ASSUME NEW f \in Flows, ExpireFlow(f)
      PROVE  IInv'
  <2>1. TypeOK'
    BY <1>2 DEF ExpireFlow, TypeOK, RowShape, SaverShape, UserShape
  <2>2. FlowShape'
    BY <1>2 DEF ExpireFlow, FlowShape, TypeOK, SaverShape
  <2>3. RowShape'
    BY <1>2 DEF ExpireFlow, RowShape, SaverShape, UserShape, TypeOK
  <2>4. SaverShape'
    BY <1>2 DEF ExpireFlow, SaverShape, TypeOK, RowShape, FlowShape
  <2>5. UserShape'
    BY <1>2 DEF ExpireFlow, UserShape, TypeOK, RowShape, SaverShape, TokenIsItsOwn
  <2>6. AnswerShape'
    BY <1>2 DEF ExpireFlow, AnswerShape, TypeOK
  <2>7. TokenIsItsOwn'
    BY <1>2 DEF ExpireFlow, TokenIsItsOwn, TypeOK, RowShape, SaverShape, UserShape
  <2>8. ExpiredIsTrue'
    BY <1>2 DEF ExpireFlow, ExpiredIsTrue, TypeOK, AnswerShape, UserShape, SaverShape
  <2> QED BY <2>1, <2>2, <2>3, <2>4, <2>5, <2>6, <2>7, <2>8
<1>3. ASSUME NEW f \in Flows, TokenDies(f)
      PROVE  IInv'
  <2>1. TypeOK'
    BY <1>3 DEF TokenDies, TypeOK, RowShape, SaverShape, UserShape
  <2>2. FlowShape'
    BY <1>3 DEF TokenDies, FlowShape, TypeOK, SaverShape
  <2>3. RowShape'
    BY <1>3 DEF TokenDies, RowShape, SaverShape, UserShape, TypeOK
  <2>4. SaverShape'
    BY <1>3 DEF TokenDies, SaverShape, TypeOK, RowShape, FlowShape
  <2>5. UserShape'
    BY <1>3 DEF TokenDies, UserShape, TypeOK, RowShape, SaverShape, TokenIsItsOwn
  <2>6. AnswerShape'
    BY <1>3 DEF TokenDies, AnswerShape, TypeOK
  <2>7. TokenIsItsOwn'
    BY <1>3 DEF TokenDies, TokenIsItsOwn, TypeOK, RowShape, SaverShape, UserShape
  <2>8. ExpiredIsTrue'
    BY <1>3 DEF TokenDies, ExpiredIsTrue, TypeOK, AnswerShape, UserShape, SaverShape
  <2> QED BY <2>1, <2>2, <2>3, <2>4, <2>5, <2>6, <2>7, <2>8
<1>4. ASSUME NEW t \in Tasks, NEW f \in Flows, NEW S \in SUBSET Accounts, Callback(t, f, S)
      PROVE  IInv'
  <2>1. TypeOK'
    <3>1. CASE Cardinality(S) = 1
      <4>1. PICK a \in S : acct' = [acct EXCEPT ![t] = a]
        BY <1>4, <3>1 DEF Callback
      <4>2. flow' = [flow EXCEPT ![f] = [at |-> "over", org |-> flow[f].org,
                                        type |-> flow[f].type, accounts |-> S]]
        BY <1>4, <3>1 DEF Callback, TypeOK
      <4>3. at' = [at EXCEPT ![t] = "lookup"] /\ tok' = [tok EXCEPT ![t] = f]
        BY <1>4, <3>1 DEF Callback, Goto
      <4> QED
        BY <1>4, <4>1, <4>2, <4>3 DEF Callback, TypeOK
    <3>2. CASE Cardinality(S) # 1
      <4>1. flow' = [flow EXCEPT ![f] = [at |-> IF S = {} THEN "over" ELSE "choose", org |-> flow[f].org,
                                        type |-> flow[f].type, accounts |-> S]]
        BY <1>4, <3>2 DEF Callback, TypeOK
      <4> QED
        BY <1>4, <3>2, <4>1 DEF Callback, Goto, TypeOK
    <3> QED BY <3>1, <3>2
  <2>2. FlowShape'
    BY <1>4 DEF Callback, Goto, FlowShape, TypeOK, SaverShape
  <2>3. RowShape'
    BY <1>4 DEF Callback, Goto, RowShape, SaverShape, UserShape, TypeOK
  <2>4. SaverShape'
    BY <1>4 DEF Callback, Goto, SaverShape, TypeOK, RowShape, FlowShape
  <2>5. UserShape'
    BY <1>4 DEF Callback, Goto, UserShape, TypeOK, RowShape, SaverShape, TokenIsItsOwn
  <2>6. AnswerShape'
    BY <1>4 DEF Callback, Goto, AnswerShape, TypeOK
  <2>7. TokenIsItsOwn'
    BY <1>4 DEF Callback, Goto, TokenIsItsOwn, TypeOK, RowShape, SaverShape, UserShape
  <2>8. ExpiredIsTrue'
    BY <1>4 DEF Callback, Goto, ExpiredIsTrue, TypeOK, AnswerShape, UserShape, SaverShape
  <2> QED BY <2>1, <2>2, <2>3, <2>4, <2>5, <2>6, <2>7, <2>8
<1>5. ASSUME NEW t \in Tasks, NEW o \in Orgs, NEW f \in Flows, NEW a \in Accounts, SelectAccount(t, o, f, a)
      PROVE  IInv'
  <2>1. TypeOK'
    BY <1>5 DEF SelectAccount, Goto, TypeOK, RowShape, SaverShape, UserShape
  <2>2. FlowShape'
    BY <1>5 DEF SelectAccount, Goto, FlowShape, TypeOK, SaverShape
  <2>3. RowShape'
    BY <1>5 DEF SelectAccount, Goto, RowShape, SaverShape, UserShape, TypeOK
  <2>4. SaverShape'
    BY <1>5 DEF SelectAccount, Goto, SaverShape, TypeOK, RowShape, FlowShape
  <2>5. UserShape'
    BY <1>5 DEF SelectAccount, Goto, UserShape, TypeOK, RowShape, SaverShape, TokenIsItsOwn
  <2>6. AnswerShape'
    BY <1>5 DEF SelectAccount, Goto, AnswerShape, TypeOK
  <2>7. TokenIsItsOwn'
    BY <1>5 DEF SelectAccount, Goto, TokenIsItsOwn, TypeOK, RowShape, SaverShape, UserShape
  <2>8. ExpiredIsTrue'
    BY <1>5 DEF SelectAccount, Goto, ExpiredIsTrue, TypeOK, AnswerShape, UserShape, SaverShape
  <2> QED BY <2>1, <2>2, <2>3, <2>4, <2>5, <2>6, <2>7, <2>8
<1>6. ASSUME NEW t \in Tasks, NEW a \in Accounts, HealthCheck(t, a)
      PROVE  IInv'
  <2>1. TypeOK'
    BY <1>6 DEF HealthCheck, Read, Goto, TypeOK, RowShape, SaverShape, UserShape
  <2>2. FlowShape'
    BY <1>6 DEF HealthCheck, Read, Goto, FlowShape, TypeOK, SaverShape
  <2>3. RowShape'
    BY <1>6 DEF HealthCheck, Read, Goto, RowShape, SaverShape, UserShape, TypeOK
  <2>4. SaverShape'
    BY <1>6 DEF HealthCheck, Read, Goto, SaverShape, TypeOK, RowShape, FlowShape
  <2>5. UserShape'
    BY <1>6 DEF HealthCheck, Read, Goto, UserShape, TypeOK, RowShape, SaverShape, TokenIsItsOwn
  <2>6. AnswerShape'
    BY <1>6 DEF HealthCheck, Read, Goto, AnswerShape, TypeOK
  <2>7. TokenIsItsOwn'
    BY <1>6 DEF HealthCheck, Read, Goto, TokenIsItsOwn, TypeOK, RowShape, SaverShape, UserShape
  <2>8. ExpiredIsTrue'
    BY <1>6 DEF HealthCheck, Read, Goto, ExpiredIsTrue, TypeOK, AnswerShape, UserShape,
       SaverShape
  <2> QED BY <2>1, <2>2, <2>3, <2>4, <2>5, <2>6, <2>7, <2>8
<1>7. ASSUME NEW t \in Tasks, NEW a \in Accounts, Renew(t, a)
      PROVE  IInv'
  <2>1. TypeOK'
    BY <1>7 DEF Renew, Read, Goto, TypeOK, RowShape, SaverShape, UserShape
  <2>2. FlowShape'
    BY <1>7 DEF Renew, Read, Goto, FlowShape, TypeOK, SaverShape
  <2>3. RowShape'
    BY <1>7 DEF Renew, Read, Goto, RowShape, SaverShape, UserShape, TypeOK
  <2>4. SaverShape'
    BY <1>7 DEF Renew, Read, Goto, SaverShape, TypeOK, RowShape, FlowShape
  <2>5. UserShape'
    BY <1>7 DEF Renew, Read, Goto, UserShape, TypeOK, RowShape, SaverShape, TokenIsItsOwn
  <2>6. AnswerShape'
    BY <1>7 DEF Renew, Read, Goto, AnswerShape, TypeOK
  <2>7. TokenIsItsOwn'
    BY <1>7 DEF Renew, Read, Goto, TokenIsItsOwn, TypeOK, RowShape, SaverShape, UserShape
  <2>8. ExpiredIsTrue'
    BY <1>7 DEF Renew, Read, Goto, ExpiredIsTrue, TypeOK, AnswerShape, UserShape, SaverShape
  <2> QED BY <2>1, <2>2, <2>3, <2>4, <2>5, <2>6, <2>7, <2>8
<1>8. ASSUME NEW t \in Tasks, NEW a \in Accounts, SendMessage(t, a)
      PROVE  IInv'
  <2>1. TypeOK'
    BY <1>8 DEF SendMessage, Read, Goto, TypeOK, RowShape, SaverShape, UserShape
  <2>2. FlowShape'
    BY <1>8 DEF SendMessage, Read, Goto, FlowShape, TypeOK, SaverShape
  <2>3. RowShape'
    BY <1>8 DEF SendMessage, Read, Goto, RowShape, SaverShape, UserShape, TypeOK
  <2>4. SaverShape'
    BY <1>8 DEF SendMessage, Read, Goto, SaverShape, TypeOK, RowShape, FlowShape
  <2>5. UserShape'
    BY <1>8 DEF SendMessage, Read, Goto, UserShape, TypeOK, RowShape, SaverShape, TokenIsItsOwn
  <2>6. AnswerShape'
    BY <1>8 DEF SendMessage, Read, Goto, AnswerShape, TypeOK
  <2>7. TokenIsItsOwn'
    BY <1>8 DEF SendMessage, Read, Goto, TokenIsItsOwn, TypeOK, RowShape, SaverShape, UserShape
  <2>8. ExpiredIsTrue'
    BY <1>8 DEF SendMessage, Read, Goto, ExpiredIsTrue, TypeOK, AnswerShape, UserShape,
       SaverShape
  <2> QED BY <2>1, <2>2, <2>3, <2>4, <2>5, <2>6, <2>7, <2>8
<1>9. ASSUME NEW t \in Tasks, Lookup(t)
      PROVE  IInv'
  <2>1. TypeOK'
    BY <1>9 DEF Lookup, Goto, TypeOK, RowShape, SaverShape, UserShape
  <2>2. FlowShape'
    BY <1>9 DEF Lookup, Goto, FlowShape, TypeOK, SaverShape
  <2>3. RowShape'
    BY <1>9 DEF Lookup, Goto, RowShape, SaverShape, UserShape, TypeOK
  <2>4. SaverShape'
    BY <1>9 DEF Lookup, Goto, SaverShape, TypeOK, RowShape, FlowShape
  <2>5. UserShape'
    BY <1>9 DEF Lookup, Goto, UserShape, TypeOK, RowShape, SaverShape, TokenIsItsOwn
  <2>6. AnswerShape'
    BY <1>9 DEF Lookup, Goto, AnswerShape, TypeOK
  <2>7. TokenIsItsOwn'
    BY <1>9 DEF Lookup, Goto, TokenIsItsOwn, TypeOK, RowShape, SaverShape, UserShape
  <2>8. ExpiredIsTrue'
    BY <1>9 DEF Lookup, Goto, ExpiredIsTrue, TypeOK, AnswerShape, UserShape, SaverShape
  <2> QED BY <2>1, <2>2, <2>3, <2>4, <2>5, <2>6, <2>7, <2>8
<1>10. ASSUME NEW t \in Tasks, Save(t)
      PROVE  IInv'
  <2>d. Keeps /\ (at'[t] = "subscribe" => row'[acct[t]] # None)
    <3>1. CASE had[t] = There(acct[t])
      <4> DEFINE c == Connected(t, had[t] /\ row[acct[t]].hooks)
      <4>1. acct[t] \in Accounts /\ tok[t] \in Flows /\ flow[tok[t]].org \in Orgs
        BY <1>10 DEF Save, SaverShape
      <4>2. (had[t] /\ row[acct[t]].hooks) \in BOOLEAN
        OBVIOUS
      <4>3. flow[tok[t]].type \in Type
        BY <4>1 DEF TypeOK
      <4>4. c \in Channel /\ c.org = flow[tok[t]].org
        BY <4>1, <4>2, <4>3 DEF Connected
      <4>5. There(acct[t]) => c.org = row[acct[t]].org
        BY <1>10, <3>1, <4>4 DEF Save, SaverShape
      <4>6. row' = [row EXCEPT ![acct[t]] = c]
        BY <1>10, <3>1 DEF Save
      <4>7. c # None
        BY <4>4
      <4> HIDE DEF c
      <4> QED
        BY <4>1, <4>4, <4>5, <4>6, <4>7, RowWritten DEF TypeOK
    <3>2. CASE had[t] # There(acct[t])
      BY <1>10, <3>2 DEF Save, Goto, Keeps, TypeOK
    <3> QED BY <3>1, <3>2
  <2>1. TypeOK'
    BY <1>10, <2>d DEF Save, Connected, Goto, TypeOK, RowShape, SaverShape, UserShape, Keeps
  <2>2. FlowShape'
    BY <1>10 DEF Save, Connected, Goto, FlowShape, TypeOK, SaverShape
  <2>3. RowShape'
    BY <1>10 DEF Save, Connected, Goto, RowShape, SaverShape, UserShape, TypeOK
  <2>4. SaverShape'
    BY <1>10, <2>d DEF Save, Goto, SaverShape, TypeOK, Keeps
  <2>5. UserShape'
    BY <1>10, <2>d DEF Save, Connected, Goto, UserShape, TypeOK, SaverShape, Keeps
  <2>6. AnswerShape'
    BY <1>10 DEF Save, Connected, Goto, AnswerShape, TypeOK
  <2>7. TokenIsItsOwn'
    BY <1>10 DEF Save, Connected, Goto, TokenIsItsOwn, TypeOK, RowShape, SaverShape, UserShape
  <2>8. ExpiredIsTrue'
    BY <1>10 DEF Save, Connected, Goto, ExpiredIsTrue, TypeOK, AnswerShape, UserShape,
       SaverShape
  <2> QED BY <2>1, <2>2, <2>3, <2>4, <2>5, <2>6, <2>7, <2>8
<1>11. ASSUME NEW t \in Tasks, Mark(t)
      PROVE  IInv'
  <2> DEFINE c == [row[acct[t]] EXCEPT !.hooks = (said[t] = "ok")]
  <2>a. acct[t] \in Accounts /\ row[acct[t]] \in Channel
    BY <1>11, RowRead DEF Mark, Goto, SaverShape, UserShape
  <2>b. c \in Channel /\ c.org = row[acct[t]].org
    BY <1>11, <2>a DEF Mark, Goto, UserShape, TypeOK
  <2>c. row' = [row EXCEPT ![acct[t]] = c]
    BY <1>11, <2>a DEF Mark, Goto, TypeOK
  <2>d. Keeps
    BY <2>a, <2>b, <2>c, RowWritten
  <2> HIDE DEF c
  <2>1. TypeOK'
    BY <1>11, <2>a, <2>d DEF Mark, Goto, TypeOK, RowShape, SaverShape, UserShape, Keeps
  <2>2. FlowShape'
    BY <1>11 DEF Mark, Goto, FlowShape, TypeOK, SaverShape
  <2>3. RowShape'
    BY <1>11 DEF Mark, Goto, RowShape, SaverShape, UserShape, TypeOK
  <2>4. SaverShape'
    BY <1>11, <2>a, <2>d DEF Mark, Goto, SaverShape, TypeOK, Keeps
  <2>5. UserShape'
    BY <1>11, <2>a, <2>d DEF Mark, Goto, UserShape, TypeOK, SaverShape, Keeps
  <2>6. AnswerShape'
    BY <1>11 DEF Mark, Goto, AnswerShape, TypeOK
  <2>7. TokenIsItsOwn'
    BY <1>11 DEF Mark, Goto, TokenIsItsOwn, TypeOK, RowShape, SaverShape, UserShape
  <2>8. ExpiredIsTrue'
    BY <1>11 DEF Mark, Goto, ExpiredIsTrue, TypeOK, AnswerShape, UserShape, SaverShape
  <2> QED BY <2>1, <2>2, <2>3, <2>4, <2>5, <2>6, <2>7, <2>8
<1>12. ASSUME NEW t \in Tasks, NEW answer \in {"ok", "refused", "failed"}, Call(t, answer)
      PROVE  IInv'
  <2>1. TypeOK'
    BY <1>12 DEF Call, Calling, After, Subscribes, Goto, TypeOK, RowShape, SaverShape,
       UserShape
  <2>2. FlowShape'
    BY <1>12 DEF Call, Calling, After, Subscribes, Goto, FlowShape, TypeOK, SaverShape
  <2>3. RowShape'
    BY <1>12 DEF Call, Calling, After, Subscribes, Goto, RowShape, SaverShape, UserShape,
       TypeOK
  <2>4. SaverShape'
    BY <1>12 DEF Call, Calling, After, Subscribes, Goto, SaverShape, TypeOK, RowShape,
       FlowShape
  <2>5. UserShape'
    BY <1>12 DEF Call, Calling, After, Subscribes, Goto, UserShape, TypeOK, RowShape,
       SaverShape, TokenIsItsOwn
  <2>6. AnswerShape'
    BY <1>12 DEF Call, Calling, After, Subscribes, Goto, AnswerShape, TypeOK
  <2>7. TokenIsItsOwn'
    BY <1>12 DEF Call, Calling, After, Subscribes, Goto, TokenIsItsOwn, TypeOK, RowShape,
       SaverShape, UserShape
  <2>8. ExpiredIsTrue'
    BY <1>12 DEF Call, Calling, After, Subscribes, Goto, ExpiredIsTrue, TypeOK, AnswerShape,
       UserShape, SaverShape
  <2> QED BY <2>1, <2>2, <2>3, <2>4, <2>5, <2>6, <2>7, <2>8
<1>13. ASSUME NEW t \in Tasks, EndCheck(t)
      PROVE  IInv'
  <2> DEFINE c == [row[acct[t]] EXCEPT !.status = CASE said[t] = "ok" -> "active"
                                   [] said[t] = "refused" -> "token_expired"
                                   [] OTHER -> "error"]
  <2>a. acct[t] \in Accounts /\ row[acct[t]] \in Channel
    BY <1>13, RowRead DEF EndCheck, Cross, Goto, SaverShape, UserShape
  <2>b. c \in Channel /\ c.org = row[acct[t]].org
    BY <1>13, <2>a DEF EndCheck, Cross, Goto, UserShape, TypeOK
  <2>c. row' = [row EXCEPT ![acct[t]] = c]
    BY <1>13, <2>a DEF EndCheck, Cross, Goto, TypeOK
  <2>d. Keeps
    BY <2>a, <2>b, <2>c, RowWritten
  <2> HIDE DEF c
  <2>1. TypeOK'
    BY <1>13, <2>a, <2>d DEF EndCheck, Cross, Goto, TypeOK, RowShape, SaverShape, UserShape,
       Keeps
  <2>2. FlowShape'
    BY <1>13 DEF EndCheck, Cross, Goto, FlowShape, TypeOK, SaverShape
  <2>3. RowShape'
    BY <1>13 DEF EndCheck, Cross, Goto, RowShape, SaverShape, UserShape, TypeOK
  <2>4. SaverShape'
    BY <1>13, <2>a, <2>d DEF EndCheck, Cross, Goto, SaverShape, TypeOK, Keeps
  <2>5. UserShape'
    BY <1>13, <2>a, <2>d DEF EndCheck, Cross, Goto, UserShape, TypeOK, SaverShape, Keeps
  <2>6. AnswerShape'
    BY <1>13 DEF EndCheck, Cross, Goto, AnswerShape, TypeOK
  <2>7. TokenIsItsOwn'
    BY <1>13 DEF EndCheck, Cross, Goto, TokenIsItsOwn, TypeOK, RowShape, SaverShape, UserShape
  <2>8. ExpiredIsTrue'
    BY <1>13 DEF EndCheck, Cross, Goto, ExpiredIsTrue, TypeOK, AnswerShape, UserShape,
       SaverShape
  <2> QED BY <2>1, <2>2, <2>3, <2>4, <2>5, <2>6, <2>7, <2>8
<1>14. ASSUME NEW t \in Tasks, EndRenewal(t)
      PROVE  IInv'
  <2> DEFINE c == IF said[t] = "ok"
                 THEN [row[acct[t]] EXCEPT !.token = tok[t], !.due = FALSE]
                 ELSE [row[acct[t]] EXCEPT !.status = "token_expired"]
  <2>a. acct[t] \in Accounts /\ row[acct[t]] \in Channel
    BY <1>14, RowRead DEF EndRenewal, Cross, Goto, SaverShape, UserShape
  <2>b. c \in Channel /\ c.org = row[acct[t]].org
    BY <1>14, <2>a DEF EndRenewal, Cross, Goto, UserShape, TypeOK
  <2>c. row' = [row EXCEPT ![acct[t]] = c]
    BY <1>14, <2>a DEF EndRenewal, Cross, Goto, TypeOK
  <2>d. Keeps
    BY <2>a, <2>b, <2>c, RowWritten
  <2> HIDE DEF c
  <2>1. TypeOK'
    BY <1>14, <2>a, <2>d DEF EndRenewal, Cross, Goto, TypeOK, RowShape, SaverShape,
       UserShape, Keeps
  <2>2. FlowShape'
    BY <1>14 DEF EndRenewal, Cross, Goto, FlowShape, TypeOK, SaverShape
  <2>3. RowShape'
    BY <1>14 DEF EndRenewal, Cross, Goto, RowShape, SaverShape, UserShape, TypeOK
  <2>4. SaverShape'
    BY <1>14, <2>a, <2>d DEF EndRenewal, Cross, Goto, SaverShape, TypeOK, Keeps
  <2>5. UserShape'
    BY <1>14, <2>a, <2>d DEF EndRenewal, Cross, Goto, UserShape, TypeOK, SaverShape, Keeps
  <2>6. AnswerShape'
    BY <1>14 DEF EndRenewal, Cross, Goto, AnswerShape, TypeOK
  <2>7. TokenIsItsOwn'
    BY <1>14 DEF EndRenewal, Cross, Goto, TokenIsItsOwn, TypeOK, RowShape, SaverShape,
       UserShape
  <2>8. ExpiredIsTrue'
    BY <1>14 DEF EndRenewal, Cross, Goto, ExpiredIsTrue, TypeOK, AnswerShape, UserShape,
       SaverShape
  <2> QED BY <2>1, <2>2, <2>3, <2>4, <2>5, <2>6, <2>7, <2>8
<1>15. ASSUME NEW t \in Tasks, EndSend(t)
      PROVE  IInv'
  <2> DEFINE c == IF said[t] = "refused"
                 THEN [row[acct[t]] EXCEPT !.status = "token_expired"] ELSE row[acct[t]]
  <2>a. acct[t] \in Accounts /\ row[acct[t]] \in Channel
    BY <1>15, RowRead DEF EndSend, Cross, Goto, SaverShape, UserShape
  <2>b. c \in Channel /\ c.org = row[acct[t]].org
    BY <1>15, <2>a DEF EndSend, Cross, Goto, UserShape, TypeOK
  <2>c. row' = [row EXCEPT ![acct[t]] = c]
    BY <1>15, <2>a DEF EndSend, Cross, Goto, TypeOK
  <2>d. Keeps
    BY <2>a, <2>b, <2>c, RowWritten
  <2> HIDE DEF c
  <2>1. TypeOK'
    BY <1>15, <2>a, <2>d DEF EndSend, Cross, Goto, TypeOK, RowShape, SaverShape, UserShape,
       Keeps
  <2>2. FlowShape'
    BY <1>15 DEF EndSend, Cross, Goto, FlowShape, TypeOK, SaverShape
  <2>3. RowShape'
    BY <1>15 DEF EndSend, Cross, Goto, RowShape, SaverShape, UserShape, TypeOK
  <2>4. SaverShape'
    BY <1>15, <2>a, <2>d DEF EndSend, Cross, Goto, SaverShape, TypeOK, Keeps
  <2>5. UserShape'
    BY <1>15, <2>a, <2>d DEF EndSend, Cross, Goto, UserShape, TypeOK, SaverShape, Keeps
  <2>6. AnswerShape'
    BY <1>15 DEF EndSend, Cross, Goto, AnswerShape, TypeOK
  <2>7. TokenIsItsOwn'
    BY <1>15 DEF EndSend, Cross, Goto, TokenIsItsOwn, TypeOK, RowShape, SaverShape, UserShape
  <2>8. ExpiredIsTrue'
    BY <1>15 DEF EndSend, Cross, Goto, ExpiredIsTrue, TypeOK, AnswerShape, UserShape,
       SaverShape
  <2> QED BY <2>1, <2>2, <2>3, <2>4, <2>5, <2>6, <2>7, <2>8
<1>16. ASSUME NEW a \in Accounts, Disconnect(a)
      PROVE  IInv'
  <2> DEFINE c == [row[a] EXCEPT !.status = "disconnected", !.hooks = FALSE]
  <2>a. a \in Accounts /\ row[a] \in Channel
    BY <1>16, RowRead DEF Disconnect, SaverShape, UserShape
  <2>b. c \in Channel /\ c.org = row[a].org
    BY <1>16, <2>a DEF Disconnect, UserShape, TypeOK
  <2>c. row' = [row EXCEPT ![a] = c]
    BY <1>16, <2>a DEF Disconnect, TypeOK
  <2>d. Keeps
    BY <2>a, <2>b, <2>c, RowWritten
  <2> HIDE DEF c
  <2>1. TypeOK'
    BY <1>16, <2>a, <2>d DEF Disconnect, TypeOK, RowShape, SaverShape, UserShape, Keeps
  <2>2. FlowShape'
    BY <1>16 DEF Disconnect, FlowShape, TypeOK, SaverShape
  <2>3. RowShape'
    BY <1>16 DEF Disconnect, RowShape, SaverShape, UserShape, TypeOK
  <2>4. SaverShape'
    BY <1>16, <2>a, <2>d DEF Disconnect, SaverShape, TypeOK, Keeps
  <2>5. UserShape'
    BY <1>16, <2>a, <2>d DEF Disconnect, UserShape, TypeOK, SaverShape, Keeps
  <2>6. AnswerShape'
    BY <1>16 DEF Disconnect, AnswerShape, TypeOK
  <2>7. TokenIsItsOwn'
    BY <1>16 DEF Disconnect, TokenIsItsOwn, TypeOK, RowShape, SaverShape, UserShape
  <2>8. ExpiredIsTrue'
    BY <1>16 DEF Disconnect, ExpiredIsTrue, TypeOK, AnswerShape, UserShape, SaverShape
  <2> QED BY <2>1, <2>2, <2>3, <2>4, <2>5, <2>6, <2>7, <2>8
<1>17. ASSUME NEW a \in Accounts, BecomesDue(a)
      PROVE  IInv'
  <2> DEFINE c == [row[a] EXCEPT !.due = TRUE]
  <2>a. a \in Accounts /\ row[a] \in Channel
    BY <1>17, RowRead DEF BecomesDue, SaverShape, UserShape
  <2>b. c \in Channel /\ c.org = row[a].org
    BY <1>17, <2>a DEF BecomesDue, UserShape, TypeOK
  <2>c. row' = [row EXCEPT ![a] = c]
    BY <1>17, <2>a DEF BecomesDue, TypeOK
  <2>d. Keeps
    BY <2>a, <2>b, <2>c, RowWritten
  <2> HIDE DEF c
  <2>1. TypeOK'
    BY <1>17, <2>a, <2>d DEF BecomesDue, TypeOK, RowShape, SaverShape, UserShape, Keeps
  <2>2. FlowShape'
    BY <1>17 DEF BecomesDue, FlowShape, TypeOK, SaverShape
  <2>3. RowShape'
    BY <1>17 DEF BecomesDue, RowShape, SaverShape, UserShape, TypeOK
  <2>4. SaverShape'
    BY <1>17, <2>a, <2>d DEF BecomesDue, SaverShape, TypeOK, Keeps
  <2>5. UserShape'
    BY <1>17, <2>a, <2>d DEF BecomesDue, UserShape, TypeOK, SaverShape, Keeps
  <2>6. AnswerShape'
    BY <1>17 DEF BecomesDue, AnswerShape, TypeOK
  <2>7. TokenIsItsOwn'
    BY <1>17 DEF BecomesDue, TokenIsItsOwn, TypeOK, RowShape, SaverShape, UserShape
  <2>8. ExpiredIsTrue'
    BY <1>17 DEF BecomesDue, ExpiredIsTrue, TypeOK, AnswerShape, UserShape, SaverShape
  <2> QED BY <2>1, <2>2, <2>3, <2>4, <2>5, <2>6, <2>7, <2>8
<1>18. CASE UNCHANGED vars
  BY <1>18 DEF vars, TypeOK, FlowShape, RowShape, SaverShape, UserShape, AnswerShape,
     TokenIsItsOwn, ExpiredIsTrue
<1> QED
  BY <1>1, <1>2, <1>3, <1>4, <1>5, <1>6, <1>7, <1>8, <1>9, <1>10, <1>11, <1>12, <1>13,
     <1>14, <1>15, <1>16, <1>17, <1>18 DEF Next, OAuth, Start, Proceed

\* The invariant holds in every state.
THEOREM Invariance == Spec => []IInv
<1>1. Init => IInv
  BY Beginning
<1>2. IInv /\ [Next]_vars => IInv'
  BY Inductive
<1> QED BY <1>1, <1>2, PTL DEF Spec

\* Type correctness, for the tasks' steps and what Meta answers to them.
THEOREM TypeCorrect == Spec => []TypeOK
<1>1. IInv => TypeOK
  BY DEF IInv
<1> QED BY <1>1, Invariance, PTL

\* The token of a channel was granted to its organization, for its account and
\* for its kind of connection: createChannel, whatever else is under way.
THEOREM TokenTheorem == Spec => []TokenIsItsOwn
<1>1. IInv => TokenIsItsOwn
  BY DEF IInv
<1> QED BY <1>1, Invariance, PTL

\* A channel shown as expired has a token that was refused or not renewed, unless
\* it was written to for another token: probeChannel, renewExpiringTokens, process.
THEOREM ExpiredTheorem == Spec => []ExpiredIsTrue
<1>1. IInv => ExpiredIsTrue
  BY DEF IInv
<1> QED BY <1>1, Invariance, PTL

=============================================================================
