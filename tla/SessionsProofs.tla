--------------------------- MODULE SessionsProofs ---------------------------
(***************************************************************************)
(* Proofs about Sessions, for any users, organizations and requests, with  *)
(* every request mortal and every token expiring.                          *)
(***************************************************************************)
EXTENDS Sessions, TLAPS

\* Who had ended when a request began had ended for good.
BeforeHadEnded ==
  \A r \in Requests : \A q \in before[r] : pc[q] \in Ended

\* What a request knows at each step.
AskShape ==
  /\ \A pair \in member : pair[1] \in known
  /\ \A r \in Requests :
       /\ pc[r] = "issue" => kind[r] = "login" /\ who[r] \in Users /\ where[r] \in Orgs
       /\ pc[r] \in {"create", "join", "enter"} =>
            kind[r] = "accept" /\ who[r] \in Users /\ where[r] \in Orgs
       /\ pc[r] = "revoke" => kind[r] = "remove"
       /\ pc[r] = "commit" => kind[r] = "suspend" /\ where[r] \in Orgs
       /\ kind[r] = "remove" => who[r] \in known /\ <<who[r], where[r]>> \in Users \X Orgs

\* A request that exchanges or revokes by a token has read one of its user's.
WithShape ==
  \A r \in Requests :
    /\ pc[r] \in {"check", "rotate"} \/ Exchanged(r) =>
         /\ kind[r] \in Exchanges
         /\ who[r] \in Users /\ where[r] \in Orgs
         /\ with[r] \in Tokens
         /\ who[with[r]] = who[r]
    /\ kind[r] = "logout" => with[r] \in Tokens

\* Families are begun by a token of the same user.
FamilyShape ==
  /\ \A t \in Tokens : family[t] \in Tokens /\ who[family[t]] = who[t]
  /\ \A r \in Requests \ Tokens : family[r] = r

\* A token that was exchanged is revoked, and no exchange that began after
\* that has got past its first read.
ExchangedIsRevoked ==
  \A r \in Requests : Exchanged(r) => with[r] \notin live

SpentBefore ==
  \A r \in Requests : \A q \in before[r] :
    (pc[r] \in {"check", "rotate"} \/ Exchanged(r)) /\ Exchanged(q) => with[q] # with[r]

\* Somebody came back after the removal q, or the organization of q was
\* reactivated after the suspension q.
Rejoined(q) ==
  \E j \in Tokens : kind[j] = "accept" /\ SamePair(j, q) /\ j \notin before[q]

Reactivated(q) ==
  \E j \in Requests : /\ kind[j] = "reactivate" /\ pc[j] = "done"
                      /\ where[j] = where[q] /\ j \notin before[q]

RemovedIsOut ==
  \A q \in Requests :
    kind[q] = "remove" /\ pc[q] \in {"revoke", "done"}
      => <<who[q], where[q]>> \notin member \/ Rejoined(q)

\* A request that has read a membership began before the removal ended, or
\* after somebody came back.
ReadMember ==
  \A r \in Requests : \A q \in before[r] :
    /\ pc[r] \in {"issue", "rotate", "granted"}
    /\ kind[q] = "remove" /\ pc[q] = "done" /\ SamePair(r, q)
    => Rejoined(q)

SuspendedIsOut ==
  \A q \in Requests :
    kind[q] = "suspend" /\ pc[q] = "done"
      => where[q] \in suspended \/ Reactivated(q)

ReadActive ==
  \A r \in Requests : \A q \in before[r] :
    /\ pc[r] \in {"issue", "rotate", "granted"} /\ kind[r] \in {"login", "refresh", "switch"}
    /\ kind[q] = "suspend" /\ pc[q] = "done" /\ where[r] = where[q]
    => Reactivated(q)

\* An open suspension has caught what there was to catch.
CaughtShape ==
  \A q \in Requests, t \in Tokens :
    pc[q] = "commit" /\ t \in before[q] /\ where[t] = where[q] /\ t \in live
      => t \in caught[q]

IInv ==
  /\ TypeOK
  /\ BeforeHadEnded
  /\ AskShape
  /\ WithShape
  /\ FamilyShape
  /\ ExchangedIsRevoked
  /\ SpentBefore
  /\ RemovedIsOut
  /\ ReadMember
  /\ SuspendedIsOut
  /\ ReadActive
  /\ CaughtShape
  /\ OldSessionsEnd

LEMMA Inductive == IInv /\ [Next]_vars => IInv'
<1> SUFFICES ASSUME IInv, [Next]_vars PROVE IInv'
  OBVIOUS
<1> USE SessionsAssumption DEF IInv, orgVars, inviteVars, tokenVars,
     askVars, Kind, Ended, Exchanges, Exchanged, Step, Tokens, Goto
<1>1. ASSUME NEW r \in Requests, NEW u \in Users, NEW o \in Orgs,
       LoginRead(r, u, o)
      PROVE  IInv'
  <2>1. TypeOK'
    BY <1>1 DEF LoginRead, Arrive, Active, TypeOK
  <2>2. BeforeHadEnded'
    BY <1>1 DEF LoginRead, Arrive, Active, BeforeHadEnded
  <2>3. AskShape'
    BY <1>1 DEF LoginRead, Arrive, Active, AskShape, TypeOK
  <2>4. WithShape'
    BY <1>1 DEF LoginRead, Arrive, Active, WithShape, TypeOK
  <2>5. FamilyShape'
    BY <1>1 DEF LoginRead, Arrive, Active, FamilyShape
  <2>6. ExchangedIsRevoked'
    BY <1>1 DEF LoginRead, Arrive, Active, ExchangedIsRevoked
  <2>7. SpentBefore'
    BY <1>1 DEF LoginRead, Arrive, Active, SpentBefore
  <2>8. RemovedIsOut'
    BY <1>1 DEF LoginRead, Arrive, Active, RemovedIsOut, Rejoined, SamePair
  <2>9. ReadMember'
    <3> SUFFICES ASSUME NEW s \in Requests, NEW q \in before'[s],
                        pc'[s] \in {"issue", "rotate", "granted"},
                        kind'[q] = "remove", pc'[q] = "done", SamePair(s, q)'
                 PROVE  Rejoined(q)'
      BY DEF ReadMember
    <3>1. q \in Requests /\ q # r /\ pc[q] = "done" /\ UNCHANGED <<kind[q], who[q], where[q], before[q]>>
      BY <1>1 DEF LoginRead, Arrive, TypeOK, BeforeHadEnded
    <3>2. Rejoined(q) => Rejoined(q)'
      BY <1>1, <3>1 DEF LoginRead, Arrive, Rejoined, SamePair, TypeOK
    <3>3. CASE s = r
      BY <1>1, <3>1, <3>2, <3>3 DEF LoginRead, Arrive, Active, SamePair, RemovedIsOut, TypeOK
    <3>4. CASE s # r
      BY <1>1, <3>1, <3>2, <3>4 DEF LoginRead, Arrive, ReadMember, SamePair, TypeOK
    <3> QED BY <3>3, <3>4
  <2>10. SuspendedIsOut'
    BY <1>1 DEF LoginRead, Arrive, Active, SuspendedIsOut, Reactivated
  <2>11. ReadActive'
    <3> SUFFICES ASSUME NEW s \in Requests, NEW q \in before'[s],
                        pc'[s] \in {"issue", "rotate", "granted"},
                        kind'[q] = "suspend", pc'[q] = "done",
                        kind'[s] \in {"login", "refresh", "switch"},
                        where'[s] = where'[q]
                 PROVE  Reactivated(q)'
      BY DEF ReadActive
    <3>1. q \in Requests /\ q # r /\ pc[q] = "done" /\ UNCHANGED <<kind[q], who[q], where[q], before[q]>>
      BY <1>1 DEF LoginRead, Arrive, TypeOK, BeforeHadEnded
    <3>2. Reactivated(q) => Reactivated(q)'
      BY <1>1, <3>1 DEF LoginRead, Arrive, Reactivated, SamePair, TypeOK
    <3>3. CASE s = r
      BY <1>1, <3>1, <3>2, <3>3 DEF LoginRead, Arrive, Active, SuspendedIsOut, TypeOK
    <3>4. CASE s # r
      BY <1>1, <3>1, <3>2, <3>4 DEF LoginRead, Arrive, ReadActive, SamePair, TypeOK
    <3> QED BY <3>3, <3>4
  <2>12. CaughtShape'
    BY <1>1 DEF LoginRead, Arrive, Active, CaughtShape
  <2>13. OldSessionsEnd'
    BY <1>1 DEF LoginRead, Arrive, Active, OldSessionsEnd, Covers, SamePair
  <2> QED BY <2>1, <2>2, <2>3, <2>4, <2>5, <2>6, <2>7, <2>8, <2>9, <2>10,
      <2>11, <2>12, <2>13
<1>2. ASSUME NEW r \in Requests, NEW u \in Users, LoginRefused(r, u)
      PROVE  IInv'
  <2>1. TypeOK'
    BY <1>2 DEF LoginRefused, Arrive, TypeOK
  <2>2. BeforeHadEnded'
    BY <1>2 DEF LoginRefused, Arrive, BeforeHadEnded
  <2>3. AskShape'
    BY <1>2 DEF LoginRefused, Arrive, AskShape, TypeOK
  <2>4. WithShape'
    BY <1>2 DEF LoginRefused, Arrive, WithShape, TypeOK
  <2>5. FamilyShape'
    BY <1>2 DEF LoginRefused, Arrive, FamilyShape
  <2>6. ExchangedIsRevoked'
    BY <1>2 DEF LoginRefused, Arrive, ExchangedIsRevoked
  <2>7. SpentBefore'
    BY <1>2 DEF LoginRefused, Arrive, SpentBefore
  <2>8. RemovedIsOut'
    BY <1>2 DEF LoginRefused, Arrive, RemovedIsOut, Rejoined, SamePair
  <2>9. ReadMember'
    BY <1>2 DEF LoginRefused, Arrive, ReadMember, Rejoined, SamePair
  <2>10. SuspendedIsOut'
    BY <1>2 DEF LoginRefused, Arrive, SuspendedIsOut, Reactivated
  <2>11. ReadActive'
    BY <1>2 DEF LoginRefused, Arrive, ReadActive, Reactivated
  <2>12. CaughtShape'
    BY <1>2 DEF LoginRefused, Arrive, CaughtShape
  <2>13. OldSessionsEnd'
    BY <1>2 DEF LoginRefused, Arrive, OldSessionsEnd, Covers, SamePair
  <2> QED BY <2>1, <2>2, <2>3, <2>4, <2>5, <2>6, <2>7, <2>8, <2>9, <2>10,
      <2>11, <2>12, <2>13
<1>3. ASSUME NEW r \in Requests, LoginIssue(r)
      PROVE  IInv'
  <2>1. TypeOK'
    <3>1. /\ r \notin Tokens /\ who[r] \in Users /\ where[r] \in Orgs
          /\ \A s \in Requests : pc'[s] = IF s = r THEN "granted" ELSE pc[s]
      BY <1>3 DEF LoginIssue, Issue, AskShape, TypeOK
    <3>2. live' \subseteq Tokens' /\ expired' \subseteq Tokens'
      BY <1>3, <3>1 DEF LoginIssue, Issue, TypeOK
    <3>3. \A t \in Tokens' : who'[t] \in Users /\ where'[t] \in Orgs
      BY <1>3, <3>1 DEF LoginIssue, TypeOK
    <3>4. pc' \in [Requests -> Step] /\ family' \in [Requests -> Requests]
      BY <1>3 DEF LoginIssue, Issue, TypeOK
    <3> QED BY <1>3, <3>2, <3>3, <3>4 DEF LoginIssue, TypeOK
  <2>2. BeforeHadEnded'
    BY <1>3 DEF LoginIssue, Issue, BeforeHadEnded
  <2>3. AskShape'
    BY <1>3 DEF LoginIssue, Issue, AskShape
  <2>4. WithShape'
    <3>1. kind[r] = "login" /\ Tokens \subseteq Tokens'
      BY <1>3 DEF LoginIssue, Issue, AskShape, TypeOK
    <3>2. \A s \in Requests : pc'[s] = IF s = r THEN "granted" ELSE pc[s]
      BY <1>3 DEF LoginIssue, Issue, TypeOK
    <3> QED BY <1>3, <3>1, <3>2 DEF LoginIssue, WithShape
  <2>5. FamilyShape'
    BY <1>3 DEF LoginIssue, Issue, FamilyShape
  <2>6. ExchangedIsRevoked'
    <3> SUFFICES ASSUME NEW s \in Requests, Exchanged(s)'
                 PROVE  with'[s] \notin live'
      BY DEF ExchangedIsRevoked
    <3>1. kind[r] = "login" /\ r \notin Tokens
      BY <1>3 DEF LoginIssue, AskShape
    <3>2. Exchanged(s) /\ with'[s] = with[s]
      BY <1>3, <3>1 DEF LoginIssue, Issue, TypeOK
    <3>3. with[s] # r
      BY <3>1, <3>2 DEF WithShape
    <3> QED BY <1>3, <3>2, <3>3 DEF LoginIssue, ExchangedIsRevoked
  <2>7. SpentBefore'
    <3> SUFFICES ASSUME NEW s \in Requests, NEW q \in before'[s], Exchanged(q)',
                        (pc[s] \in {"check", "rotate"} \/ Exchanged(s))'
                 PROVE  with'[q] # with'[s]
      BY DEF SpentBefore
    <3>1. kind[r] = "login" /\ q \in before[s] /\ q \in Requests
      BY <1>3 DEF LoginIssue, AskShape, TypeOK
    <3>2. Exchanged(q) /\ (pc[s] \in {"check", "rotate"} \/ Exchanged(s))
      BY <1>3, <3>1 DEF LoginIssue, Issue, TypeOK
    <3> QED BY <1>3, <3>1, <3>2 DEF LoginIssue, SpentBefore
  <2>8. RemovedIsOut'
    BY <1>3 DEF LoginIssue, Issue, RemovedIsOut, Rejoined, SamePair
  <2>9. ReadMember'
    BY <1>3 DEF LoginIssue, Issue, ReadMember, Rejoined, SamePair
  <2>10. SuspendedIsOut'
    BY <1>3 DEF LoginIssue, Issue, SuspendedIsOut, Reactivated
  <2>11. ReadActive'
    BY <1>3 DEF LoginIssue, Issue, ReadActive, Reactivated
  <2>12. CaughtShape'
    BY <1>3 DEF LoginIssue, Issue, CaughtShape, BeforeHadEnded
  <2>13. OldSessionsEnd'
    BY <1>3 DEF LoginIssue, Issue, OldSessionsEnd, BeforeHadEnded, CaughtShape,
      WithShape, AskShape, Covers, SamePair
  <2> QED BY <2>1, <2>2, <2>3, <2>4, <2>5, <2>6, <2>7, <2>8, <2>9, <2>10,
      <2>11, <2>12, <2>13
<1>4. ASSUME NEW r \in Requests, NEW u \in Users, NEW o \in Orgs,
       Register(r, u, o)
      PROVE  IInv'
  <2>1. TypeOK'
    BY <1>4 DEF Register, Arrive, TypeOK
  <2>2. BeforeHadEnded'
    BY <1>4 DEF Register, Arrive, BeforeHadEnded, TypeOK
  <2>3. AskShape'
    BY <1>4 DEF Register, Arrive, AskShape, TypeOK
  <2>4. WithShape'
    BY <1>4 DEF Register, Arrive, WithShape, TypeOK
  <2>5. FamilyShape'
    BY <1>4 DEF Register, Arrive, FamilyShape, TypeOK
  <2>6. ExchangedIsRevoked'
    BY <1>4 DEF Register, Arrive, ExchangedIsRevoked, TypeOK, WithShape,
      AskShape
  <2>7. SpentBefore'
    BY <1>4 DEF Register, Arrive, SpentBefore, TypeOK
  <2>8. RemovedIsOut'
    BY <1>4 DEF Register, Arrive, RemovedIsOut, TypeOK, AskShape,
      BeforeHadEnded, Rejoined, SamePair
  <2>9. ReadMember'
    <3> SUFFICES ASSUME NEW s \in Requests, NEW q \in before'[s],
                        pc'[s] \in {"issue", "rotate", "granted"},
                        kind'[q] = "remove", pc'[q] = "done", SamePair(s, q)'
                 PROVE  Rejoined(q)'
      BY DEF ReadMember
    <3>1. q \in Requests /\ q # r /\ pc[q] = "done" /\ UNCHANGED <<kind[q], who[q], where[q], before[q]>>
      BY <1>4 DEF Register, Arrive, TypeOK, BeforeHadEnded
    <3>2. Rejoined(q) => Rejoined(q)'
      BY <1>4, <3>1 DEF Register, Arrive, Rejoined, SamePair, TypeOK
    <3>3. CASE s = r
      <4>1. CASE u \in known
        BY <1>4, <3>3, <4>1 DEF Register, Arrive, TypeOK
      <4>2. CASE u \notin known
        <5>1. who[q] = u /\ kind[q] = "remove"
          BY <1>4, <3>1, <3>3 DEF Register, Arrive, SamePair, TypeOK
        <5> QED BY <3>1, <4>2, <5>1 DEF AskShape
      <4> QED BY <4>1, <4>2
    <3>4. CASE s # r
      BY <1>4, <3>1, <3>2, <3>4 DEF Register, Arrive, ReadMember, SamePair, TypeOK
    <3> QED BY <3>3, <3>4
  <2>10. SuspendedIsOut'
    BY <1>4 DEF Register, Arrive, SuspendedIsOut, TypeOK, Reactivated
  <2>11. ReadActive'
    <3> SUFFICES ASSUME NEW s \in Requests, NEW q \in before'[s],
                        pc'[s] \in {"issue", "rotate", "granted"},
                        kind'[s] \in {"login", "refresh", "switch"},
                        kind'[q] = "suspend", pc'[q] = "done", where'[s] = where'[q]
                 PROVE  Reactivated(q)'
      BY DEF ReadActive
    <3>1. s # r /\ q \in Requests /\ q # r /\ q \in before[s]
      BY <1>4 DEF Register, Arrive, TypeOK, BeforeHadEnded
    <3>2. Reactivated(q) => Reactivated(q)'
      BY <1>4, <3>1 DEF Register, Arrive, Reactivated, TypeOK
    <3> QED BY <1>4, <3>1, <3>2 DEF Register, Arrive, ReadActive, TypeOK
  <2>12. CaughtShape'
    BY <1>4 DEF Register, Arrive, CaughtShape, TypeOK, BeforeHadEnded
  <2>13. OldSessionsEnd'
    BY <1>4 DEF Register, Arrive, OldSessionsEnd, TypeOK, BeforeHadEnded,
      CaughtShape, WithShape, AskShape, Covers, SamePair
  <2> QED BY <2>1, <2>2, <2>3, <2>4, <2>5, <2>6, <2>7, <2>8, <2>9, <2>10,
      <2>11, <2>12, <2>13
<1>5. ASSUME NEW r \in Requests, NEW u \in Users, NEW o \in Orgs,
       AcceptRead(r, u, o)
      PROVE  IInv'
  <2>1. TypeOK'
    BY <1>5 DEF AcceptRead, Arrive, TypeOK
  <2>2. BeforeHadEnded'
    BY <1>5 DEF AcceptRead, Arrive, BeforeHadEnded
  <2>3. AskShape'
    BY <1>5 DEF AcceptRead, Arrive, AskShape, TypeOK
  <2>4. WithShape'
    BY <1>5 DEF AcceptRead, Arrive, WithShape, TypeOK
  <2>5. FamilyShape'
    BY <1>5 DEF AcceptRead, Arrive, FamilyShape
  <2>6. ExchangedIsRevoked'
    BY <1>5 DEF AcceptRead, Arrive, ExchangedIsRevoked
  <2>7. SpentBefore'
    BY <1>5 DEF AcceptRead, Arrive, SpentBefore
  <2>8. RemovedIsOut'
    BY <1>5 DEF AcceptRead, Arrive, RemovedIsOut, Rejoined, SamePair
  <2>9. ReadMember'
    BY <1>5 DEF AcceptRead, Arrive, ReadMember, Rejoined, SamePair
  <2>10. SuspendedIsOut'
    BY <1>5 DEF AcceptRead, Arrive, SuspendedIsOut, Reactivated
  <2>11. ReadActive'
    BY <1>5 DEF AcceptRead, Arrive, ReadActive, Reactivated
  <2>12. CaughtShape'
    BY <1>5 DEF AcceptRead, Arrive, CaughtShape
  <2>13. OldSessionsEnd'
    BY <1>5 DEF AcceptRead, Arrive, OldSessionsEnd, Covers, SamePair
  <2> QED BY <2>1, <2>2, <2>3, <2>4, <2>5, <2>6, <2>7, <2>8, <2>9, <2>10,
      <2>11, <2>12, <2>13
<1>6. ASSUME NEW r \in Requests, AcceptWrite(r)
      PROVE  IInv'
  <2>1. TypeOK'
    BY <1>6 DEF AcceptWrite, Issue, TypeOK, AskShape, WithShape
  <2>2. BeforeHadEnded'
    BY <1>6 DEF AcceptWrite, Issue, BeforeHadEnded, TypeOK
  <2>3. AskShape'
    BY <1>6 DEF AcceptWrite, Issue, AskShape, TypeOK
  <2>4. WithShape'
    BY <1>6 DEF AcceptWrite, Issue, WithShape, TypeOK, AskShape
  <2>5. FamilyShape'
    BY <1>6 DEF AcceptWrite, Issue, FamilyShape, TypeOK
  <2>6. ExchangedIsRevoked'
    BY <1>6 DEF AcceptWrite, Issue, ExchangedIsRevoked, TypeOK, WithShape,
      AskShape
  <2>7. SpentBefore'
    BY <1>6 DEF AcceptWrite, Issue, SpentBefore, TypeOK, ExchangedIsRevoked,
      BeforeHadEnded, WithShape, AskShape
  <2>8. RemovedIsOut'
    <3> SUFFICES ASSUME NEW q \in Requests, kind'[q] = "remove",
                        pc'[q] \in {"revoke", "done"}
                 PROVE  <<who'[q], where'[q]>> \notin member' \/ Rejoined(q)'
      BY DEF RemovedIsOut
    <3>1. /\ q # r /\ pc[q] \in {"revoke", "done"} /\ kind[q] = "remove"
          /\ UNCHANGED <<kind, who, where, before>>
          /\ kind[r] = "accept"
      BY <1>6 DEF AcceptWrite, Issue, AskShape, TypeOK
    <3>2. Rejoined(q) => Rejoined(q)'
      BY <1>6, <3>1 DEF AcceptWrite, Issue, Rejoined, SamePair, TypeOK
    <3>3. CASE <<who[q], where[q]>> \in member' \ member
      <4>1. pc'[r] = "granted" /\ <<who[q], where[q]>> = <<who[r], where[r]>>
        BY <1>6, <3>3 DEF AcceptWrite, Issue, TypeOK
      <4>2. r \notin before[q]
        BY <1>6 DEF AcceptWrite, BeforeHadEnded
      <4> QED BY <3>1, <4>1, <4>2 DEF Rejoined, SamePair
    <3>4. CASE <<who[q], where[q]>> \notin member' \ member
      BY <3>1, <3>2, <3>4 DEF RemovedIsOut
    <3> QED BY <3>3, <3>4
  <2>9. ReadMember'
    <3> SUFFICES ASSUME NEW s \in Requests, NEW q \in before'[s],
                        pc'[s] \in {"issue", "rotate", "granted"},
                        kind'[q] = "remove", pc'[q] = "done", SamePair(s, q)'
                 PROVE  Rejoined(q)'
      BY DEF ReadMember
    <3>1. q \in Requests /\ q # r /\ pc[q] = "done" /\ UNCHANGED <<kind[q], who[q], where[q], before[q]>>
      BY <1>6 DEF AcceptWrite, Issue, TypeOK, BeforeHadEnded
    <3>2. Rejoined(q) => Rejoined(q)'
      BY <1>6, <3>1 DEF AcceptWrite, Issue, Rejoined, SamePair, TypeOK
    <3>3. CASE s = r
      <4>1. UNCHANGED <<kind, who, where, before>>
        BY <1>6 DEF AcceptWrite
      <4>2. pc'[r] = "granted"
        BY <1>6, <3>3 DEF AcceptWrite, Issue, TypeOK
      <4>3. kind[r] = "accept" /\ r \notin before[q]
        BY <1>6, <3>1 DEF AcceptWrite, AskShape, BeforeHadEnded
      <4>4. SamePair(r, q)
        BY <3>3, <4>1 DEF SamePair
      <4> QED BY <4>1, <4>2, <4>3, <4>4 DEF Rejoined, SamePair
    <3>4. CASE s # r
      BY <1>6, <3>1, <3>2, <3>4 DEF AcceptWrite, Issue, ReadMember, SamePair, TypeOK
    <3> QED BY <3>3, <3>4
  <2>10. SuspendedIsOut'
    BY <1>6 DEF AcceptWrite, Issue, SuspendedIsOut, TypeOK, Reactivated
  <2>11. ReadActive'
    <3> SUFFICES ASSUME NEW s \in Requests, NEW q \in before'[s],
                        pc'[s] \in {"issue", "rotate", "granted"},
                        kind'[q] = "suspend", pc'[q] = "done",
                        kind'[s] \in {"login", "refresh", "switch"},
                        where'[s] = where'[q]
                 PROVE  Reactivated(q)'
      BY DEF ReadActive
    <3>1. q \in Requests /\ q # r /\ pc[q] = "done" /\ UNCHANGED <<kind[q], who[q], where[q], before[q]>>
      BY <1>6 DEF AcceptWrite, Issue, TypeOK, BeforeHadEnded
    <3>2. Reactivated(q) => Reactivated(q)'
      BY <1>6, <3>1 DEF AcceptWrite, Issue, Reactivated, SamePair, TypeOK
    <3>3. CASE s = r
      BY <1>6, <3>3 DEF AcceptWrite, AskShape, TypeOK
    <3>4. CASE s # r
      BY <1>6, <3>1, <3>2, <3>4 DEF AcceptWrite, Issue, ReadActive, SamePair, TypeOK
    <3> QED BY <3>3, <3>4
  <2>12. CaughtShape'
    BY <1>6 DEF AcceptWrite, Issue, CaughtShape, TypeOK, BeforeHadEnded
  <2>13. OldSessionsEnd'
    BY <1>6 DEF AcceptWrite, Issue, OldSessionsEnd, TypeOK, BeforeHadEnded,
      CaughtShape, WithShape, AskShape, Covers, SamePair
  <2> QED BY <2>1, <2>2, <2>3, <2>4, <2>5, <2>6, <2>7, <2>8, <2>9, <2>10,
      <2>11, <2>12, <2>13
<1>7. ASSUME NEW r \in Requests, NEW t \in Requests, RefreshRead(r, t)
      PROVE  IInv'
  <2>1. TypeOK'
    BY <1>7 DEF RefreshRead, Arrive, TypeOK
  <2>2. BeforeHadEnded'
    BY <1>7 DEF RefreshRead, Arrive, BeforeHadEnded
  <2>3. AskShape'
    BY <1>7 DEF RefreshRead, Arrive, AskShape, TypeOK
  <2>4. WithShape'
    BY <1>7 DEF RefreshRead, Arrive, WithShape, TypeOK
  <2>5. FamilyShape'
    BY <1>7 DEF RefreshRead, Arrive, FamilyShape
  <2>6. ExchangedIsRevoked'
    BY <1>7 DEF RefreshRead, Arrive, ExchangedIsRevoked
  <2>7. SpentBefore'
    BY <1>7 DEF RefreshRead, Arrive, SpentBefore, TypeOK, ExchangedIsRevoked,
      BeforeHadEnded, WithShape, AskShape
  <2>8. RemovedIsOut'
    BY <1>7 DEF RefreshRead, Arrive, RemovedIsOut, Rejoined, SamePair
  <2>9. ReadMember'
    BY <1>7 DEF RefreshRead, Arrive, ReadMember, Rejoined, SamePair
  <2>10. SuspendedIsOut'
    BY <1>7 DEF RefreshRead, Arrive, SuspendedIsOut, Reactivated
  <2>11. ReadActive'
    BY <1>7 DEF RefreshRead, Arrive, ReadActive, Reactivated
  <2>12. CaughtShape'
    BY <1>7 DEF RefreshRead, Arrive, CaughtShape
  <2>13. OldSessionsEnd'
    BY <1>7 DEF RefreshRead, Arrive, OldSessionsEnd, Covers, SamePair
  <2> QED BY <2>1, <2>2, <2>3, <2>4, <2>5, <2>6, <2>7, <2>8, <2>9, <2>10,
      <2>11, <2>12, <2>13
<1>8. ASSUME NEW r \in Requests, NEW u \in Users, NEW o \in Orgs,
       NEW t \in Requests, SwitchRead(r, u, o, t)
      PROVE  IInv'
  <2>1. TypeOK'
    BY <1>8 DEF SwitchRead, Arrive, TypeOK
  <2>2. BeforeHadEnded'
    BY <1>8 DEF SwitchRead, Arrive, BeforeHadEnded
  <2>3. AskShape'
    BY <1>8 DEF SwitchRead, Arrive, AskShape, TypeOK
  <2>4. WithShape'
    BY <1>8 DEF SwitchRead, Arrive, WithShape, TypeOK
  <2>5. FamilyShape'
    BY <1>8 DEF SwitchRead, Arrive, FamilyShape
  <2>6. ExchangedIsRevoked'
    BY <1>8 DEF SwitchRead, Arrive, ExchangedIsRevoked
  <2>7. SpentBefore'
    BY <1>8 DEF SwitchRead, Arrive, SpentBefore, TypeOK, ExchangedIsRevoked,
      BeforeHadEnded, WithShape, AskShape
  <2>8. RemovedIsOut'
    BY <1>8 DEF SwitchRead, Arrive, RemovedIsOut, Rejoined, SamePair
  <2>9. ReadMember'
    BY <1>8 DEF SwitchRead, Arrive, ReadMember, Rejoined, SamePair
  <2>10. SuspendedIsOut'
    BY <1>8 DEF SwitchRead, Arrive, SuspendedIsOut, Reactivated
  <2>11. ReadActive'
    BY <1>8 DEF SwitchRead, Arrive, ReadActive, Reactivated
  <2>12. CaughtShape'
    BY <1>8 DEF SwitchRead, Arrive, CaughtShape
  <2>13. OldSessionsEnd'
    BY <1>8 DEF SwitchRead, Arrive, OldSessionsEnd, Covers, SamePair
  <2> QED BY <2>1, <2>2, <2>3, <2>4, <2>5, <2>6, <2>7, <2>8, <2>9, <2>10,
      <2>11, <2>12, <2>13
<1>9. ASSUME NEW r \in Requests, CheckMembership(r)
      PROVE  IInv'
  <2>1. TypeOK'
    BY <1>9 DEF CheckMembership, Active, TypeOK
  <2>2. BeforeHadEnded'
    BY <1>9 DEF CheckMembership, Active, BeforeHadEnded
  <2>3. AskShape'
    BY <1>9 DEF CheckMembership, Active, AskShape
  <2>4. WithShape'
    BY <1>9 DEF CheckMembership, Active, WithShape
  <2>5. FamilyShape'
    BY <1>9 DEF CheckMembership, Active, FamilyShape
  <2>6. ExchangedIsRevoked'
    BY <1>9 DEF CheckMembership, Active, ExchangedIsRevoked
  <2>7. SpentBefore'
    BY <1>9 DEF CheckMembership, Active, SpentBefore
  <2>8. RemovedIsOut'
    BY <1>9 DEF CheckMembership, Active, RemovedIsOut, Rejoined, SamePair
  <2>9. ReadMember'
    BY <1>9 DEF CheckMembership, Active, ReadMember, TypeOK, RemovedIsOut,
      BeforeHadEnded, AskShape, Rejoined, SamePair
  <2>10. SuspendedIsOut'
    BY <1>9 DEF CheckMembership, Active, SuspendedIsOut, Reactivated
  <2>11. ReadActive'
    <3> SUFFICES ASSUME NEW s \in Requests, NEW q \in before[s],
                        pc'[s] \in {"issue", "rotate", "granted"},
                        kind[s] \in {"login", "refresh", "switch"},
                        kind[q] = "suspend", pc'[q] = "done", where[s] = where[q]
                 PROVE  Reactivated(q)'
      BY <1>9 DEF CheckMembership, ReadActive
    <3>1. q \in Requests /\ pc[q] = "done" /\ (Reactivated(q) => Reactivated(q)')
      BY <1>9 DEF CheckMembership, Reactivated, TypeOK, BeforeHadEnded
    <3>2. CASE s = r
      BY <1>9, <3>1, <3>2 DEF CheckMembership, Active, SuspendedIsOut, TypeOK
    <3>3. CASE s # r
      BY <1>9, <3>1, <3>3 DEF CheckMembership, ReadActive, TypeOK
    <3> QED BY <3>2, <3>3
  <2>12. CaughtShape'
    BY <1>9 DEF CheckMembership, Active, CaughtShape
  <2>13. OldSessionsEnd'
    BY <1>9 DEF CheckMembership, Active, OldSessionsEnd, Covers, SamePair
  <2> QED BY <2>1, <2>2, <2>3, <2>4, <2>5, <2>6, <2>7, <2>8, <2>9, <2>10,
      <2>11, <2>12, <2>13
<1>10. ASSUME NEW r \in Requests, Rotate(r)
      PROVE  IInv'
  <2>1. TypeOK'
    BY <1>10 DEF Rotate, Issue, TypeOK, AskShape, WithShape
  <2>2. BeforeHadEnded'
    BY <1>10 DEF Rotate, Issue, BeforeHadEnded
  <2>3. AskShape'
    BY <1>10 DEF Rotate, Issue, AskShape
  <2>4. WithShape'
    BY <1>10 DEF Rotate, Issue, WithShape
  <2>5. FamilyShape'
    BY <1>10 DEF Rotate, Issue, FamilyShape, TypeOK, WithShape
  <2>6. ExchangedIsRevoked'
    BY <1>10 DEF Rotate, Issue, ExchangedIsRevoked, WithShape, AskShape
  <2>7. SpentBefore'
    BY <1>10 DEF Rotate, Issue, SpentBefore, ExchangedIsRevoked,
      BeforeHadEnded, WithShape, AskShape
  <2>8. RemovedIsOut'
    BY <1>10 DEF Rotate, Issue, RemovedIsOut, Rejoined, SamePair
  <2>9. ReadMember'
    BY <1>10 DEF Rotate, Issue, ReadMember, Rejoined, SamePair
  <2>10. SuspendedIsOut'
    BY <1>10 DEF Rotate, Issue, SuspendedIsOut, Reactivated
  <2>11. ReadActive'
    BY <1>10 DEF Rotate, Issue, ReadActive, Reactivated
  <2>12. CaughtShape'
    BY <1>10 DEF Rotate, Issue, CaughtShape, BeforeHadEnded
  <2>13. OldSessionsEnd'
    BY <1>10 DEF Rotate, Issue, OldSessionsEnd, BeforeHadEnded, CaughtShape,
      WithShape, AskShape, Covers, SamePair
  <2> QED BY <2>1, <2>2, <2>3, <2>4, <2>5, <2>6, <2>7, <2>8, <2>9, <2>10,
      <2>11, <2>12, <2>13
<1>11. ASSUME NEW r \in Requests, NEW t \in Requests, Logout(r, t)
      PROVE  IInv'
  <2>1. TypeOK'
    BY <1>11 DEF Logout, Arrive, Revoke, TypeOK
  <2>2. BeforeHadEnded'
    BY <1>11 DEF Logout, Arrive, Revoke, BeforeHadEnded
  <2>3. AskShape'
    BY <1>11 DEF Logout, Arrive, Revoke, AskShape, TypeOK
  <2>4. WithShape'
    BY <1>11 DEF Logout, Arrive, Revoke, WithShape, TypeOK
  <2>5. FamilyShape'
    BY <1>11 DEF Logout, Arrive, Revoke, FamilyShape
  <2>6. ExchangedIsRevoked'
    BY <1>11 DEF Logout, Arrive, Revoke, ExchangedIsRevoked
  <2>7. SpentBefore'
    BY <1>11 DEF Logout, Arrive, Revoke, SpentBefore
  <2>8. RemovedIsOut'
    BY <1>11 DEF Logout, Arrive, Revoke, RemovedIsOut, TypeOK, AskShape,
      BeforeHadEnded, Rejoined, SamePair
  <2>9. ReadMember'
    BY <1>11 DEF Logout, Arrive, Revoke, ReadMember, RemovedIsOut,
      BeforeHadEnded, AskShape, Rejoined, SamePair
  <2>10. SuspendedIsOut'
    BY <1>11 DEF Logout, Arrive, Revoke, SuspendedIsOut, TypeOK, Reactivated
  <2>11. ReadActive'
    BY <1>11 DEF Logout, Arrive, Revoke, ReadActive, TypeOK, Reactivated
  <2>12. CaughtShape'
    BY <1>11 DEF Logout, Arrive, Revoke, CaughtShape
  <2>13. OldSessionsEnd'
    BY <1>11 DEF Logout, Arrive, Revoke, OldSessionsEnd, TypeOK, Covers,
      SamePair
  <2> QED BY <2>1, <2>2, <2>3, <2>4, <2>5, <2>6, <2>7, <2>8, <2>9, <2>10,
      <2>11, <2>12, <2>13
<1>12. ASSUME NEW r \in Requests, NEW u \in Users, NEW o \in Orgs,
       RemoveMember(r, u, o)
      PROVE  IInv'
  <2>1. TypeOK'
    BY <1>12 DEF RemoveMember, Arrive, TypeOK
  <2>2. BeforeHadEnded'
    BY <1>12 DEF RemoveMember, Arrive, BeforeHadEnded
  <2>3. AskShape'
    BY <1>12 DEF RemoveMember, Arrive, AskShape, TypeOK
  <2>4. WithShape'
    BY <1>12 DEF RemoveMember, Arrive, WithShape, TypeOK
  <2>5. FamilyShape'
    BY <1>12 DEF RemoveMember, Arrive, FamilyShape
  <2>6. ExchangedIsRevoked'
    BY <1>12 DEF RemoveMember, Arrive, ExchangedIsRevoked
  <2>7. SpentBefore'
    BY <1>12 DEF RemoveMember, Arrive, SpentBefore
  <2>8. RemovedIsOut'
    BY <1>12 DEF RemoveMember, Arrive, RemovedIsOut, TypeOK, AskShape,
      BeforeHadEnded, Rejoined, SamePair
  <2>9. ReadMember'
    BY <1>12 DEF RemoveMember, Arrive, ReadMember, Rejoined, SamePair
  <2>10. SuspendedIsOut'
    BY <1>12 DEF RemoveMember, Arrive, SuspendedIsOut, Reactivated
  <2>11. ReadActive'
    BY <1>12 DEF RemoveMember, Arrive, ReadActive, Reactivated
  <2>12. CaughtShape'
    BY <1>12 DEF RemoveMember, Arrive, CaughtShape
  <2>13. OldSessionsEnd'
    BY <1>12 DEF RemoveMember, Arrive, OldSessionsEnd, Covers, SamePair
  <2> QED BY <2>1, <2>2, <2>3, <2>4, <2>5, <2>6, <2>7, <2>8, <2>9, <2>10,
      <2>11, <2>12, <2>13
<1>13. ASSUME NEW r \in Requests, RevokeSessions(r)
      PROVE  IInv'
  <2>1. TypeOK'
    BY <1>13 DEF RevokeSessions, Revoke, TypeOK
  <2>2. BeforeHadEnded'
    BY <1>13 DEF RevokeSessions, Revoke, BeforeHadEnded
  <2>3. AskShape'
    BY <1>13 DEF RevokeSessions, Revoke, AskShape
  <2>4. WithShape'
    BY <1>13 DEF RevokeSessions, Revoke, WithShape
  <2>5. FamilyShape'
    BY <1>13 DEF RevokeSessions, Revoke, FamilyShape
  <2>6. ExchangedIsRevoked'
    BY <1>13 DEF RevokeSessions, Revoke, ExchangedIsRevoked
  <2>7. SpentBefore'
    BY <1>13 DEF RevokeSessions, Revoke, SpentBefore
  <2>8. RemovedIsOut'
    BY <1>13 DEF RevokeSessions, Revoke, RemovedIsOut, Rejoined, SamePair
  <2>9. ReadMember'
    BY <1>13 DEF RevokeSessions, Revoke, ReadMember, RemovedIsOut,
      BeforeHadEnded, AskShape, Rejoined, SamePair
  <2>10. SuspendedIsOut'
    <3> SUFFICES ASSUME NEW q \in Requests, kind'[q] = "suspend", pc'[q] = "done"
                 PROVE  where'[q] \in suspended' \/ Reactivated(q)'
      BY DEF SuspendedIsOut
    <3>1. kind[q] = "suspend" /\ pc[q] = "done"
      BY <1>13 DEF RevokeSessions, AskShape, TypeOK
    <3>2. CASE where[q] \in suspended
      BY <1>13, <3>2 DEF RevokeSessions
    <3>3. CASE Reactivated(q)
      BY <1>13, <3>3 DEF RevokeSessions, Reactivated, TypeOK
    <3> QED BY <3>1, <3>2, <3>3 DEF SuspendedIsOut
  <2>11. ReadActive'
    BY <1>13 DEF RevokeSessions, Revoke, ReadActive, SuspendedIsOut,
      BeforeHadEnded, AskShape, Reactivated
  <2>12. CaughtShape'
    BY <1>13 DEF RevokeSessions, Revoke, CaughtShape
  <2>13. OldSessionsEnd'
    <3> SUFFICES ASSUME NEW q \in Requests, NEW t \in Tokens', pc'[q] = "done",
                        Covers(q, t)', t \in before'[q]
                 PROVE  t \notin live'
      BY DEF OldSessionsEnd
    <3>1. t \in Tokens /\ t \in before[q] /\ Covers(q, t)
      BY <1>13 DEF RevokeSessions, Revoke, Covers, SamePair, TypeOK
    <3>2. CASE q = r
      BY <1>13, <3>1, <3>2 DEF RevokeSessions, Revoke, Covers, SamePair, AskShape
    <3>3. CASE q # r
      <4>1. pc[q] = "done"
        BY <1>13, <3>3 DEF RevokeSessions, TypeOK
      <4> QED BY <1>13, <3>1, <4>1 DEF RevokeSessions, Revoke, OldSessionsEnd
    <3> QED BY <3>2, <3>3
  <2> QED BY <2>1, <2>2, <2>3, <2>4, <2>5, <2>6, <2>7, <2>8, <2>9, <2>10,
      <2>11, <2>12, <2>13
<1>14. ASSUME NEW r \in Requests, NEW o \in Orgs, Suspend(r, o)
      PROVE  IInv'
  <2>1. TypeOK'
    BY <1>14 DEF Suspend, Arrive, TypeOK
  <2>2. BeforeHadEnded'
    BY <1>14 DEF Suspend, Arrive, BeforeHadEnded
  <2>3. AskShape'
    BY <1>14 DEF Suspend, Arrive, AskShape, TypeOK
  <2>4. WithShape'
    BY <1>14 DEF Suspend, Arrive, WithShape, TypeOK
  <2>5. FamilyShape'
    BY <1>14 DEF Suspend, Arrive, FamilyShape
  <2>6. ExchangedIsRevoked'
    BY <1>14 DEF Suspend, Arrive, ExchangedIsRevoked
  <2>7. SpentBefore'
    BY <1>14 DEF Suspend, Arrive, SpentBefore
  <2>8. RemovedIsOut'
    BY <1>14 DEF Suspend, Arrive, RemovedIsOut, Rejoined, SamePair
  <2>9. ReadMember'
    BY <1>14 DEF Suspend, Arrive, ReadMember, Rejoined, SamePair
  <2>10. SuspendedIsOut'
    BY <1>14 DEF Suspend, Arrive, SuspendedIsOut, Reactivated
  <2>11. ReadActive'
    BY <1>14 DEF Suspend, Arrive, ReadActive, Reactivated
  <2>12. CaughtShape'
    BY <1>14 DEF Suspend, Arrive, CaughtShape, TypeOK
  <2>13. OldSessionsEnd'
    BY <1>14 DEF Suspend, Arrive, OldSessionsEnd, Covers, SamePair
  <2> QED BY <2>1, <2>2, <2>3, <2>4, <2>5, <2>6, <2>7, <2>8, <2>9, <2>10,
      <2>11, <2>12, <2>13
<1>15. ASSUME NEW r \in Requests, SuspendCommit(r)
      PROVE  IInv'
  <2>1. TypeOK'
    <3>1. where[r] \in Orgs /\ r \notin Tokens
      BY <1>15 DEF SuspendCommit, AskShape
    <3>2. Tokens' = Tokens
      BY <1>15 DEF SuspendCommit, TypeOK
    <3>3. pc' \in [Requests -> Step] /\ caught' \in [Requests -> SUBSET Requests]
      BY <1>15 DEF SuspendCommit, TypeOK
    <3>4. suspended' \subseteq Orgs /\ live' \subseteq Tokens /\ expired' \subseteq Tokens
      BY <1>15, <3>1 DEF SuspendCommit, TypeOK
    <3> HIDE DEF Tokens
    <3> QED BY <1>15, <3>2, <3>3, <3>4 DEF SuspendCommit, TypeOK
  <2>2. BeforeHadEnded'
    BY <1>15 DEF SuspendCommit, BeforeHadEnded
  <2>3. AskShape'
    BY <1>15 DEF SuspendCommit, AskShape
  <2>4. WithShape'
    BY <1>15 DEF SuspendCommit, WithShape
  <2>5. FamilyShape'
    BY <1>15 DEF SuspendCommit, FamilyShape
  <2>6. ExchangedIsRevoked'
    BY <1>15 DEF SuspendCommit, ExchangedIsRevoked
  <2>7. SpentBefore'
    BY <1>15 DEF SuspendCommit, SpentBefore
  <2>8. RemovedIsOut'
    BY <1>15 DEF SuspendCommit, RemovedIsOut, AskShape, BeforeHadEnded,
      Rejoined, SamePair
  <2>9. ReadMember'
    BY <1>15 DEF SuspendCommit, ReadMember, RemovedIsOut, BeforeHadEnded,
      AskShape, Rejoined, SamePair
  <2>10. SuspendedIsOut'
    BY <1>15 DEF SuspendCommit, SuspendedIsOut, Reactivated
  <2>11. ReadActive'
    BY <1>15 DEF SuspendCommit, ReadActive, SuspendedIsOut, BeforeHadEnded,
      AskShape, Reactivated
  <2>12. CaughtShape'
    BY <1>15 DEF SuspendCommit, CaughtShape
  <2>13. OldSessionsEnd'
    <3> SUFFICES ASSUME NEW q \in Requests, NEW t \in Tokens', pc'[q] = "done",
                        Covers(q, t)', t \in before'[q]
                 PROVE  t \notin live'
      BY DEF OldSessionsEnd
    <3>1. t \in Tokens /\ t \in before[q] /\ Covers(q, t)
      BY <1>15 DEF SuspendCommit, Covers, SamePair, TypeOK
    <3>2. CASE q = r
      BY <1>15, <3>1, <3>2 DEF SuspendCommit, Covers, AskShape, CaughtShape
    <3>3. CASE q # r
      <4>1. pc[q] = "done"
        BY <1>15, <3>3 DEF SuspendCommit, TypeOK
      <4> QED BY <1>15, <3>1, <4>1 DEF SuspendCommit, OldSessionsEnd
    <3> QED BY <3>2, <3>3
  <2> QED BY <2>1, <2>2, <2>3, <2>4, <2>5, <2>6, <2>7, <2>8, <2>9, <2>10,
      <2>11, <2>12, <2>13
<1>16. ASSUME NEW r \in Requests, NEW o \in Orgs, Reactivate(r, o)
      PROVE  IInv'
  <2>1. TypeOK'
    BY <1>16 DEF Reactivate, Arrive, TypeOK
  <2>2. BeforeHadEnded'
    BY <1>16 DEF Reactivate, Arrive, BeforeHadEnded
  <2>3. AskShape'
    BY <1>16 DEF Reactivate, Arrive, AskShape, TypeOK
  <2>4. WithShape'
    BY <1>16 DEF Reactivate, Arrive, WithShape, TypeOK
  <2>5. FamilyShape'
    BY <1>16 DEF Reactivate, Arrive, FamilyShape
  <2>6. ExchangedIsRevoked'
    BY <1>16 DEF Reactivate, Arrive, ExchangedIsRevoked
  <2>7. SpentBefore'
    BY <1>16 DEF Reactivate, Arrive, SpentBefore
  <2>8. RemovedIsOut'
    BY <1>16 DEF Reactivate, Arrive, RemovedIsOut, TypeOK, Rejoined, SamePair
  <2>9. ReadMember'
    BY <1>16 DEF Reactivate, Arrive, ReadMember, RemovedIsOut, BeforeHadEnded,
      AskShape, Rejoined, SamePair
  <2>10. SuspendedIsOut'
    BY <1>16 DEF Reactivate, Arrive, SuspendedIsOut, TypeOK, AskShape,
      BeforeHadEnded, Reactivated
  <2>11. ReadActive'
    BY <1>16 DEF Reactivate, Arrive, ReadActive, TypeOK, Reactivated
  <2>12. CaughtShape'
    BY <1>16 DEF Reactivate, Arrive, CaughtShape
  <2>13. OldSessionsEnd'
    BY <1>16 DEF Reactivate, Arrive, OldSessionsEnd, TypeOK, Covers, SamePair
  <2> QED BY <2>1, <2>2, <2>3, <2>4, <2>5, <2>6, <2>7, <2>8, <2>9, <2>10,
      <2>11, <2>12, <2>13
<1>17. ASSUME NEW t \in Requests, Expire(t)
      PROVE  IInv'
  <2>1. TypeOK'
    BY <1>17 DEF Expire, TypeOK
  <2>2. BeforeHadEnded' /\ AskShape' /\ WithShape' /\ FamilyShape'
    BY <1>17 DEF Expire, BeforeHadEnded, AskShape, WithShape, FamilyShape
  <2>3. ExchangedIsRevoked' /\ SpentBefore' /\ RemovedIsOut' /\ ReadMember'
    BY <1>17 DEF Expire, ExchangedIsRevoked, SpentBefore, RemovedIsOut,
      ReadMember, Rejoined, SamePair, Rejoined, SamePair
  <2>4. SuspendedIsOut' /\ ReadActive' /\ CaughtShape' /\ OldSessionsEnd'
    BY <1>17 DEF Expire, SuspendedIsOut, ReadActive, CaughtShape,
      OldSessionsEnd, Reactivated, Reactivated, Covers, SamePair
  <2> QED BY <2>1, <2>2, <2>3, <2>4
<1>18. ASSUME NEW r \in Requests, Die(r)
      PROVE  IInv'
  <2>1. TypeOK'
    BY <1>18 DEF Die, TypeOK
  <2>2. BeforeHadEnded'
    BY <1>18 DEF Die, BeforeHadEnded
  <2>3. AskShape'
    BY <1>18 DEF Die, AskShape
  <2>4. WithShape'
    BY <1>18 DEF Die, WithShape
  <2>5. FamilyShape'
    BY <1>18 DEF Die, FamilyShape
  <2>6. ExchangedIsRevoked'
    BY <1>18 DEF Die, ExchangedIsRevoked
  <2>7. SpentBefore'
    BY <1>18 DEF Die, SpentBefore
  <2>8. RemovedIsOut'
    BY <1>18 DEF Die, RemovedIsOut, Rejoined, SamePair
  <2>9. ReadMember'
    BY <1>18 DEF Die, ReadMember, Rejoined, SamePair
  <2>10. SuspendedIsOut'
    BY <1>18 DEF Die, SuspendedIsOut, Reactivated
  <2>11. ReadActive'
    BY <1>18 DEF Die, ReadActive, Reactivated
  <2>12. CaughtShape'
    BY <1>18 DEF Die, CaughtShape, TypeOK
  <2>13. OldSessionsEnd'
    BY <1>18 DEF Die, OldSessionsEnd, Covers, SamePair
  <2> QED BY <2>1, <2>2, <2>3, <2>4, <2>5, <2>6, <2>7, <2>8, <2>9, <2>10,
      <2>11, <2>12, <2>13
<1>19. ASSUME NEW u \in Users, NEW o \in Orgs, InviteRead(u, o)
      PROVE  IInv'
  <2>1. TypeOK'
    BY <1>19 DEF InviteRead, TypeOK
  <2>2. BeforeHadEnded' /\ AskShape' /\ WithShape' /\ FamilyShape'
    BY <1>19 DEF InviteRead, BeforeHadEnded, AskShape, WithShape, FamilyShape
  <2>3. ExchangedIsRevoked' /\ SpentBefore' /\ RemovedIsOut' /\ ReadMember'
    BY <1>19 DEF InviteRead, ExchangedIsRevoked, SpentBefore, RemovedIsOut,
      ReadMember, Rejoined, SamePair, Rejoined, SamePair
  <2>4. SuspendedIsOut' /\ ReadActive' /\ CaughtShape' /\ OldSessionsEnd'
    BY <1>19 DEF InviteRead, SuspendedIsOut, ReadActive, CaughtShape,
      OldSessionsEnd, Reactivated, Reactivated, Covers, SamePair
  <2> QED BY <2>1, <2>2, <2>3, <2>4
<1>20. ASSUME NEW u \in Users, NEW o \in Orgs, InviteWrite(u, o)
      PROVE  IInv'
  <2>1. TypeOK'
    BY <1>20 DEF InviteWrite, Accepting, TypeOK
  <2>2. BeforeHadEnded' /\ AskShape' /\ WithShape' /\ FamilyShape'
    BY <1>20 DEF InviteWrite, Accepting, BeforeHadEnded, AskShape, WithShape,
      FamilyShape
  <2>3. ExchangedIsRevoked' /\ SpentBefore' /\ RemovedIsOut' /\ ReadMember'
    BY <1>20 DEF InviteWrite, Accepting, ExchangedIsRevoked, SpentBefore,
      RemovedIsOut, ReadMember, Rejoined, SamePair, Rejoined, SamePair
  <2>4. SuspendedIsOut' /\ ReadActive' /\ CaughtShape' /\ OldSessionsEnd'
    BY <1>20 DEF InviteWrite, Accepting, SuspendedIsOut, ReadActive,
      CaughtShape, OldSessionsEnd, Reactivated, Reactivated, Covers, SamePair
  <2> QED BY <2>1, <2>2, <2>3, <2>4
<1>21. ASSUME NEW u \in Users, NEW o \in Orgs, Withdraw(u, o)
      PROVE  IInv'
  <2>1. TypeOK'
    BY <1>21 DEF Withdraw, Accepting, TypeOK
  <2>2. BeforeHadEnded' /\ AskShape' /\ WithShape' /\ FamilyShape'
    BY <1>21 DEF Withdraw, Accepting, BeforeHadEnded, AskShape, WithShape,
      FamilyShape
  <2>3. ExchangedIsRevoked' /\ SpentBefore' /\ RemovedIsOut' /\ ReadMember'
    BY <1>21 DEF Withdraw, Accepting, ExchangedIsRevoked, SpentBefore,
      RemovedIsOut, ReadMember, Rejoined, SamePair, Rejoined, SamePair
  <2>4. SuspendedIsOut' /\ ReadActive' /\ CaughtShape' /\ OldSessionsEnd'
    BY <1>21 DEF Withdraw, Accepting, SuspendedIsOut, ReadActive, CaughtShape,
      OldSessionsEnd, Reactivated, Reactivated, Covers, SamePair
  <2> QED BY <2>1, <2>2, <2>3, <2>4
<1>22. ASSUME NEW u \in Users, NEW o \in Orgs, Lapse(u, o)
      PROVE  IInv'
  <2>1. TypeOK'
    BY <1>22 DEF Lapse, TypeOK
  <2>2. BeforeHadEnded' /\ AskShape' /\ WithShape' /\ FamilyShape'
    BY <1>22 DEF Lapse, BeforeHadEnded, AskShape, WithShape, FamilyShape
  <2>3. ExchangedIsRevoked' /\ SpentBefore' /\ RemovedIsOut' /\ ReadMember'
    BY <1>22 DEF Lapse, ExchangedIsRevoked, SpentBefore, RemovedIsOut,
      ReadMember, Rejoined, SamePair, Rejoined, SamePair
  <2>4. SuspendedIsOut' /\ ReadActive' /\ CaughtShape' /\ OldSessionsEnd'
    BY <1>22 DEF Lapse, SuspendedIsOut, ReadActive, CaughtShape,
      OldSessionsEnd, Reactivated, Reactivated, Covers, SamePair
  <2> QED BY <2>1, <2>2, <2>3, <2>4
<1>23. CASE UNCHANGED vars
  BY <1>23 DEF vars, TypeOK, BeforeHadEnded, AskShape, WithShape, FamilyShape,
     ExchangedIsRevoked, SpentBefore, RemovedIsOut, ReadMember, SuspendedIsOut,
     ReadActive, CaughtShape, OldSessionsEnd, Rejoined, SamePair, Rejoined,
     SamePair, Reactivated, Reactivated, Covers, SamePair
<1> QED BY <1>1, <1>2, <1>3, <1>4, <1>5, <1>6, <1>7, <1>8, <1>9, <1>10, <1>11,
     <1>12, <1>13, <1>14, <1>15, <1>16, <1>17, <1>18, <1>19, <1>20, <1>21,
     <1>22, <1>23
     DEF Next, Asking, Going

LEMMA Initial == Init => IInv
<1> SUFFICES ASSUME Init PROVE IInv
  OBVIOUS
<1> USE SessionsAssumption DEF Init, Tokens, Ended, Exchanges, Exchanged
<1>1. TypeOK
  BY DEF TypeOK, Kind, Step
<1>2. BeforeHadEnded /\ AskShape /\ WithShape /\ FamilyShape
  BY DEF BeforeHadEnded, AskShape, WithShape, FamilyShape
<1>3. ExchangedIsRevoked /\ SpentBefore /\ CaughtShape /\ OldSessionsEnd
  BY DEF ExchangedIsRevoked, SpentBefore, CaughtShape, OldSessionsEnd
<1>4. RemovedIsOut /\ ReadMember /\ SuspendedIsOut /\ ReadActive
  BY DEF RemovedIsOut, ReadMember, SuspendedIsOut, ReadActive
<1> QED BY <1>1, <1>2, <1>3, <1>4 DEF IInv

LEMMA InvariantHolds == Spec => []IInv
<1>1. Init => IInv
  BY Initial
<1>2. IInv /\ [Next]_vars => IInv'
  BY Inductive
<1> QED BY <1>1, <1>2, PTL DEF Spec

-----------------------------------------------------------------------------
(* The invariants the run checks *)

\* Every variable keeps its type, and every valid refresh token is a row with a
\* user and an organization.
THEOREM TypeCorrect == Spec => []TypeOK
<1>1. IInv => TypeOK
  BY DEF IInv
<1> QED BY <1>1, InvariantHolds, PTL

\* Although refresh checks revokedAt and writes it in different statements, a
\* token is exchanged twice only by requests that overlap.
THEOREM SpentOnceTheorem == Spec => []SpentOnce
<1>1. IInv => SpentOnce
  BY DEF IInv, SpentOnce, SpentBefore, Exchanged
<1> QED BY <1>1, InvariantHolds, PTL

\* Rotation and switch-org keep a family with the user whose login began it.
THEOREM FamilyTheorem == Spec => []FamilyHasOneUser
<1>1. IInv => FamilyHasOneUser
  BY DEF IInv, FamilyHasOneUser, FamilyShape
<1> QED BY <1>1, InvariantHolds, PTL

\* The membership check of every request that issues a token keeps a removed
\* member out, whatever tokens the removal missed.
THEOREM RemovedTheorem == Spec => []RemovedStayOut
<1>1. IInv => RemovedStayOut
  BY DEF IInv, RemovedStayOut, ReadMember, Rejoined
<1> QED BY <1>1, InvariantHolds, PTL

\* The same for the organizations that are suspended; accepting an invitation
\* is the one request that does not ask.
THEOREM SuspendedTheorem == Spec => []SuspendedStayOut
<1>1. IInv => SuspendedStayOut
  BY DEF IInv, SuspendedStayOut, ReadActive, Reactivated
<1> QED BY <1>1, InvariantHolds, PTL

\* What was issued before a logout, a removal or a suspension began does not
\* survive it, in spite of the suspension's late commit.
THEOREM OldSessionsTheorem == Spec => []OldSessionsEnd
<1>1. IInv => OldSessionsEnd
  BY DEF IInv
<1> QED BY <1>1, InvariantHolds, PTL
=============================================================================
