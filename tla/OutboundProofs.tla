--------------------------- MODULE OutboundProofs ---------------------------
(***************************************************************************)
(* Proofs about Outbound, for any number of messages, conversations,       *)
(* workers, attempts and stalls, and with every fault allowed.             *)
(***************************************************************************)
EXTENDS Outbound, TLAPS

\* A free slot holds no job; an execution's start is one of its job's starts.
RunShape ==
  \A w \in Workers :
    IF pc[w] = "idle"
      THEN cur[w] = None /\ ~locked[w]
      ELSE cur[w] \in Messages /\ nth[w] \in 1..starts[cur[w]]

\* The lock of a job belongs to its last start, and while an execution holds it
\* the job is active and its counters are those the execution saw.
LockShape ==
  \A w \in Workers : locked[w] =>
    /\ job[cur[w]] = "active"
    /\ nth[w] = starts[cur[w]]
    /\ tries[w] = made[cur[w]]

OneOwner ==
  \A v, w \in Workers : locked[v] /\ locked[w] /\ cur[v] = cur[w] => v = w

\* Every start but the running or last one was an attempt or a stall.
Counted ==
  \A m \in Messages :
    /\ starts[m] <= made[m] + stalls[m] + 1
    /\ job[m] \in {"none", "waiting"} => starts[m] = made[m] + stalls[m]
    /\ job[m] = "active" => starts[m] = made[m] + stalls[m] + 1
    /\ job[m] \in {"none", "waiting", "active"} => made[m] < MaxAttempts

\* A job exists only for a row its caller created.
RowShape ==
  \A m \in Messages :
    /\ caller[m] \in {"idle", "checked"} => row[m] = "absent"
    /\ caller[m] # "done" => job[m] = "none"
    /\ row[m] = "absent" => job[m] = "none"
    /\ caller[m] = "created" => row[m] # "absent"
    /\ job[m] = "none" => starts[m] = 0

\* What each step of an execution may rely on.
RunProgress ==
  \A w \in Workers :
    /\ pc[w] = "commit" => MidOf(w) \in accepted
    /\ pc[w] = "done" => row[cur[w]] \in Settled

MidShape ==
  /\ echoed \subseteq accepted
  /\ \A d \in accepted : d[2] <= starts[d[1]]
  /\ \A d \in accepted : row[d[1]] # "absent"

IInv ==
  /\ TypeOK
  /\ RunShape
  /\ LockShape
  /\ OneOwner
  /\ Counted
  /\ RowShape
  /\ RunProgress
  /\ MidShape
  /\ SentWasAccepted
  /\ CompletedIsSettled
  /\ EchoIsNotDoubled

LEMMA Inductive == IInv /\ [Next]_vars => IInv'
<1> SUFFICES ASSUME IInv, [Next]_vars PROVE IInv'
  OBVIOUS
<1> USE OutboundAssumption DEF IInv, dbVars, jobVars, runVars, RowStatus, Settled,
     ChannelStatus, JobState, CallerStep, RunStep, MaxStarts, Mids, MidOf
<1>1. ASSUME NEW m \in Messages, CheckWindow(m)
      PROVE  IInv'
  <2>1. TypeOK'
    BY <1>1 DEF CheckWindow, TypeOK
  <2>2. RowShape'
    BY <1>1 DEF CheckWindow, RowShape
  <2>3. RunShape' /\ LockShape' /\ OneOwner' /\ Counted' /\ RunProgress' /\ MidShape' /\ SentWasAccepted' /\ CompletedIsSettled' /\ EchoIsNotDoubled'
    BY <1>1 DEF CheckWindow, RunShape, LockShape, OneOwner, Counted,
      RunProgress, MidShape, SentWasAccepted, CompletedIsSettled,
      EchoIsNotDoubled
  <2> QED BY <2>1, <2>2, <2>3
<1>2. ASSUME NEW m \in Messages, CreateRow(m)
      PROVE  IInv'
  <2>1. TypeOK'
    BY <1>2 DEF CreateRow, TypeOK
  <2>2. RowShape'
    BY <1>2 DEF CreateRow, RowShape, TypeOK
  <2>3. RunProgress'
    BY <1>2 DEF CreateRow, RunProgress, RunShape, RowShape
  <2>4. MidShape'
    BY <1>2 DEF CreateRow, MidShape
  <2>5. SentWasAccepted'
    BY <1>2 DEF CreateRow, SentWasAccepted
  <2>6. CompletedIsSettled'
    BY <1>2 DEF CreateRow, TypeOK, RunShape, LockShape, OneOwner, Counted,
      RowShape, RunProgress, MidShape, SentWasAccepted, CompletedIsSettled,
      EchoIsNotDoubled
  <2>7. RunShape' /\ LockShape' /\ OneOwner' /\ Counted' /\ EchoIsNotDoubled'
    BY <1>2 DEF CreateRow, RunShape, LockShape, OneOwner, Counted,
      EchoIsNotDoubled
  <2> QED BY <2>1, <2>2, <2>3, <2>4, <2>5, <2>6, <2>7
<1>3. ASSUME NEW m \in Messages, AddJob(m)
      PROVE  IInv'
  <2>1. TypeOK'
    BY <1>3 DEF AddJob, TypeOK
  <2>2. LockShape'
    BY <1>3 DEF AddJob, TypeOK, RunShape, LockShape, OneOwner, Counted,
      RowShape, RunProgress, MidShape, SentWasAccepted, CompletedIsSettled,
      EchoIsNotDoubled
  <2>3. Counted'
    BY <1>3 DEF AddJob, TypeOK, RunShape, LockShape, OneOwner, Counted,
      RowShape, RunProgress, MidShape, SentWasAccepted, CompletedIsSettled,
      EchoIsNotDoubled
  <2>4. RowShape'
    BY <1>3 DEF AddJob, RowShape, TypeOK
  <2>5. CompletedIsSettled'
    BY <1>3 DEF AddJob, CompletedIsSettled
  <2>6. RunShape' /\ OneOwner' /\ RunProgress' /\ MidShape' /\ SentWasAccepted' /\ EchoIsNotDoubled'
    BY <1>3 DEF AddJob, RunShape, OneOwner, RunProgress, MidShape,
      SentWasAccepted, EchoIsNotDoubled
  <2> QED BY <2>1, <2>2, <2>3, <2>4, <2>5, <2>6
<1>4. ASSUME NEW m \in Messages, AbandonCall(m)
      PROVE  IInv'
  <2>1. TypeOK'
    BY <1>4 DEF AbandonCall, TypeOK
  <2>2. RowShape'
    BY <1>4 DEF AbandonCall, RowShape
  <2>3. RunShape' /\ LockShape' /\ OneOwner' /\ Counted' /\ RunProgress' /\ MidShape' /\ SentWasAccepted' /\ CompletedIsSettled' /\ EchoIsNotDoubled'
    BY <1>4 DEF AbandonCall, RunShape, LockShape, OneOwner, Counted,
      RunProgress, MidShape, SentWasAccepted, CompletedIsSettled,
      EchoIsNotDoubled
  <2> QED BY <2>1, <2>2, <2>3
<1>5. ASSUME NEW m \in Messages, ReclaimStalled(m)
      PROVE  IInv'
  <2>1. TypeOK'
    BY <1>5 DEF ReclaimStalled, Owned, TypeOK
  <2>2. LockShape'
    BY <1>5 DEF ReclaimStalled, Owned, LockShape, TypeOK, RunShape, OneOwner,
      Counted
  <2>3. Counted'
    BY <1>5 DEF ReclaimStalled, Owned, Counted, TypeOK
  <2>4. RowShape'
    BY <1>5 DEF ReclaimStalled, Owned, RowShape, TypeOK
  <2>5. CompletedIsSettled'
    BY <1>5 DEF ReclaimStalled, Owned, CompletedIsSettled, TypeOK
  <2>6. RunShape' /\ OneOwner' /\ RunProgress' /\ MidShape' /\ SentWasAccepted' /\ EchoIsNotDoubled'
    BY <1>5 DEF ReclaimStalled, Owned, RunShape, OneOwner, RunProgress,
      MidShape, SentWasAccepted, EchoIsNotDoubled
  <2> QED BY <2>1, <2>2, <2>3, <2>4, <2>5, <2>6
<1>6. ASSUME NEW w \in Workers, NEW m \in Messages, StartJob(w, m)
      PROVE  IInv'
  <2>1. TypeOK'
    BY <1>6 DEF StartJob, TypeOK, LockShape, Counted, RunShape
  <2>2. RunShape'
    BY <1>6 DEF StartJob, RunShape, TypeOK
  <2>3. LockShape'
    BY <1>6 DEF StartJob, LockShape, TypeOK
  <2>4. OneOwner'
    BY <1>6 DEF StartJob, OneOwner, RunShape, LockShape
  <2>5. Counted'
    BY <1>6 DEF StartJob, Counted, TypeOK
  <2>6. RowShape'
    BY <1>6 DEF StartJob, RowShape
  <2>7. RunProgress'
    BY <1>6 DEF StartJob, RunProgress
  <2>8. MidShape'
    BY <1>6 DEF StartJob, MidShape, TypeOK
  <2>9. CompletedIsSettled'
    BY <1>6 DEF StartJob, CompletedIsSettled
  <2>10. SentWasAccepted' /\ EchoIsNotDoubled'
    BY <1>6 DEF StartJob, SentWasAccepted, EchoIsNotDoubled
  <2> QED BY <2>1, <2>2, <2>3, <2>4, <2>5, <2>6, <2>7, <2>8, <2>9, <2>10
<1>7. ASSUME NEW w \in Workers, Read(w)
      PROVE  IInv'
  <2>1. TypeOK'
    BY <1>7 DEF Read, Verdict, TypeOK
  <2>2. RunShape'
    BY <1>7 DEF Read, Verdict, RunShape
  <2>3. RunProgress'
    BY <1>7 DEF Read, Verdict, RunProgress, TypeOK, RunShape, RowShape
  <2>4. LockShape' /\ OneOwner' /\ Counted' /\ RowShape' /\ MidShape' /\ SentWasAccepted' /\ CompletedIsSettled' /\ EchoIsNotDoubled'
    BY <1>7 DEF Read, Verdict, LockShape, OneOwner, Counted, RowShape,
      MidShape, SentWasAccepted, CompletedIsSettled, EchoIsNotDoubled
  <2> QED BY <2>1, <2>2, <2>3, <2>4
<1>8. ASSUME NEW w \in Workers, CallAccepted(w)
      PROVE  IInv'
  <2>1. TypeOK'
    BY <1>8 DEF CallAccepted, TypeOK, LockShape, Counted, RunShape
  <2>2. RunShape'
    BY <1>8 DEF CallAccepted, RunShape
  <2>3. RunProgress'
    BY <1>8 DEF CallAccepted, RunProgress
  <2>4. MidShape'
    BY <1>8 DEF CallAccepted, MidShape, RunShape, RowShape
  <2>5. SentWasAccepted'
    BY <1>8 DEF CallAccepted, SentWasAccepted
  <2>6. LockShape' /\ OneOwner' /\ Counted' /\ RowShape' /\ CompletedIsSettled' /\ EchoIsNotDoubled'
    BY <1>8 DEF CallAccepted, LockShape, OneOwner, Counted, RowShape,
      CompletedIsSettled, EchoIsNotDoubled
  <2> QED BY <2>1, <2>2, <2>3, <2>4, <2>5, <2>6
<1>9. ASSUME NEW w \in Workers, CallRefused(w)
      PROVE  IInv'
  <2>1. TypeOK'
    BY <1>9 DEF CallRefused, TypeOK
  <2>2. RunShape'
    BY <1>9 DEF CallRefused, RunShape
  <2>3. RunProgress'
    BY <1>9 DEF CallRefused, RunProgress
  <2>4. LockShape' /\ OneOwner' /\ Counted' /\ RowShape' /\ MidShape' /\ SentWasAccepted' /\ CompletedIsSettled' /\ EchoIsNotDoubled'
    BY <1>9 DEF CallRefused, LockShape, OneOwner, Counted, RowShape, MidShape,
      SentWasAccepted, CompletedIsSettled, EchoIsNotDoubled
  <2> QED BY <2>1, <2>2, <2>3, <2>4
<1>10. ASSUME NEW w \in Workers, Commit(w)
      PROVE  IInv'
  <2>1. TypeOK'
    BY <1>10 DEF Commit, TypeOK, LockShape, Counted, RunShape
  <2>2. RunShape'
    BY <1>10 DEF Commit, RunShape, TypeOK
  <2>3. RowShape'
    BY <1>10 DEF Commit, RowShape, TypeOK, RunShape, LockShape
  <2>4. RunProgress'
    BY <1>10 DEF Commit, RunProgress, TypeOK, RunShape, RowShape
  <2>5. MidShape'
    BY <1>10 DEF Commit, MidShape, TypeOK
  <2>6. SentWasAccepted'
    BY <1>10 DEF Commit, SentWasAccepted, TypeOK, RunShape, RunProgress
  <2>7. CompletedIsSettled'
    BY <1>10 DEF Commit, CompletedIsSettled, TypeOK
  <2>8. EchoIsNotDoubled'
    BY <1>10 DEF Commit, EchoIsNotDoubled, TypeOK
  <2>9. LockShape' /\ OneOwner' /\ Counted'
    BY <1>10 DEF Commit, LockShape, OneOwner, Counted
  <2> QED BY <2>1, <2>2, <2>3, <2>4, <2>5, <2>6, <2>7, <2>8, <2>9
<1>11. ASSUME NEW w \in Workers, Expire(w)
      PROVE  IInv'
  <2>1. TypeOK'
    BY <1>11 DEF Expire, TypeOK
  <2>2. RunShape'
    BY <1>11 DEF Expire, RunShape
  <2>3. RunProgress'
    BY <1>11 DEF Expire, RunProgress
  <2>4. LockShape' /\ OneOwner' /\ Counted' /\ RowShape' /\ MidShape' /\ SentWasAccepted' /\ CompletedIsSettled' /\ EchoIsNotDoubled'
    BY <1>11 DEF Expire, LockShape, OneOwner, Counted, RowShape, MidShape,
      SentWasAccepted, CompletedIsSettled, EchoIsNotDoubled
  <2> QED BY <2>1, <2>2, <2>3, <2>4
<1>12. ASSUME NEW w \in Workers, Fail(w)
      PROVE  IInv'
  <2>1. TypeOK'
    BY <1>12 DEF Fail, TypeOK
  <2>2. RunShape'
    BY <1>12 DEF Fail, RunShape
  <2>3. RowShape'
    BY <1>12 DEF Fail, RowShape, RunShape, LockShape
  <2>4. RunProgress'
    BY <1>12 DEF Fail, RunProgress, TypeOK, RunShape, RowShape
  <2>5. MidShape'
    BY <1>12 DEF Fail, MidShape
  <2>6. SentWasAccepted'
    BY <1>12 DEF Fail, SentWasAccepted
  <2>7. CompletedIsSettled'
    BY <1>12 DEF Fail, CompletedIsSettled
  <2>8. LockShape' /\ OneOwner' /\ Counted' /\ EchoIsNotDoubled'
    BY <1>12 DEF Fail, LockShape, OneOwner, Counted, EchoIsNotDoubled
  <2> QED BY <2>1, <2>2, <2>3, <2>4, <2>5, <2>6, <2>7, <2>8
<1>13. ASSUME NEW w \in Workers, Catch(w)
      PROVE  IInv'
  <2>1. TypeOK'
    BY <1>13 DEF Catch, IsLastAttempt, TypeOK
  <2>2. RunShape'
    BY <1>13 DEF Catch, IsLastAttempt, RunShape
  <2>3. RowShape'
    BY <1>13 DEF Catch, IsLastAttempt, RowShape, RunShape, LockShape
  <2>4. RunProgress'
    BY <1>13 DEF Catch, IsLastAttempt, RunProgress
  <2>5. MidShape'
    BY <1>13 DEF Catch, IsLastAttempt, MidShape
  <2>6. SentWasAccepted'
    BY <1>13 DEF Catch, IsLastAttempt, SentWasAccepted
  <2>7. CompletedIsSettled'
    BY <1>13 DEF Catch, IsLastAttempt, CompletedIsSettled
  <2>8. LockShape' /\ OneOwner' /\ Counted' /\ EchoIsNotDoubled'
    BY <1>13 DEF Catch, IsLastAttempt, LockShape, OneOwner, Counted,
      EchoIsNotDoubled
  <2> QED BY <2>1, <2>2, <2>3, <2>4, <2>5, <2>6, <2>7, <2>8
<1>14. ASSUME NEW w \in Workers, DbError(w)
      PROVE  IInv'
  <2>1. TypeOK'
    BY <1>14 DEF DbError, TypeOK
  <2>2. RunShape'
    BY <1>14 DEF DbError, RunShape, TypeOK
  <2>3. RunProgress'
    BY <1>14 DEF DbError, RunProgress, TypeOK
  <2>4. LockShape' /\ OneOwner' /\ Counted' /\ RowShape' /\ MidShape' /\ SentWasAccepted' /\ CompletedIsSettled' /\ EchoIsNotDoubled'
    BY <1>14 DEF DbError, LockShape, OneOwner, Counted, RowShape, MidShape,
      SentWasAccepted, CompletedIsSettled, EchoIsNotDoubled
  <2> QED BY <2>1, <2>2, <2>3, <2>4
<1>15. ASSUME NEW w \in Workers, AckJob(w)
      PROVE  IInv'
  <2>1. TypeOK'
    BY <1>15 DEF AckJob, EndRun, TypeOK, LockShape, Counted, RunShape
  <2>2. RunShape'
    BY <1>15 DEF AckJob, EndRun, RunShape, TypeOK
  <2>3. LockShape'
    BY <1>15 DEF AckJob, EndRun, LockShape, TypeOK, RunShape, OneOwner, Counted
  <2>4. OneOwner'
    BY <1>15 DEF AckJob, EndRun, OneOwner, TypeOK
  <2>5. Counted'
    BY <1>15 DEF AckJob, EndRun, Counted
  <2>6. RowShape'
    BY <1>15 DEF AckJob, EndRun, RowShape, RunShape, LockShape
  <2>7. RunProgress'
    BY <1>15 DEF AckJob, EndRun, RunProgress, TypeOK
  <2>8. CompletedIsSettled'
    BY <1>15 DEF AckJob, EndRun, CompletedIsSettled, TypeOK, RunShape,
      RunProgress, LockShape
  <2>9. MidShape' /\ SentWasAccepted' /\ EchoIsNotDoubled'
    BY <1>15 DEF AckJob, EndRun, MidShape, SentWasAccepted, EchoIsNotDoubled
  <2> QED BY <2>1, <2>2, <2>3, <2>4, <2>5, <2>6, <2>7, <2>8, <2>9
<1>16. ASSUME NEW w \in Workers, NackJob(w)
      PROVE  IInv'
  <2>1. TypeOK'
    BY <1>16 DEF NackJob, EndRun, TypeOK, LockShape, Counted, RunShape
  <2>2. RunShape'
    BY <1>16 DEF NackJob, EndRun, RunShape, TypeOK
  <2>3. LockShape'
    BY <1>16 DEF NackJob, EndRun, LockShape, TypeOK, RunShape, OneOwner,
      Counted
  <2>4. OneOwner'
    BY <1>16 DEF NackJob, EndRun, OneOwner, TypeOK
  <2>5. Counted'
    BY <1>16 DEF NackJob, EndRun, Counted, TypeOK, RunShape, LockShape
  <2>6. RowShape'
    BY <1>16 DEF NackJob, EndRun, RowShape, TypeOK, RunShape, LockShape
  <2>7. RunProgress'
    BY <1>16 DEF NackJob, EndRun, RunProgress
  <2>8. CompletedIsSettled'
    BY <1>16 DEF NackJob, EndRun, CompletedIsSettled, TypeOK
  <2>9. MidShape' /\ SentWasAccepted' /\ EchoIsNotDoubled'
    BY <1>16 DEF NackJob, EndRun, MidShape, SentWasAccepted, EchoIsNotDoubled
  <2> QED BY <2>1, <2>2, <2>3, <2>4, <2>5, <2>6, <2>7, <2>8, <2>9
<1>17. ASSUME NEW w \in Workers, Crash(w)
      PROVE  IInv'
  <2>1. TypeOK'
    BY <1>17 DEF Crash, EndRun, TypeOK
  <2>2. RunShape'
    BY <1>17 DEF Crash, EndRun, RunShape, TypeOK
  <2>3. LockShape'
    BY <1>17 DEF Crash, EndRun, LockShape, TypeOK
  <2>4. OneOwner'
    BY <1>17 DEF Crash, EndRun, OneOwner, TypeOK
  <2>5. RunProgress'
    BY <1>17 DEF Crash, EndRun, RunProgress, TypeOK
  <2>6. Counted' /\ RowShape' /\ MidShape' /\ SentWasAccepted' /\ CompletedIsSettled' /\ EchoIsNotDoubled'
    BY <1>17 DEF Crash, EndRun, Counted, RowShape, MidShape, SentWasAccepted,
      CompletedIsSettled, EchoIsNotDoubled
  <2> QED BY <2>1, <2>2, <2>3, <2>4, <2>5, <2>6
<1>18. ASSUME NEW w \in Workers, LoseLock(w)
      PROVE  IInv'
  <2>1. TypeOK'
    BY <1>18 DEF LoseLock, TypeOK
  <2>2. RunShape'
    BY <1>18 DEF LoseLock, RunShape
  <2>3. LockShape'
    BY <1>18 DEF LoseLock, LockShape
  <2>4. OneOwner'
    BY <1>18 DEF LoseLock, OneOwner
  <2>5. Counted' /\ RowShape' /\ RunProgress' /\ MidShape' /\ SentWasAccepted' /\ CompletedIsSettled' /\ EchoIsNotDoubled'
    BY <1>18 DEF LoseLock, Counted, RowShape, RunProgress, MidShape,
      SentWasAccepted, CompletedIsSettled, EchoIsNotDoubled
  <2> QED BY <2>1, <2>2, <2>3, <2>4, <2>5
<1>19. ASSUME NEW d \in Mids, StoreEcho(d)
      PROVE  IInv'
  <2>1. TypeOK'
    BY <1>19 DEF StoreEcho, TypeOK
  <2>2. MidShape'
    BY <1>19 DEF StoreEcho, MidShape
  <2>3. EchoIsNotDoubled'
    BY <1>19 DEF StoreEcho, EchoIsNotDoubled
  <2>4. RunShape' /\ LockShape' /\ OneOwner' /\ Counted' /\ RowShape' /\ RunProgress' /\ SentWasAccepted' /\ CompletedIsSettled'
    BY <1>19 DEF StoreEcho, RunShape, LockShape, OneOwner, Counted, RowShape,
      RunProgress, SentWasAccepted, CompletedIsSettled
  <2> QED BY <2>1, <2>2, <2>3, <2>4
<1>20. ASSUME NEW c \in Conversations, MoveWindow(c)
      PROVE  IInv'
  <2>1. TypeOK'
    BY <1>20 DEF MoveWindow, TypeOK
  <2>2. RunShape' /\ LockShape' /\ OneOwner' /\ Counted' /\ RowShape' /\ RunProgress' /\ MidShape' /\ SentWasAccepted' /\ CompletedIsSettled' /\ EchoIsNotDoubled'
    BY <1>20 DEF MoveWindow, RunShape, LockShape, OneOwner, Counted, RowShape,
      RunProgress, MidShape, SentWasAccepted, CompletedIsSettled,
      EchoIsNotDoubled
  <2> QED BY <2>1, <2>2
<1>21. ASSUME MoveChannel
      PROVE  IInv'
  <2>1. TypeOK'
    BY <1>21 DEF MoveChannel, TypeOK
  <2>2. RunShape' /\ LockShape' /\ OneOwner' /\ Counted' /\ RowShape' /\ RunProgress' /\ MidShape' /\ SentWasAccepted' /\ CompletedIsSettled' /\ EchoIsNotDoubled'
    BY <1>21 DEF MoveChannel, RunShape, LockShape, OneOwner, Counted, RowShape,
      RunProgress, MidShape, SentWasAccepted, CompletedIsSettled,
      EchoIsNotDoubled
  <2> QED BY <2>1, <2>2
<1>22. CASE UNCHANGED vars
  BY <1>22 DEF vars, TypeOK, RunShape, LockShape, OneOwner, Counted, RowShape,
     RunProgress, MidShape, SentWasAccepted, CompletedIsSettled,
     EchoIsNotDoubled
<1> QED BY <1>1, <1>2, <1>3, <1>4, <1>5, <1>6, <1>7, <1>8, <1>9, <1>10, <1>11,
     <1>12, <1>13, <1>14, <1>15, <1>16, <1>17, <1>18, <1>19, <1>20, <1>21,
     <1>22
     DEF Next, Submitting, Running

LEMMA Initial == Init => IInv
<1> SUFFICES ASSUME Init PROVE IInv
  OBVIOUS
<1> USE OutboundAssumption DEF Init
<1>1. TypeOK
  BY DEF TypeOK, RowStatus, ChannelStatus, JobState, CallerStep, RunStep,
     Mids, MaxStarts
<1>2. RunShape /\ LockShape /\ OneOwner /\ Counted /\ RowShape
  BY DEF RunShape, LockShape, OneOwner, Counted, RowShape
<1>3. RunProgress /\ MidShape
  BY DEF RunProgress, MidShape
<1>4. SentWasAccepted /\ CompletedIsSettled /\ EchoIsNotDoubled
  BY DEF SentWasAccepted, CompletedIsSettled, EchoIsNotDoubled
<1> QED BY <1>1, <1>2, <1>3, <1>4 DEF IInv

LEMMA InvariantHolds == Spec => []IInv
<1>1. Init => IInv
  BY Initial
<1>2. IInv /\ [Next]_vars => IInv'
  BY Inductive
<1> QED BY <1>1, <1>2, PTL DEF Spec

-----------------------------------------------------------------------------
(* The invariants the runs check *)

\* Every variable keeps its type; in particular no job is ever started more
\* often than its attempts and stalls allow.
THEOREM TypeCorrect == Spec => []TypeOK
<1>1. IInv => TypeOK
  BY DEF IInv
<1> QED BY <1>1, InvariantHolds, PTL

\* OutboundProcessor writes 'sent' only with a mid Instagram answered to one
\* of this message's own executions, however many of them there are.
THEOREM SentTheorem == Spec => []SentWasAccepted
<1>1. IInv => SentWasAccepted
  BY DEF IInv
<1> QED BY <1>1, InvariantHolds, PTL

\* The processor never returns normally, so BullMQ never completes a job,
\* while the row is still 'queued'.
THEOREM CompletedTheorem == Spec => []CompletedIsSettled
<1>1. IInv => CompletedIsSettled
  BY DEF IInv
<1> QED BY <1>1, InvariantHolds, PTL

\* The UNIQUE index on messages.mid keeps the echo of a send and the sent row
\* from living side by side, in whichever order they are written.
THEOREM EchoTheorem == Spec => []EchoIsNotDoubled
<1>1. IInv => EchoIsNotDoubled
  BY DEF IInv
<1> QED BY <1>1, InvariantHolds, PTL

\* Retries, crashes, stalls and lost locks together hand a message to
\* Instagram at most attempts + stalls times.
THEOREM HandOffTheorem == Spec => []HandOffsAreBounded
<1>1. IInv => HandOffsAreBounded
  <2> SUFFICES ASSUME IInv, NEW m \in Messages
               PROVE  /\ (\E d \in accepted : d[1] = m) => row[m] # "absent"
                      /\ \A d \in accepted : d[1] = m => d[2] <= made[m] + stalls[m] + 1
    BY DEF HandOffsAreBounded
  <2>1. (\E d \in accepted : d[1] = m) => row[m] # "absent"
    BY DEF IInv, MidShape
  <2>2. ASSUME NEW d \in accepted, d[1] = m
        PROVE  d[2] <= made[m] + stalls[m] + 1
    <3>1. d[2] <= starts[m]
      BY <2>2 DEF IInv, MidShape
    <3>2. starts[m] <= made[m] + stalls[m] + 1
      BY DEF IInv, Counted
    <3>3. d[2] \in Nat /\ starts[m] \in Nat /\ made[m] \in Nat /\ stalls[m] \in Nat
      BY OutboundAssumption DEF IInv, TypeOK, Mids, MaxStarts
    <3> QED BY <3>1, <3>2, <3>3
  <2> QED BY <2>1, <2>2
<1> QED BY <1>1, InvariantHolds, PTL

-----------------------------------------------------------------------------
(* Without lost locks, Outbound implements Delivery *)

\* An execution that has not ended holds the lock of its job, and until it
\* records an outcome the row is the 'queued' one it read.
Exclusive ==
  \A w \in Workers :
    /\ pc[w] # "idle" => locked[w]
    /\ pc[w] \in {"call", "commit", "catch", "expire", "fail"} =>
         row[cur[w]] = "queued"

LEMMA ExclusiveInductive ==
  ASSUME ~LocksMayBeLost
  PROVE  IInv /\ Exclusive /\ [Next]_vars => Exclusive'
<1> SUFFICES ASSUME IInv, Exclusive, [Next]_vars PROVE Exclusive'
  OBVIOUS
<1> USE DEF IInv, Exclusive, dbVars, jobVars, runVars
<1>1. ASSUME NEW m \in Messages, Submitting(m) \/ AbandonCall(m)
      PROVE  Exclusive'
  BY <1>1 DEF Submitting, CheckWindow, CreateRow, AddJob, AbandonCall,
     RunShape, RowShape, TypeOK
<1>2. ASSUME NEW m \in Messages, ReclaimStalled(m)
      PROVE  Exclusive'
  BY <1>2 DEF ReclaimStalled
<1>3. ASSUME NEW w \in Workers, NEW m \in Messages, StartJob(w, m)
      PROVE  Exclusive'
  BY <1>3 DEF StartJob, TypeOK
<1>4. ASSUME NEW w \in Workers, Read(w)
      PROVE  Exclusive'
  <2>1. pc' = [pc EXCEPT ![w] = Verdict(cur[w])] /\ pc \in [Workers -> RunStep]
    BY <1>4 DEF Read, TypeOK
  <2>2. Verdict(cur[w]) \in {"call", "fail"} => row[cur[w]] = "queued"
    BY DEF Verdict
  <2>3. Verdict(cur[w]) \in {"done", "call", "fail"}
    BY DEF Verdict
  <2>4. pc[w] = "read" /\ UNCHANGED <<row, cur, locked>>
    BY <1>4 DEF Read
  <2> QED BY <2>1, <2>2, <2>3, <2>4
<1>5. ASSUME NEW w \in Workers, CallAccepted(w) \/ CallRefused(w)
      PROVE  Exclusive'
  BY <1>5 DEF CallAccepted, CallRefused, TypeOK
<1>6. ASSUME NEW w \in Workers, Commit(w)
      PROVE  Exclusive'
  BY <1>6 DEF Commit, TypeOK, RunShape, OneOwner
<1>7. ASSUME NEW w \in Workers, Fail(w)
      PROVE  Exclusive'
  BY <1>7 DEF Fail, TypeOK, RunShape, OneOwner
<1>8. ASSUME NEW w \in Workers, Catch(w)
      PROVE  Exclusive'
  BY <1>8 DEF Catch, TypeOK, RunShape, OneOwner
<1>9. ASSUME NEW w \in Workers, Expire(w) \/ DbError(w)
      PROVE  Exclusive'
  BY <1>9 DEF Expire, DbError, TypeOK
<1>10. ASSUME NEW w \in Workers, AckJob(w) \/ NackJob(w) \/ Crash(w)
       PROVE  Exclusive'
  BY <1>10 DEF AckJob, NackJob, Crash, EndRun, TypeOK
<1>11. ASSUME NEW w \in Workers, LoseLock(w)
       PROVE  Exclusive'
  BY <1>11 DEF LoseLock
<1>12. ASSUME NEW d \in Mids, StoreEcho(d)
       PROVE  Exclusive'
  BY <1>12 DEF StoreEcho
<1>13. ASSUME NEW c \in Conversations, MoveWindow(c)
       PROVE  Exclusive'
  BY <1>13 DEF MoveWindow
<1>14. ASSUME MoveChannel
       PROVE  Exclusive'
  BY <1>14 DEF MoveChannel
<1>15. CASE UNCHANGED vars
  BY <1>15 DEF vars
<1> QED BY <1>1, <1>2, <1>3, <1>4, <1>5, <1>6, <1>7, <1>8, <1>9, <1>10,
     <1>11, <1>12, <1>13, <1>14, <1>15 DEF Next, Running

\* The step of Delivery that a step of Outbound is.
LEMMA StepRefined ==
  IInv /\ Exclusive /\ [Next]_vars => [Promise!Next]_(Promise!vars)
<1> SUFFICES ASSUME IInv, Exclusive, [Next]_vars
             PROVE  [Promise!Next]_(Promise!vars)
  OBVIOUS
<1> DEFINE handed == [m \in Messages |-> {n \in 1..MaxStarts : <<m, n>> \in accepted}]
<1> USE DEF IInv, dbVars, jobVars, runVars
<1>0. ASSUME UNCHANGED <<row, accepted>>
      PROVE  UNCHANGED Promise!vars
  BY <1>0 DEF Promise!vars
<1>1. ASSUME NEW m \in Messages, CreateRow(m)
      PROVE  Promise!Submit(m)
  BY <1>1 DEF CreateRow, Promise!Submit, RowShape
<1>2. ASSUME NEW w \in Workers, CallAccepted(w)
      PROVE  Promise!HandOff(cur[w]) \/ UNCHANGED Promise!vars
  <2>1. /\ cur[w] \in Messages
        /\ nth[w] \in 1..MaxStarts
        /\ row[cur[w]] = "queued"
    BY <1>2, OutboundAssumption DEF CallAccepted, Exclusive, RunShape, TypeOK,
       MaxStarts
  <2>2. accepted' = accepted \union {<<cur[w], nth[w]>>} /\ row' = row
    BY <1>2 DEF CallAccepted, MidOf
  <2>3. CASE <<cur[w], nth[w]>> \in accepted
    BY <2>2, <2>3, <1>0
  <2>4. CASE <<cur[w], nth[w]>> \notin accepted
    <3>1. nth[w] \in (1..MaxStarts) \ handed[cur[w]]
      BY <2>1, <2>4
    <3>2. handed' = [handed EXCEPT ![cur[w]] = @ \union {nth[w]}]
      BY <2>1, <2>2
    <3> QED BY <2>1, <2>2, <3>1, <3>2 DEF Promise!HandOff
  <2> QED BY <2>3, <2>4
<1>3. ASSUME NEW w \in Workers, Commit(w)
      PROVE  Promise!Confirm(cur[w]) \/ UNCHANGED Promise!vars
  <2>1. /\ cur[w] \in Messages
        /\ nth[w] \in 1..MaxStarts
        /\ row[cur[w]] = "queued"
        /\ <<cur[w], nth[w]>> \in accepted
    BY <1>3, OutboundAssumption DEF Commit, Exclusive, RunShape, TypeOK,
       MaxStarts, RunProgress, MidOf
  <2>2. CASE row' = row
    BY <1>3, <2>2, <1>0 DEF Commit
  <2>3. CASE row' = [row EXCEPT ![cur[w]] = "sent"]
    <3>1. handed[cur[w]] # {}
      BY <2>1
    <3>2. handed' = handed
      BY <1>3 DEF Commit
    <3> QED BY <2>1, <2>3, <3>1, <3>2 DEF Promise!Confirm
  <2> QED BY <1>3, <2>2, <2>3 DEF Commit
<1>4. ASSUME NEW w \in Workers, Fail(w) \/ Catch(w)
      PROVE  Promise!GiveUp(cur[w]) \/ UNCHANGED Promise!vars
  <2>1. row[cur[w]] = "queued"
    BY <1>4 DEF Fail, Catch, Exclusive
  <2>2. CASE row' = row
    BY <1>4, <2>2, <1>0 DEF Fail, Catch
  <2>3. CASE row' = [row EXCEPT ![cur[w]] = "failed"]
    BY <1>4, <2>1, <2>3 DEF Fail, Catch, Promise!GiveUp
  <2> QED BY <1>4, <2>2, <2>3 DEF Fail, Catch
<1>5. ASSUME NEW w \in Workers, pc[w] # "idle"
      PROVE  cur[w] \in Messages
  BY <1>5 DEF RunShape
<1>6. ASSUME NEW m \in Messages,
             CheckWindow(m) \/ AddJob(m) \/ AbandonCall(m) \/ ReclaimStalled(m)
      PROVE  UNCHANGED Promise!vars
  BY <1>6, <1>0 DEF CheckWindow, AddJob, AbandonCall, ReclaimStalled
<1>7. ASSUME NEW w \in Workers, NEW m \in Messages, StartJob(w, m)
      PROVE  UNCHANGED Promise!vars
  BY <1>7, <1>0 DEF StartJob
<1>8. ASSUME NEW w \in Workers,
             Read(w) \/ CallRefused(w) \/ Expire(w) \/ DbError(w)
      PROVE  UNCHANGED Promise!vars
  BY <1>8, <1>0 DEF Read, CallRefused, Expire, DbError
<1>9. ASSUME NEW w \in Workers,
             AckJob(w) \/ NackJob(w) \/ Crash(w) \/ LoseLock(w)
      PROVE  UNCHANGED Promise!vars
  BY <1>9, <1>0 DEF AckJob, NackJob, Crash, LoseLock
<1>10. ASSUME NEW d \in Mids, StoreEcho(d)
       PROVE  UNCHANGED Promise!vars
  BY <1>10, <1>0 DEF StoreEcho
<1>11. ASSUME (\E c \in Conversations : MoveWindow(c)) \/ MoveChannel
       PROVE  UNCHANGED Promise!vars
  BY <1>11, <1>0 DEF MoveWindow, MoveChannel
<1>12. ASSUME UNCHANGED vars
       PROVE  UNCHANGED Promise!vars
  BY <1>12, <1>0 DEF vars
<1>13. ASSUME NEW w \in Workers,
              CallAccepted(w) \/ Commit(w) \/ Fail(w) \/ Catch(w)
       PROVE  [Promise!Next]_(Promise!vars)
  <2>1. cur[w] \in Messages
    BY <1>13, <1>5 DEF CallAccepted, Commit, Fail, Catch
  <2>2. \/ Promise!HandOff(cur[w])
        \/ Promise!Confirm(cur[w])
        \/ Promise!GiveUp(cur[w])
        \/ UNCHANGED Promise!vars
    <3>1. CASE CallAccepted(w)
      BY <3>1, <1>2
    <3>2. CASE Commit(w)
      BY <3>2, <1>3
    <3>3. CASE Fail(w) \/ Catch(w)
      BY <3>3, <1>4
    <3> QED BY <1>13, <3>1, <3>2, <3>3
  <2>3. ASSUME Promise!HandOff(cur[w]) \/ Promise!Confirm(cur[w]) \/ Promise!GiveUp(cur[w])
        PROVE  Promise!Next
    BY <2>1, <2>3 DEF Promise!Next, Promise!HandOff, Promise!Confirm, Promise!GiveUp
  <2>4. Promise!Next \/ UNCHANGED Promise!vars
    BY <2>2, <2>3
  <2> QED BY <2>4
<1>14. ASSUME NEW m \in Messages, Submitting(m)
       PROVE  [Promise!Next]_(Promise!vars)
  BY <1>14, <1>1, <1>6 DEF Submitting, Promise!Next
<1> QED BY <1>6, <1>7, <1>8, <1>9, <1>10, <1>11, <1>12, <1>13, <1>14
     DEF Next, Running

\* As long as no live worker loses the lock of its job, the whole of the
\* outbound path - callers, queue, retries, crashes, echoes - does nothing
\* Delivery does not allow: outcomes are final and follow a hand-off.
THEOREM Refinement ==
  ASSUME ~LocksMayBeLost
  PROVE  Spec => ImplementsDelivery
<1>1. Init => Promise!Init
  BY DEF Init, Promise!Init
<1>2. Init => Exclusive
  BY DEF Init, Exclusive
<1>3. IInv /\ Exclusive /\ [Next]_vars => Exclusive'
  BY ExclusiveInductive
<1>4. IInv /\ Exclusive /\ [Next]_vars => [Promise!Next]_(Promise!vars)
  BY StepRefined
<1> QED BY <1>1, <1>2, <1>3, <1>4, InvariantHolds, PTL
     DEF Spec, ImplementsDelivery, Promise!Spec
=============================================================================
