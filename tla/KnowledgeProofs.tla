-------------------------- MODULE KnowledgeProofs --------------------------
(***************************************************************************)
(* Proofs about Knowledge, for any sources, requests and calls, and with   *)
(* every failure that the model knows.                                     *)
(***************************************************************************)
EXTENDS Knowledge, FiniteSetTheorems, TLAPS

\* A job that may be attempted again has attempts left.
TriesShape ==
  \A s \in Sources : job[s] \in {"none", "waiting", "active"} => tries[s] < MaxAttempts

\* A request that adds a job knows for which source.
RequestShape == \A r \in Requests : rq[r] = "add" => on[r] \in Sources

\* A call that is at work has a source.
CallShape == \A k \in Calls : at[k] \in AtWork => of[k] \in Sources

\* No two calls are at work for a source that was never crowded ...
OneAtWork ==
  \A s \in Sources : s \notin crowded => \A k, l \in Working(s) : k = l

\* ... so that what one of them has found is all that it replaces.
SeesAll ==
  \A k \in Calls : at[k] = "insert" /\ of[k] \notin crowded => chunks[of[k]] \subseteq sees[k]

IInv ==
  /\ TypeOK
  /\ TriesShape
  /\ RequestShape
  /\ CallShape
  /\ OneAtWork
  /\ SeesAll
  /\ RemovedIsForgotten
  /\ OneIngestion

\* No chunks, or those of one call.
LEMMA Few == Cardinality({}) <= 1 /\ \A k : Cardinality({k}) <= 1
  BY FS_EmptySet, FS_Singleton

\* The invariant holds at the start ...
LEMMA Start == Init => IInv
<1> SUFFICES ASSUME Init PROVE IInv
  OBVIOUS
<1> USE KnowledgeAssumption DEF Init
<1>1. TypeOK
  <2>1. 0 \in Versions /\ 0 \in 0..MaxAttempts /\ 0 \in 0..MaxStalls
    BY DEF Versions
  <2>2. status \in [Sources -> Status] /\ job \in [Sources -> JobState]
    BY DEF Status, JobState
  <2>3. tries \in [Sources -> 0..MaxAttempts] /\ stalls \in [Sources -> 0..MaxStalls]
    BY <2>1
  <2>4. at \in [Calls -> Place]
    BY DEF Place
  <2> QED BY <2>1, <2>2, <2>3, <2>4 DEF TypeOK
<1>2. TriesShape /\ RequestShape /\ CallShape
  BY DEF TriesShape, RequestShape, CallShape, AtWork
<1>3. OneAtWork /\ SeesAll
  BY DEF OneAtWork, SeesAll, Working, AtWork
<1>4. RemovedIsForgotten
  BY DEF RemovedIsForgotten, There
<1>5. OneIngestion
  BY Few DEF OneIngestion
<1> QED BY <1>1, <1>2, <1>3, <1>4, <1>5 DEF IInv

\* ... and every step keeps it.
LEMMA Inductive == IInv /\ [Next]_vars => IInv'
<1> SUFFICES ASSUME IInv, [Next]_vars PROVE IInv'
  OBVIOUS
<1> USE KnowledgeAssumption DEF IInv, rowVars, jobVars, rqVars, callVars
<1>1. ASSUME NEW r \in Requests, NEW s \in Pages, CreateSource(r, s)
      PROVE  IInv'
  <2>1. TypeOK'
    BY <1>1 DEF CreateSource, TypeOK, TriesShape, RequestShape, CallShape, Sources,
       Versions, Status, JobState, Place
  <2>2. TriesShape'
    BY <1>1 DEF CreateSource, TriesShape, TypeOK, Sources
  <2>3. RequestShape'
    BY <1>1 DEF CreateSource, RequestShape, TypeOK, Sources
  <2>4. CallShape'
    BY <1>1 DEF CreateSource, CallShape, TypeOK, AtWork
  <2>5. OneAtWork'
    BY <1>1 DEF CreateSource, OneAtWork, TypeOK, CallShape, Working, AtWork
  <2>6. SeesAll'
    BY <1>1 DEF CreateSource, SeesAll, TypeOK, CallShape, OneAtWork, Working, AtWork
  <2>7. RemovedIsForgotten'
    BY <1>1 DEF CreateSource, RemovedIsForgotten, TypeOK, CallShape, RequestShape, There,
       AtWork
  <2>8. OneIngestion'
    BY <1>1, Few DEF CreateSource, OneIngestion, TypeOK, CallShape, SeesAll, Working, AtWork
  <2> QED BY <2>1, <2>2, <2>3, <2>4, <2>5, <2>6, <2>7, <2>8
<1>2. ASSUME NEW r \in Requests, NEW s \in Pages, Refresh(r, s)
      PROVE  IInv'
  <2>1. TypeOK'
    BY <1>2 DEF Refresh, There, TypeOK, TriesShape, RequestShape, CallShape, Sources,
       Versions, Status, JobState, Place
  <2>2. TriesShape'
    BY <1>2 DEF Refresh, There, TriesShape, TypeOK, Sources
  <2>3. RequestShape'
    BY <1>2 DEF Refresh, There, RequestShape, TypeOK, Sources
  <2>4. CallShape'
    BY <1>2 DEF Refresh, There, CallShape, TypeOK, AtWork
  <2>5. OneAtWork'
    BY <1>2 DEF Refresh, There, OneAtWork, TypeOK, CallShape, Working, AtWork
  <2>6. SeesAll'
    BY <1>2 DEF Refresh, There, SeesAll, TypeOK, CallShape, OneAtWork, Working, AtWork
  <2>7. RemovedIsForgotten'
    BY <1>2 DEF Refresh, There, RemovedIsForgotten, TypeOK, CallShape, RequestShape, AtWork
  <2>8. OneIngestion'
    BY <1>2, Few DEF Refresh, There, OneIngestion, TypeOK, CallShape, SeesAll, Working, AtWork
  <2> QED BY <2>1, <2>2, <2>3, <2>4, <2>5, <2>6, <2>7, <2>8
<1>3. ASSUME NEW r \in Requests, ChangeItems(r)
      PROVE  IInv'
  <2>1. TypeOK'
    BY <1>3 DEF ChangeItems, TypeOK, TriesShape, RequestShape, CallShape, Sources, Versions,
       Status, JobState, Place
  <2>2. TriesShape'
    BY <1>3 DEF ChangeItems, TriesShape, TypeOK, Sources
  <2>3. RequestShape'
    BY <1>3 DEF ChangeItems, RequestShape, TypeOK, Sources
  <2>4. CallShape'
    BY <1>3 DEF ChangeItems, CallShape, TypeOK, AtWork
  <2>5. OneAtWork'
    BY <1>3 DEF ChangeItems, OneAtWork, TypeOK, CallShape, Working, AtWork
  <2>6. SeesAll'
    BY <1>3 DEF ChangeItems, SeesAll, TypeOK, CallShape, OneAtWork, Working, AtWork
  <2>7. RemovedIsForgotten'
    BY <1>3 DEF ChangeItems, RemovedIsForgotten, TypeOK, CallShape, RequestShape, There, AtWork
  <2>8. OneIngestion'
    BY <1>3, Few DEF ChangeItems, OneIngestion, TypeOK, CallShape, SeesAll, Working, AtWork
  <2> QED BY <2>1, <2>2, <2>3, <2>4, <2>5, <2>6, <2>7, <2>8
<1>4. ASSUME NEW r \in Requests, Reindex(r)
      PROVE  IInv'
  <2>1. TypeOK'
    BY <1>4 DEF Reindex, TypeOK, TriesShape, RequestShape, CallShape, Sources, Versions,
       Status, JobState, Place
  <2>2. TriesShape'
    BY <1>4 DEF Reindex, TriesShape, TypeOK, Sources
  <2>3. RequestShape'
    BY <1>4 DEF Reindex, RequestShape, TypeOK, Sources
  <2>4. CallShape'
    BY <1>4 DEF Reindex, CallShape, TypeOK, AtWork
  <2>5. OneAtWork'
    BY <1>4 DEF Reindex, OneAtWork, TypeOK, CallShape, Working, AtWork
  <2>6. SeesAll'
    BY <1>4 DEF Reindex, SeesAll, TypeOK, CallShape, OneAtWork, Working, AtWork
  <2>7. RemovedIsForgotten'
    BY <1>4 DEF Reindex, RemovedIsForgotten, TypeOK, CallShape, RequestShape, There, AtWork
  <2>8. OneIngestion'
    BY <1>4, Few DEF Reindex, OneIngestion, TypeOK, CallShape, SeesAll, Working, AtWork
  <2> QED BY <2>1, <2>2, <2>3, <2>4, <2>5, <2>6, <2>7, <2>8
<1>5. ASSUME NEW r \in Requests, DeleteCatalog(r)
      PROVE  IInv'
  <2>1. TypeOK'
    BY <1>5 DEF DeleteCatalog, Drop, TypeOK, TriesShape, RequestShape, CallShape, Sources,
       Versions, Status, JobState, Place
  <2>2. TriesShape'
    BY <1>5 DEF DeleteCatalog, Drop, TriesShape, TypeOK, Sources
  <2>3. RequestShape'
    BY <1>5 DEF DeleteCatalog, Drop, RequestShape, TypeOK, Sources
  <2>4. CallShape'
    BY <1>5 DEF DeleteCatalog, Drop, CallShape, TypeOK, AtWork
  <2>5. OneAtWork'
    BY <1>5 DEF DeleteCatalog, Drop, OneAtWork, TypeOK, CallShape, Working, AtWork
  <2>6. SeesAll'
    BY <1>5 DEF DeleteCatalog, Drop, SeesAll, TypeOK, CallShape, OneAtWork, Working, AtWork
  <2>7. RemovedIsForgotten'
    BY <1>5 DEF DeleteCatalog, Drop, RemovedIsForgotten, TypeOK, CallShape, RequestShape,
       There, AtWork
  <2>8. OneIngestion'
    BY <1>5, Few DEF DeleteCatalog, Drop, OneIngestion, TypeOK, CallShape, SeesAll, Working,
       AtWork
  <2> QED BY <2>1, <2>2, <2>3, <2>4, <2>5, <2>6, <2>7, <2>8
<1>6. ASSUME NEW r \in Requests, WriteCatalog(r)
      PROVE  IInv'
  <2>1. TypeOK'
    BY <1>6 DEF WriteCatalog, TypeOK, TriesShape, RequestShape, CallShape, Sources,
       Versions, Status, JobState, Place
  <2>2. TriesShape'
    BY <1>6 DEF WriteCatalog, TriesShape, TypeOK, Sources
  <2>3. RequestShape'
    BY <1>6 DEF WriteCatalog, RequestShape, TypeOK, Sources
  <2>4. CallShape'
    BY <1>6 DEF WriteCatalog, CallShape, TypeOK, AtWork
  <2>5. OneAtWork'
    BY <1>6 DEF WriteCatalog, OneAtWork, TypeOK, CallShape, Working, AtWork
  <2>6. SeesAll'
    BY <1>6 DEF WriteCatalog, SeesAll, TypeOK, CallShape, OneAtWork, Working, AtWork
  <2>7. RemovedIsForgotten'
    BY <1>6 DEF WriteCatalog, RemovedIsForgotten, TypeOK, CallShape, RequestShape, There,
       AtWork
  <2>8. OneIngestion'
    BY <1>6, Few DEF WriteCatalog, OneIngestion, TypeOK, CallShape, SeesAll, Working, AtWork
  <2> QED BY <2>1, <2>2, <2>3, <2>4, <2>5, <2>6, <2>7, <2>8
<1>7. ASSUME NEW r \in Requests, Add(r)
      PROVE  IInv'
  <2>0. on[r] \in Sources /\ None \notin Calls
    BY <1>7 DEF Add, RequestShape
  <2>1. TypeOK'
    <3>1. CASE job[on[r]] = "none"
      BY <1>7, <2>0, <3>1 DEF Add, TypeOK, JobState
    <3>2. CASE job[on[r]] # "none"
      BY <1>7, <3>2 DEF Add, TypeOK
    <3> QED BY <3>1, <3>2
  <2>2. TriesShape'
    BY <1>7 DEF Add, TriesShape, TypeOK, Sources
  <2>3. RequestShape'
    BY <1>7 DEF Add, RequestShape, TypeOK, Sources
  <2>4. CallShape'
    BY <1>7 DEF Add, CallShape, TypeOK, AtWork
  <2>5. OneAtWork'
    BY <1>7 DEF Add, OneAtWork, TypeOK, CallShape, Working, AtWork
  <2>6. SeesAll'
    BY <1>7 DEF Add, SeesAll, TypeOK, CallShape, OneAtWork, Working, AtWork
  <2>7. RemovedIsForgotten'
    BY <1>7 DEF Add, RemovedIsForgotten, TypeOK, CallShape, RequestShape, There, AtWork
  <2>8. OneIngestion'
    BY <1>7, Few DEF Add, OneIngestion, TypeOK, CallShape, SeesAll, Working, AtWork
  <2> QED BY <2>1, <2>2, <2>3, <2>4, <2>5, <2>6, <2>7, <2>8
<1>8. ASSUME NEW r \in Requests, Abandon(r)
      PROVE  IInv'
  <2>1. TypeOK'
    BY <1>8 DEF Abandon, Open, TypeOK, TriesShape, RequestShape, CallShape, Sources,
       Versions, Status, JobState, Place
  <2>2. TriesShape'
    BY <1>8 DEF Abandon, Open, TriesShape, TypeOK, Sources
  <2>3. RequestShape'
    BY <1>8 DEF Abandon, Open, RequestShape, TypeOK, Sources
  <2>4. CallShape'
    BY <1>8 DEF Abandon, Open, CallShape, TypeOK, AtWork
  <2>5. OneAtWork'
    BY <1>8 DEF Abandon, Open, OneAtWork, TypeOK, CallShape, Working, AtWork
  <2>6. SeesAll'
    BY <1>8 DEF Abandon, Open, SeesAll, TypeOK, CallShape, OneAtWork, Working, AtWork
  <2>7. RemovedIsForgotten'
    BY <1>8 DEF Abandon, Open, RemovedIsForgotten, TypeOK, CallShape, RequestShape, There,
       AtWork
  <2>8. OneIngestion'
    BY <1>8, Few DEF Abandon, Open, OneIngestion, TypeOK, CallShape, SeesAll, Working, AtWork
  <2> QED BY <2>1, <2>2, <2>3, <2>4, <2>5, <2>6, <2>7, <2>8
<1>9. ASSUME NEW s \in Sources, NEW k \in Calls, StartJob(s, k)
      PROVE  IInv'
  <2>1. TypeOK'
    BY <1>9 DEF StartJob, TypeOK, TriesShape, RequestShape, CallShape, Sources, Versions,
       Status, JobState, Place
  <2>2. TriesShape'
    BY <1>9 DEF StartJob, TriesShape, TypeOK, Sources
  <2>3. RequestShape'
    BY <1>9 DEF StartJob, RequestShape, TypeOK, Sources
  <2>4. CallShape'
    BY <1>9 DEF StartJob, CallShape, TypeOK, AtWork
  <2>5. OneAtWork'
    BY <1>9 DEF StartJob, OneAtWork, TypeOK, CallShape, Working, AtWork
  <2>6. SeesAll'
    BY <1>9 DEF StartJob, SeesAll, TypeOK, CallShape, OneAtWork, Working, AtWork
  <2>7. RemovedIsForgotten'
    BY <1>9 DEF StartJob, RemovedIsForgotten, TypeOK, CallShape, RequestShape, There, AtWork
  <2>8. OneIngestion'
    BY <1>9, Few DEF StartJob, OneIngestion, TypeOK, CallShape, SeesAll, Working, AtWork
  <2> QED BY <2>1, <2>2, <2>3, <2>4, <2>5, <2>6, <2>7, <2>8
<1>10. ASSUME NEW s \in Sources, AckJob(s)
      PROVE  IInv'
  <2>1. TypeOK'
    BY <1>10 DEF AckJob, TypeOK, TriesShape, RequestShape, CallShape, Sources, Versions,
       Status, JobState, Place
  <2>2. TriesShape'
    BY <1>10 DEF AckJob, TriesShape, TypeOK, Sources
  <2>3. RequestShape'
    BY <1>10 DEF AckJob, RequestShape, TypeOK, Sources
  <2>4. CallShape'
    BY <1>10 DEF AckJob, CallShape, TypeOK, AtWork
  <2>5. OneAtWork'
    BY <1>10 DEF AckJob, OneAtWork, TypeOK, CallShape, Working, AtWork
  <2>6. SeesAll'
    BY <1>10 DEF AckJob, SeesAll, TypeOK, CallShape, OneAtWork, Working, AtWork
  <2>7. RemovedIsForgotten'
    BY <1>10 DEF AckJob, RemovedIsForgotten, TypeOK, CallShape, RequestShape, There, AtWork
  <2>8. OneIngestion'
    BY <1>10, Few DEF AckJob, OneIngestion, TypeOK, CallShape, SeesAll, Working, AtWork
  <2> QED BY <2>1, <2>2, <2>3, <2>4, <2>5, <2>6, <2>7, <2>8
<1>11. ASSUME NEW s \in Sources, NoAnswer(s)
      PROVE  IInv'
  <2>1. TypeOK'
    BY <1>11 DEF NoAnswer, TypeOK, TriesShape, RequestShape, CallShape, Sources, Versions,
       Status, JobState, Place
  <2>2. TriesShape'
    BY <1>11 DEF NoAnswer, TriesShape, TypeOK, Sources
  <2>3. RequestShape'
    BY <1>11 DEF NoAnswer, RequestShape, TypeOK, Sources
  <2>4. CallShape'
    BY <1>11 DEF NoAnswer, CallShape, TypeOK, AtWork
  <2>5. OneAtWork'
    BY <1>11 DEF NoAnswer, OneAtWork, TypeOK, CallShape, Working, AtWork
  <2>6. SeesAll'
    BY <1>11 DEF NoAnswer, SeesAll, TypeOK, CallShape, OneAtWork, Working, AtWork
  <2>7. RemovedIsForgotten'
    BY <1>11 DEF NoAnswer, RemovedIsForgotten, TypeOK, CallShape, RequestShape, There, AtWork
  <2>8. OneIngestion'
    BY <1>11, Few DEF NoAnswer, OneIngestion, TypeOK, CallShape, SeesAll, Working, AtWork
  <2> QED BY <2>1, <2>2, <2>3, <2>4, <2>5, <2>6, <2>7, <2>8
<1>12. ASSUME NEW s \in Sources, WorkerDies(s)
      PROVE  IInv'
  <2>1. TypeOK'
    BY <1>12 DEF WorkerDies, TypeOK, TriesShape, RequestShape, CallShape, Sources, Versions,
       Status, JobState, Place
  <2>2. TriesShape'
    BY <1>12 DEF WorkerDies, TriesShape, TypeOK, Sources
  <2>3. RequestShape'
    BY <1>12 DEF WorkerDies, RequestShape, TypeOK, Sources
  <2>4. CallShape'
    BY <1>12 DEF WorkerDies, CallShape, TypeOK, AtWork
  <2>5. OneAtWork'
    BY <1>12 DEF WorkerDies, OneAtWork, TypeOK, CallShape, Working, AtWork
  <2>6. SeesAll'
    BY <1>12 DEF WorkerDies, SeesAll, TypeOK, CallShape, OneAtWork, Working, AtWork
  <2>7. RemovedIsForgotten'
    BY <1>12 DEF WorkerDies, RemovedIsForgotten, TypeOK, CallShape, RequestShape, There, AtWork
  <2>8. OneIngestion'
    BY <1>12, Few DEF WorkerDies, OneIngestion, TypeOK, CallShape, SeesAll, Working, AtWork
  <2> QED BY <2>1, <2>2, <2>3, <2>4, <2>5, <2>6, <2>7, <2>8
<1>13. ASSUME NEW s \in Sources, ForgetJob(s)
      PROVE  IInv'
  <2>1. TypeOK'
    BY <1>13 DEF ForgetJob, TypeOK, TriesShape, RequestShape, CallShape, Sources, Versions,
       Status, JobState, Place
  <2>2. TriesShape'
    BY <1>13 DEF ForgetJob, TriesShape, TypeOK, Sources
  <2>3. RequestShape'
    BY <1>13 DEF ForgetJob, RequestShape, TypeOK, Sources
  <2>4. CallShape'
    BY <1>13 DEF ForgetJob, CallShape, TypeOK, AtWork
  <2>5. OneAtWork'
    BY <1>13 DEF ForgetJob, OneAtWork, TypeOK, CallShape, Working, AtWork
  <2>6. SeesAll'
    BY <1>13 DEF ForgetJob, SeesAll, TypeOK, CallShape, OneAtWork, Working, AtWork
  <2>7. RemovedIsForgotten'
    BY <1>13 DEF ForgetJob, RemovedIsForgotten, TypeOK, CallShape, RequestShape, There, AtWork
  <2>8. OneIngestion'
    BY <1>13, Few DEF ForgetJob, OneIngestion, TypeOK, CallShape, SeesAll, Working, AtWork
  <2> QED BY <2>1, <2>2, <2>3, <2>4, <2>5, <2>6, <2>7, <2>8
<1>14. ASSUME NEW s \in Sources, RemoveSource(s)
      PROVE  IInv'
  <2>1. TypeOK'
    BY <1>14 DEF RemoveSource, Drop, TypeOK, TriesShape, RequestShape, CallShape, Sources,
       Versions, Status, JobState, Place
  <2>2. TriesShape'
    BY <1>14 DEF RemoveSource, Drop, TriesShape, TypeOK, Sources
  <2>3. RequestShape'
    BY <1>14 DEF RemoveSource, Drop, RequestShape, TypeOK, Sources
  <2>4. CallShape'
    BY <1>14 DEF RemoveSource, Drop, CallShape, TypeOK, AtWork
  <2>5. OneAtWork'
    BY <1>14 DEF RemoveSource, Drop, OneAtWork, TypeOK, CallShape, Working, AtWork
  <2>6. SeesAll'
    BY <1>14 DEF RemoveSource, Drop, SeesAll, TypeOK, CallShape, OneAtWork, Working, AtWork
  <2>7. RemovedIsForgotten'
    BY <1>14 DEF RemoveSource, Drop, RemovedIsForgotten, TypeOK, CallShape, RequestShape,
       There, AtWork
  <2>8. OneIngestion'
    BY <1>14, Few DEF RemoveSource, Drop, OneIngestion, TypeOK, CallShape, SeesAll, Working,
       AtWork
  <2> QED BY <2>1, <2>2, <2>3, <2>4, <2>5, <2>6, <2>7, <2>8
<1>15. ASSUME NEW k \in Calls, Extract(k)
      PROVE  IInv'
  <2>1. TypeOK'
    BY <1>15 DEF Extract, Goto, TypeOK, TriesShape, RequestShape, CallShape, Sources,
       Versions, Status, JobState, Place
  <2>2. TriesShape'
    BY <1>15 DEF Extract, Goto, TriesShape, TypeOK, Sources
  <2>3. RequestShape'
    BY <1>15 DEF Extract, Goto, RequestShape, TypeOK, Sources
  <2>4. CallShape'
    BY <1>15 DEF Extract, Goto, CallShape, TypeOK, AtWork
  <2>5. OneAtWork'
    BY <1>15 DEF Extract, Goto, OneAtWork, TypeOK, CallShape, Working, AtWork
  <2>6. SeesAll'
    BY <1>15 DEF Extract, Goto, SeesAll, TypeOK, CallShape, OneAtWork, Working, AtWork
  <2>7. RemovedIsForgotten'
    BY <1>15 DEF Extract, Goto, RemovedIsForgotten, TypeOK, CallShape, RequestShape, There,
       AtWork
  <2>8. OneIngestion'
    BY <1>15, Few DEF Extract, Goto, OneIngestion, TypeOK, CallShape, SeesAll, Working, AtWork
  <2> QED BY <2>1, <2>2, <2>3, <2>4, <2>5, <2>6, <2>7, <2>8
<1>16. ASSUME NEW k \in Calls, Raise(k)
      PROVE  IInv'
  <2>1. TypeOK'
    BY <1>16 DEF Raise, Goto, TypeOK, TriesShape, RequestShape, CallShape, Sources,
       Versions, Status, JobState, Place
  <2>2. TriesShape'
    BY <1>16 DEF Raise, Goto, TriesShape, TypeOK, Sources
  <2>3. RequestShape'
    BY <1>16 DEF Raise, Goto, RequestShape, TypeOK, Sources
  <2>4. CallShape'
    BY <1>16 DEF Raise, Goto, CallShape, TypeOK, AtWork
  <2>5. OneAtWork'
    BY <1>16 DEF Raise, Goto, OneAtWork, TypeOK, CallShape, Working, AtWork
  <2>6. SeesAll'
    BY <1>16 DEF Raise, Goto, SeesAll, TypeOK, CallShape, OneAtWork, Working, AtWork
  <2>7. RemovedIsForgotten'
    BY <1>16 DEF Raise, Goto, RemovedIsForgotten, TypeOK, CallShape, RequestShape, There,
       AtWork
  <2>8. OneIngestion'
    BY <1>16, Few DEF Raise, Goto, OneIngestion, TypeOK, CallShape, SeesAll, Working, AtWork
  <2> QED BY <2>1, <2>2, <2>3, <2>4, <2>5, <2>6, <2>7, <2>8
<1>17. ASSUME NEW k \in Calls, Delete(k)
      PROVE  IInv'
  <2>0. of[k] \in Sources
    BY <1>17 DEF Delete, CallShape, AtWork
  <2>1. TypeOK'
    BY <1>17, <2>0 DEF Delete, Goto, TypeOK, Place
  <2>2. TriesShape'
    BY <1>17 DEF Delete, Goto, TriesShape, TypeOK, Sources
  <2>3. RequestShape'
    BY <1>17 DEF Delete, Goto, RequestShape, TypeOK, Sources
  <2>4. CallShape'
    BY <1>17 DEF Delete, Goto, CallShape, TypeOK, AtWork
  <2>5. OneAtWork'
    BY <1>17 DEF Delete, Goto, OneAtWork, TypeOK, CallShape, Working, AtWork
  <2>6. SeesAll'
    BY <1>17 DEF Delete, Goto, SeesAll, TypeOK, CallShape, OneAtWork, Working, AtWork
  <2>7. RemovedIsForgotten'
    BY <1>17 DEF Delete, Goto, RemovedIsForgotten, TypeOK, CallShape, RequestShape, There,
       AtWork
  <2>8. OneIngestion'
    BY <1>17, Few DEF Delete, Goto, OneIngestion, TypeOK, CallShape, SeesAll, Working, AtWork
  <2> QED BY <2>1, <2>2, <2>3, <2>4, <2>5, <2>6, <2>7, <2>8
<1>18. ASSUME NEW k \in Calls, Insert(k)
      PROVE  IInv'
  <2>1. TypeOK'
    BY <1>18 DEF Insert, Goto, TypeOK, TriesShape, RequestShape, CallShape, Sources,
       Versions, Status, JobState, Place
  <2>2. TriesShape'
    BY <1>18 DEF Insert, Goto, TriesShape, TypeOK, Sources
  <2>3. RequestShape'
    BY <1>18 DEF Insert, Goto, RequestShape, TypeOK, Sources
  <2>4. CallShape'
    BY <1>18 DEF Insert, Goto, CallShape, TypeOK, AtWork
  <2>5. OneAtWork'
    BY <1>18 DEF Insert, Goto, OneAtWork, TypeOK, CallShape, Working, AtWork
  <2>6. SeesAll'
    BY <1>18 DEF Insert, Goto, SeesAll, TypeOK, CallShape, OneAtWork, Working, AtWork
  <2>7. RemovedIsForgotten'
    BY <1>18 DEF Insert, Goto, RemovedIsForgotten, TypeOK, CallShape, RequestShape, There,
       AtWork
  <2>8. OneIngestion'
    <3>1. CASE There(of[k])
      <4>1. of[k] \in Sources
        BY <1>18 DEF Insert, CallShape, AtWork
      <4>2. of[k] \notin crowded => chunks[of[k]] \ sees[k] = {}
        BY <1>18 DEF Insert, SeesAll
      <4>3. chunks' = [chunks EXCEPT ![of[k]] = (@ \ sees[k]) \union {k}] /\ crowded' = crowded
        BY <1>18, <3>1 DEF Insert
      <4>4. ASSUME NEW s \in Sources, s \notin crowded PROVE Cardinality(chunks'[s]) <= 1
        <5>1. CASE s = of[k]
          <6>1. chunks'[s] = {k}
            BY <4>1, <4>2, <4>3, <4>4, <5>1 DEF TypeOK
          <6> QED BY <6>1, Few
        <5>2. CASE s # of[k]
          BY <4>1, <4>3, <4>4, <5>2 DEF TypeOK, OneIngestion
        <5> QED BY <5>1, <5>2
      <4> QED BY <4>3, <4>4 DEF OneIngestion
    <3>2. CASE ~There(of[k])
      BY <1>18, <3>2 DEF Insert, OneIngestion
    <3> QED BY <3>1, <3>2
  <2> QED BY <2>1, <2>2, <2>3, <2>4, <2>5, <2>6, <2>7, <2>8
<1>19. ASSUME NEW k \in Calls, Finalize(k)
      PROVE  IInv'
  <2>1. TypeOK'
    BY <1>19 DEF Finalize, Goto, TypeOK, TriesShape, RequestShape, CallShape, Sources,
       Versions, Status, JobState, Place
  <2>2. TriesShape'
    BY <1>19 DEF Finalize, Goto, TriesShape, TypeOK, Sources
  <2>3. RequestShape'
    BY <1>19 DEF Finalize, Goto, RequestShape, TypeOK, Sources
  <2>4. CallShape'
    BY <1>19 DEF Finalize, Goto, CallShape, TypeOK, AtWork
  <2>5. OneAtWork'
    BY <1>19 DEF Finalize, Goto, OneAtWork, TypeOK, CallShape, Working, AtWork
  <2>6. SeesAll'
    BY <1>19 DEF Finalize, Goto, SeesAll, TypeOK, CallShape, OneAtWork, Working, AtWork
  <2>7. RemovedIsForgotten'
    BY <1>19 DEF Finalize, Goto, RemovedIsForgotten, TypeOK, CallShape, RequestShape, There,
       AtWork
  <2>8. OneIngestion'
    BY <1>19, Few DEF Finalize, Goto, OneIngestion, TypeOK, CallShape, SeesAll, Working, AtWork
  <2> QED BY <2>1, <2>2, <2>3, <2>4, <2>5, <2>6, <2>7, <2>8
<1>20. ASSUME NEW k \in Calls, ServiceDies(k)
      PROVE  IInv'
  <2>1. TypeOK'
    BY <1>20 DEF ServiceDies, Goto, TypeOK, TriesShape, RequestShape, CallShape, Sources,
       Versions, Status, JobState, Place
  <2>2. TriesShape'
    BY <1>20 DEF ServiceDies, Goto, TriesShape, TypeOK, Sources
  <2>3. RequestShape'
    BY <1>20 DEF ServiceDies, Goto, RequestShape, TypeOK, Sources
  <2>4. CallShape'
    BY <1>20 DEF ServiceDies, Goto, CallShape, TypeOK, AtWork
  <2>5. OneAtWork'
    BY <1>20 DEF ServiceDies, Goto, OneAtWork, TypeOK, CallShape, Working, AtWork
  <2>6. SeesAll'
    BY <1>20 DEF ServiceDies, Goto, SeesAll, TypeOK, CallShape, OneAtWork, Working, AtWork
  <2>7. RemovedIsForgotten'
    BY <1>20 DEF ServiceDies, Goto, RemovedIsForgotten, TypeOK, CallShape, RequestShape,
       There, AtWork
  <2>8. OneIngestion'
    BY <1>20, Few DEF ServiceDies, Goto, OneIngestion, TypeOK, CallShape, SeesAll, Working,
       AtWork
  <2> QED BY <2>1, <2>2, <2>3, <2>4, <2>5, <2>6, <2>7, <2>8
<1>21. ASSUME PageChanges
      PROVE  IInv'
  <2>1. TypeOK'
    BY <1>21 DEF PageChanges, TypeOK, TriesShape, RequestShape, CallShape, Sources,
       Versions, Status, JobState, Place
  <2>2. TriesShape'
    BY <1>21 DEF PageChanges, TriesShape, TypeOK, Sources
  <2>3. RequestShape'
    BY <1>21 DEF PageChanges, RequestShape, TypeOK, Sources
  <2>4. CallShape'
    BY <1>21 DEF PageChanges, CallShape, TypeOK, AtWork
  <2>5. OneAtWork'
    BY <1>21 DEF PageChanges, OneAtWork, TypeOK, CallShape, Working, AtWork
  <2>6. SeesAll'
    BY <1>21 DEF PageChanges, SeesAll, TypeOK, CallShape, OneAtWork, Working, AtWork
  <2>7. RemovedIsForgotten'
    BY <1>21 DEF PageChanges, RemovedIsForgotten, TypeOK, CallShape, RequestShape, There,
       AtWork
  <2>8. OneIngestion'
    BY <1>21, Few DEF PageChanges, OneIngestion, TypeOK, CallShape, SeesAll, Working, AtWork
  <2> QED BY <2>1, <2>2, <2>3, <2>4, <2>5, <2>6, <2>7, <2>8
<1>22. CASE UNCHANGED vars
  BY <1>22 DEF vars, TypeOK, TriesShape, RequestShape, CallShape, OneAtWork, SeesAll,
     RemovedIsForgotten,
      OneIngestion, There, Working
<1> QED
  BY <1>1, <1>2, <1>3, <1>4, <1>5, <1>6, <1>7, <1>8, <1>9, <1>10, <1>11, <1>12, <1>13,
     <1>14, <1>15, <1>16, <1>17, <1>18, <1>19, <1>20, <1>21, <1>22 DEF Next, Request, Queue,
     Call

(* The catalog: what holds as long as nothing came between. *)

Changing(r) == Open(r) /\ on[r] \notin Pages

\* How a change of the catalog comes to its source.
ChangeShape ==
  \A r \in Requests :
    /\ rq[r] \in {"idle", "reindex"} => on[r] = None
    /\ rq[r] = "write" => on[r] \in CatalogRows \union {None}

\* Chunks come from calls that are over.
ChunkShape == \A s \in Sources : \A k \in chunks[s] : at[k] = "answered"

\* There is one change at a time, and one source.
OneChange == \A q, r \in Requests : Changing(q) /\ Changing(r) => q = r
OneRow == \A s, d \in CatalogRows : There(s) /\ There(d) => s = d

\* It writes what the catalog is, to the source that it has found.
UpToDate ==
  \A r \in Requests :
    /\ rq[r] = "write" =>
         /\ with[r] = items
         /\ IF on[r] = None THEN \A c \in CatalogRows : ~There(c) ELSE There(on[r])
    /\ rq[r] = "add" /\ on[r] \notin Pages =>
         with[r] = items /\ items \notin Blank /\ There(on[r])

\* The worker waits for the call that is at work.
Awaited ==
  /\ crowded = {}
  /\ \A k \in Calls : at[k] \in AtWork => job[of[k]] = "active" /\ serves[of[k]] = k
  /\ \A s \in Sources : job[s] = "active" => of[serves[s]] = s /\ at[serves[s]] # "idle"

\* How far the source of the catalog has come, once no change is under way.
OnItsWay(s) ==
  /\ job[s] \in {"none", "waiting", "active", "completed"}
  /\ job[s] = "waiting" => data[s] = items
  /\ job[s] = "active" =>
       /\ text[serves[s]] = items
       /\ at[serves[s]] \in {"extract", "delete", "insert", "answered"}
       /\ at[serves[s]] = "answered" => chunks[s] = {serves[s]}
  /\ job[s] \in {"none", "completed"} => \E k \in Calls : chunks[s] = {k} /\ text[k] = items

InSync ==
  (\A r \in Requests : ~Changing(r)) =>
    /\ items \in Blank => \A s \in CatalogRows : ~There(s)
    /\ items \notin Blank => \E s \in CatalogRows : There(s)
    /\ \A s \in CatalogRows : There(s) => OnItsWay(s)

CatalogInv ==
  /\ ChangeShape
  /\ ChunkShape
  /\ ~mishap => OneChange /\ OneRow /\ UpToDate /\ Awaited /\ InSync

\* The same for what holds of the catalog.
LEMMA CatalogStart == Init => CatalogInv
<1> SUFFICES ASSUME Init PROVE CatalogInv
  OBVIOUS
<1> USE KnowledgeAssumption DEF Init
<1>1. ChangeShape /\ ChunkShape
  BY DEF ChangeShape, ChunkShape
<1>2. OneChange /\ OneRow /\ UpToDate /\ Awaited
  BY DEF OneChange, OneRow, UpToDate, Awaited, Changing, Open, There, AtWork, Sources
<1>3. InSync
  BY DEF InSync, There, Sources
<1> QED BY <1>1, <1>2, <1>3 DEF CatalogInv

\* Every step keeps it, for a mishap is never taken back.
LEMMA CatalogStep == IInv /\ CatalogInv /\ [Next]_vars => CatalogInv'
<1> SUFFICES ASSUME IInv, CatalogInv, [Next]_vars PROVE CatalogInv'
  OBVIOUS
<1> USE KnowledgeAssumption DEF IInv, rowVars, jobVars, rqVars, callVars
<1>0. TypeOK /\ RequestShape /\ CallShape /\ SeesAll /\ ChangeShape /\ ChunkShape
  BY DEF CatalogInv
<1>a. ASSUME ~mishap PROVE OneChange /\ OneRow /\ UpToDate /\ Awaited /\ InSync
  BY <1>a DEF CatalogInv
<1>1. ASSUME NEW r \in Requests, NEW s \in Pages, CreateSource(r, s)
      PROVE  CatalogInv'
  <2>1. ChangeShape'
    BY <1>0, <1>1 DEF CreateSource, ChangeShape, TypeOK, Sources, Open
  <2>2. ChunkShape'
    BY <1>0, <1>1 DEF CreateSource, ChunkShape, TypeOK, CallShape, AtWork
  <2>3. ASSUME ~mishap' PROVE OneChange' /\ OneRow' /\ UpToDate' /\ Awaited' /\ InSync'
    <3>1. ~mishap
      BY <1>1, <2>3 DEF CreateSource, TypeOK
    <3>2. OneChange /\ OneRow /\ UpToDate /\ Awaited /\ InSync
      BY <1>a, <3>1
    <3>3. OneChange'
      BY <1>0, <1>1, <2>3, <3>1, <3>2 DEF CreateSource, OneChange, TypeOK, ChangeShape,
         RequestShape, Changing, Open, Sources
    <3>4. OneRow'
      BY <1>0, <1>1, <2>3, <3>1, <3>2 DEF CreateSource, OneRow, TypeOK, UpToDate, CallShape,
         RequestShape, ChangeShape, There, Sources
    <3>5. UpToDate'
      BY <1>0, <1>1, <2>3, <3>1, <3>2 DEF CreateSource, UpToDate, TypeOK, ChangeShape,
         OneChange, OneRow, CallShape, RequestShape, There, Changing, Open, Sources
    <3>6. Awaited'
      BY <1>0, <1>1, <2>3, <3>1, <3>2 DEF CreateSource, Awaited, TypeOK, CallShape,
         RequestShape, AtWork, Working, Sources
    <3>7. InSync'
      BY <1>0, <1>1, <2>3, <3>1, <3>2 DEF CreateSource, InSync, TypeOK, ChangeShape,
         OneChange, OneRow, UpToDate, Awaited, CallShape, RequestShape, ChunkShape,
         OnItsWay, SeesAll, There, Changing, Open, AtWork, Sources
    <3> QED BY <3>3, <3>4, <3>5, <3>6, <3>7
  <2> QED BY <2>1, <2>2, <2>3 DEF CatalogInv
<1>2. ASSUME NEW r \in Requests, NEW s \in Pages, Refresh(r, s)
      PROVE  CatalogInv'
  <2>1. ChangeShape'
    BY <1>0, <1>2 DEF Refresh, There, ChangeShape, TypeOK, Sources, Open
  <2>2. ChunkShape'
    BY <1>0, <1>2 DEF Refresh, There, ChunkShape, TypeOK, CallShape, AtWork
  <2>3. ASSUME ~mishap' PROVE OneChange' /\ OneRow' /\ UpToDate' /\ Awaited' /\ InSync'
    <3>1. ~mishap
      BY <1>2, <2>3 DEF Refresh, There, TypeOK
    <3>2. OneChange /\ OneRow /\ UpToDate /\ Awaited /\ InSync
      BY <1>a, <3>1
    <3>3. OneChange'
      BY <1>0, <1>2, <2>3, <3>1, <3>2 DEF Refresh, There, OneChange, TypeOK, ChangeShape,
         RequestShape, Changing, Open, Sources
    <3>4. OneRow'
      BY <1>0, <1>2, <2>3, <3>1, <3>2 DEF Refresh, There, OneRow, TypeOK, UpToDate,
         CallShape, RequestShape, ChangeShape, Sources
    <3>5. UpToDate'
      BY <1>0, <1>2, <2>3, <3>1, <3>2 DEF Refresh, There, UpToDate, TypeOK, ChangeShape,
         OneChange, OneRow, CallShape, RequestShape, Changing, Open, Sources
    <3>6. Awaited'
      BY <1>0, <1>2, <2>3, <3>1, <3>2 DEF Refresh, There, Awaited, TypeOK, CallShape,
         RequestShape, AtWork, Working, Sources
    <3>7. InSync'
      BY <1>0, <1>2, <2>3, <3>1, <3>2 DEF Refresh, There, InSync, TypeOK, ChangeShape,
         OneChange, OneRow, UpToDate, Awaited, CallShape, RequestShape, ChunkShape,
         OnItsWay, SeesAll, Changing, Open, AtWork, Sources
    <3> QED BY <3>3, <3>4, <3>5, <3>6, <3>7
  <2> QED BY <2>1, <2>2, <2>3 DEF CatalogInv
<1>3. ASSUME NEW r \in Requests, ChangeItems(r)
      PROVE  CatalogInv'
  <2>1. ChangeShape'
    BY <1>0, <1>3 DEF ChangeItems, ChangeShape, TypeOK, Sources, Open
  <2>2. ChunkShape'
    BY <1>0, <1>3 DEF ChangeItems, ChunkShape, TypeOK, CallShape, AtWork
  <2>3. ASSUME ~mishap' PROVE OneChange' /\ OneRow' /\ UpToDate' /\ Awaited' /\ InSync'
    <3>1. ~mishap
      BY <1>3, <2>3 DEF ChangeItems, TypeOK
    <3>2. OneChange /\ OneRow /\ UpToDate /\ Awaited /\ InSync
      BY <1>a, <3>1
    <3>a. \A q \in Requests : ~Changing(q)
      BY <1>3, <2>3 DEF ChangeItems, Changing
    <3>b. \A q \in Requests : Changing(q)' => q = r
      BY <1>3, <3>a DEF ChangeItems, Changing, Open, TypeOK
    <3>3. OneChange'
      BY <3>b DEF OneChange
    <3>4. OneRow'
      BY <1>0, <1>3, <2>3, <3>1, <3>2 DEF ChangeItems, OneRow, TypeOK, UpToDate, CallShape,
         RequestShape, ChangeShape, There, Sources
    <3>5. UpToDate'
      <4>1. \A q \in Requests : rq[q] # "write" /\ (rq[q] = "add" => on[q] \in Pages)
        BY <1>0, <3>a DEF Changing, Open, ChangeShape, Sources
      <4>2. \A q \in Requests : rq'[q] # "write" /\ (rq'[q] = "add" => on'[q] \in Pages)
        BY <1>0, <1>3, <4>1 DEF ChangeItems, TypeOK
      <4> QED BY <4>2 DEF UpToDate
    <3>6. Awaited'
      BY <1>0, <1>3, <2>3, <3>1, <3>2 DEF ChangeItems, Awaited, TypeOK, CallShape,
         RequestShape, AtWork, Working, Sources
    <3>7. InSync'
      BY <1>0, <1>3, <2>3, <3>1, <3>2 DEF ChangeItems, InSync, TypeOK, ChangeShape,
         OneChange, OneRow, UpToDate, Awaited, CallShape, RequestShape, ChunkShape,
         OnItsWay, SeesAll, There, Changing, Open, AtWork, Sources
    <3> QED BY <3>3, <3>4, <3>5, <3>6, <3>7
  <2> QED BY <2>1, <2>2, <2>3 DEF CatalogInv
<1>4. ASSUME NEW r \in Requests, Reindex(r)
      PROVE  CatalogInv'
  <2>1. ChangeShape'
    BY <1>0, <1>4 DEF Reindex, ChangeShape, TypeOK, Sources, Open
  <2>2. ChunkShape'
    BY <1>0, <1>4 DEF Reindex, ChunkShape, TypeOK, CallShape, AtWork
  <2>3. ASSUME ~mishap' PROVE OneChange' /\ OneRow' /\ UpToDate' /\ Awaited' /\ InSync'
    <3>1. ~mishap
      BY <1>4, <2>3 DEF Reindex, TypeOK
    <3>2. OneChange /\ OneRow /\ UpToDate /\ Awaited /\ InSync
      BY <1>a, <3>1
    <3>3. OneChange'
      BY <1>0, <1>4, <2>3, <3>1, <3>2 DEF Reindex, OneChange, TypeOK, ChangeShape,
         RequestShape, Changing, Open, Sources
    <3>4. OneRow'
      BY <1>0, <1>4, <2>3, <3>1, <3>2 DEF Reindex, OneRow, TypeOK, UpToDate, CallShape,
         RequestShape, ChangeShape, There, Sources
    <3>5. UpToDate'
      BY <1>0, <1>4, <2>3, <3>1, <3>2 DEF Reindex, UpToDate, TypeOK, ChangeShape, OneChange,
         OneRow, CallShape, RequestShape, There, Changing, Open, Sources
    <3>6. Awaited'
      BY <1>0, <1>4, <2>3, <3>1, <3>2 DEF Reindex, Awaited, TypeOK, CallShape, RequestShape,
         AtWork, Working, Sources
    <3>7. InSync'
      BY <1>0, <1>4, <2>3, <3>1, <3>2 DEF Reindex, InSync, TypeOK, ChangeShape, OneChange,
         OneRow, UpToDate, Awaited, CallShape, RequestShape, ChunkShape, OnItsWay, SeesAll,
         There, Changing, Open, AtWork, Sources
    <3> QED BY <3>3, <3>4, <3>5, <3>6, <3>7
  <2> QED BY <2>1, <2>2, <2>3 DEF CatalogInv
<1>5. ASSUME NEW r \in Requests, DeleteCatalog(r)
      PROVE  CatalogInv'
  <2>1. ChangeShape'
    BY <1>0, <1>5 DEF DeleteCatalog, Drop, ChangeShape, TypeOK, Sources, Open
  <2>2. ChunkShape'
    BY <1>0, <1>5 DEF DeleteCatalog, Drop, ChunkShape, TypeOK, CallShape, AtWork
  <2>3. ASSUME ~mishap' PROVE OneChange' /\ OneRow' /\ UpToDate' /\ Awaited' /\ InSync'
    <3>1. ~mishap
      BY <1>5, <2>3 DEF DeleteCatalog, Drop, TypeOK
    <3>2. OneChange /\ OneRow /\ UpToDate /\ Awaited /\ InSync
      BY <1>a, <3>1
    <3>3. OneChange'
      BY <1>0, <1>5, <2>3, <3>1, <3>2 DEF DeleteCatalog, Drop, OneChange, TypeOK,
         ChangeShape, RequestShape, Changing, Open, Sources
    <3>4. OneRow'
      BY <1>0, <1>5, <2>3, <3>1, <3>2 DEF DeleteCatalog, Drop, OneRow, TypeOK, UpToDate,
         CallShape, RequestShape, ChangeShape, There, Sources
    <3>5. UpToDate'
      BY <1>0, <1>5, <2>3, <3>1, <3>2 DEF DeleteCatalog, Drop, UpToDate, TypeOK,
         ChangeShape, OneChange, OneRow, CallShape, RequestShape, There, Changing, Open,
         Sources
    <3>6. Awaited'
      BY <1>0, <1>5, <2>3, <3>1, <3>2 DEF DeleteCatalog, Drop, Awaited, TypeOK, CallShape,
         RequestShape, AtWork, Working, Sources
    <3>7. InSync'
      BY <1>0, <1>5, <2>3, <3>1, <3>2 DEF DeleteCatalog, Drop, InSync, TypeOK, ChangeShape,
         OneChange, OneRow, UpToDate, Awaited, CallShape, RequestShape, ChunkShape,
         OnItsWay, SeesAll, There, Changing, Open, AtWork, Sources
    <3> QED BY <3>3, <3>4, <3>5, <3>6, <3>7
  <2> QED BY <2>1, <2>2, <2>3 DEF CatalogInv
<1>6. ASSUME NEW r \in Requests, WriteCatalog(r)
      PROVE  CatalogInv'
  <2>1. ChangeShape'
    BY <1>0, <1>6 DEF WriteCatalog, ChangeShape, TypeOK, Sources, Open
  <2>2. ChunkShape'
    BY <1>0, <1>6 DEF WriteCatalog, ChunkShape, TypeOK, CallShape, AtWork
  <2>3. ASSUME ~mishap' PROVE OneChange' /\ OneRow' /\ UpToDate' /\ Awaited' /\ InSync'
    <3>1. ~mishap
      BY <1>6, <2>3 DEF WriteCatalog, TypeOK
    <3>2. OneChange /\ OneRow /\ UpToDate /\ Awaited /\ InSync
      BY <1>a, <3>1
    <3>3. OneChange'
      BY <1>0, <1>6, <2>3, <3>1, <3>2 DEF WriteCatalog, OneChange, TypeOK, ChangeShape,
         RequestShape, Changing, Open, Sources
    <3>4. OneRow'
      BY <1>0, <1>6, <2>3, <3>1, <3>2 DEF WriteCatalog, OneRow, TypeOK, UpToDate, CallShape,
         RequestShape, ChangeShape, There, Sources
    <3>5. UpToDate'
      BY <1>0, <1>6, <2>3, <3>1, <3>2 DEF WriteCatalog, UpToDate, TypeOK, ChangeShape,
         OneChange, OneRow, CallShape, RequestShape, There, Changing, Open, Sources
    <3>6. Awaited'
      BY <1>0, <1>6, <2>3, <3>1, <3>2 DEF WriteCatalog, Awaited, TypeOK, CallShape,
         RequestShape, AtWork, Working, Sources
    <3>7. InSync'
      BY <1>0, <1>6, <2>3, <3>1, <3>2 DEF WriteCatalog, InSync, TypeOK, ChangeShape,
         OneChange, OneRow, UpToDate, Awaited, CallShape, RequestShape, ChunkShape,
         OnItsWay, SeesAll, There, Changing, Open, AtWork, Sources
    <3> QED BY <3>3, <3>4, <3>5, <3>6, <3>7
  <2> QED BY <2>1, <2>2, <2>3 DEF CatalogInv
<1>7. ASSUME NEW r \in Requests, Add(r)
      PROVE  CatalogInv'
  <2>1. ChangeShape'
    BY <1>0, <1>7 DEF Add, ChangeShape, TypeOK, Sources, Open
  <2>2. ChunkShape'
    BY <1>0, <1>7 DEF Add, ChunkShape, TypeOK, CallShape, AtWork
  <2>3. ASSUME ~mishap' PROVE OneChange' /\ OneRow' /\ UpToDate' /\ Awaited' /\ InSync'
    <3>1. ~mishap
      BY <1>7, <2>3 DEF Add, TypeOK
    <3>2. OneChange /\ OneRow /\ UpToDate /\ Awaited /\ InSync
      BY <1>a, <3>1
    <3>3. OneChange'
      BY <1>0, <1>7, <2>3, <3>1, <3>2 DEF Add, OneChange, TypeOK, ChangeShape, RequestShape,
         Changing, Open, Sources
    <3>4. OneRow'
      BY <1>0, <1>7, <2>3, <3>1, <3>2 DEF Add, OneRow, TypeOK, UpToDate, CallShape,
         RequestShape, ChangeShape, There, Sources
    <3>5. UpToDate'
      BY <1>0, <1>7, <2>3, <3>1, <3>2 DEF Add, UpToDate, TypeOK, ChangeShape, OneChange,
         OneRow, CallShape, RequestShape, There, Changing, Open, Sources
    <3>6. Awaited'
      BY <1>0, <1>7, <2>3, <3>1, <3>2 DEF Add, Awaited, TypeOK, CallShape, RequestShape,
         AtWork, Working, Sources
    <3>7. InSync'
      BY <1>0, <1>7, <2>3, <3>1, <3>2 DEF Add, InSync, TypeOK, ChangeShape, OneChange,
         OneRow, UpToDate, Awaited, CallShape, RequestShape, ChunkShape, OnItsWay, SeesAll,
         There, Changing, Open, AtWork, Sources
    <3> QED BY <3>3, <3>4, <3>5, <3>6, <3>7
  <2> QED BY <2>1, <2>2, <2>3 DEF CatalogInv
<1>8. ASSUME NEW r \in Requests, Abandon(r)
      PROVE  CatalogInv'
  <2>1. ChangeShape'
    BY <1>0, <1>8 DEF Abandon, Open, ChangeShape, TypeOK, Sources
  <2>2. ChunkShape'
    BY <1>0, <1>8 DEF Abandon, Open, ChunkShape, TypeOK, CallShape, AtWork
  <2>3. mishap'
    BY <1>8 DEF Abandon
  <2> QED BY <2>1, <2>2, <2>3 DEF CatalogInv
<1>9. ASSUME NEW s \in Sources, NEW k \in Calls, StartJob(s, k)
      PROVE  CatalogInv'
  <2>1. ChangeShape'
    BY <1>0, <1>9 DEF StartJob, ChangeShape, TypeOK, Sources, Open
  <2>2. ChunkShape'
    BY <1>0, <1>9 DEF StartJob, ChunkShape, TypeOK, CallShape, AtWork
  <2>3. ASSUME ~mishap' PROVE OneChange' /\ OneRow' /\ UpToDate' /\ Awaited' /\ InSync'
    <3>1. ~mishap
      BY <1>9, <2>3 DEF StartJob, TypeOK
    <3>2. OneChange /\ OneRow /\ UpToDate /\ Awaited /\ InSync
      BY <1>a, <3>1
    <3>3. OneChange'
      BY <1>0, <1>9, <2>3, <3>1, <3>2 DEF StartJob, OneChange, TypeOK, ChangeShape,
         RequestShape, Changing, Open, Sources
    <3>4. OneRow'
      BY <1>0, <1>9, <2>3, <3>1, <3>2 DEF StartJob, OneRow, TypeOK, UpToDate, CallShape,
         RequestShape, ChangeShape, There, Sources
    <3>5. UpToDate'
      BY <1>0, <1>9, <2>3, <3>1, <3>2 DEF StartJob, UpToDate, TypeOK, ChangeShape,
         OneChange, OneRow, CallShape, RequestShape, There, Changing, Open, Sources
    <3>a. Working(s) = {}
      BY <1>9, <3>2 DEF StartJob, Awaited, Working
    <3>b. crowded' = {}
      BY <1>9, <3>2, <3>a DEF StartJob, Awaited
    <3>c. \A l \in Calls : at[l] \in AtWork => of[l] # s
      BY <3>a DEF Working
    <3>d. at[k] = "idle" /\ job[s] = "waiting"
      BY <1>9 DEF StartJob
    <3>e. /\ at' = [at EXCEPT ![k] = "extract"] /\ of' = [of EXCEPT ![k] = s]
          /\ job' = [job EXCEPT ![s] = "active"] /\ serves' = [serves EXCEPT ![s] = k]
      BY <1>9 DEF StartJob
    <3>f. ASSUME NEW l \in Calls, at'[l] \in AtWork
          PROVE  job'[of'[l]] = "active" /\ serves'[of'[l]] = l
      <4>1. CASE l = k
        BY <1>0, <3>e, <4>1 DEF TypeOK
      <4>2. CASE l # k
        BY <1>0, <3>2, <3>c, <3>e, <3>f, <4>2 DEF TypeOK, Awaited, CallShape
      <4> QED BY <4>1, <4>2
    <3>g. ASSUME NEW d \in Sources, job'[d] = "active"
          PROVE  of'[serves'[d]] = d /\ at'[serves'[d]] # "idle"
      <4>1. CASE d = s
        BY <1>0, <3>e, <4>1 DEF TypeOK
      <4>2. CASE d # s
        <5>1. job[d] = "active" /\ serves'[d] = serves[d] /\ serves[d] \in Calls
          BY <1>0, <3>e, <3>g, <4>2 DEF TypeOK
        <5>2. serves[d] # k
          BY <3>2, <3>d, <5>1 DEF Awaited
        <5> QED BY <1>0, <3>2, <3>e, <5>1, <5>2 DEF TypeOK, Awaited
      <4> QED BY <4>1, <4>2
    <3>6. Awaited'
      BY <3>b, <3>f, <3>g DEF Awaited, AtWork
    <3>7. InSync'
      BY <1>0, <1>9, <2>3, <3>1, <3>2 DEF StartJob, InSync, TypeOK, ChangeShape, OneChange,
         OneRow, UpToDate, Awaited, CallShape, RequestShape, ChunkShape, OnItsWay, SeesAll,
         There, Changing, Open, AtWork, Sources
    <3> QED BY <3>3, <3>4, <3>5, <3>6, <3>7
  <2> QED BY <2>1, <2>2, <2>3 DEF CatalogInv
<1>10. ASSUME NEW s \in Sources, AckJob(s)
      PROVE  CatalogInv'
  <2>1. ChangeShape'
    BY <1>0, <1>10 DEF AckJob, ChangeShape, TypeOK, Sources, Open
  <2>2. ChunkShape'
    BY <1>0, <1>10 DEF AckJob, ChunkShape, TypeOK, CallShape, AtWork
  <2>3. ASSUME ~mishap' PROVE OneChange' /\ OneRow' /\ UpToDate' /\ Awaited' /\ InSync'
    <3>1. ~mishap
      BY <1>10, <2>3 DEF AckJob, TypeOK
    <3>2. OneChange /\ OneRow /\ UpToDate /\ Awaited /\ InSync
      BY <1>a, <3>1
    <3>3. OneChange'
      BY <1>0, <1>10, <2>3, <3>1, <3>2 DEF AckJob, OneChange, TypeOK, ChangeShape,
         RequestShape, Changing, Open, Sources
    <3>4. OneRow'
      BY <1>0, <1>10, <2>3, <3>1, <3>2 DEF AckJob, OneRow, TypeOK, UpToDate, CallShape,
         RequestShape, ChangeShape, There, Sources
    <3>5. UpToDate'
      BY <1>0, <1>10, <2>3, <3>1, <3>2 DEF AckJob, UpToDate, TypeOK, ChangeShape, OneChange,
         OneRow, CallShape, RequestShape, There, Changing, Open, Sources
    <3>6. Awaited'
      BY <1>0, <1>10, <2>3, <3>1, <3>2 DEF AckJob, Awaited, TypeOK, CallShape, RequestShape,
         AtWork, Working, Sources
    <3>7. InSync'
      BY <1>0, <1>10, <2>3, <3>1, <3>2 DEF AckJob, InSync, TypeOK, ChangeShape, OneChange,
         OneRow, UpToDate, Awaited, CallShape, RequestShape, ChunkShape, OnItsWay, SeesAll,
         There, Changing, Open, AtWork, Sources
    <3> QED BY <3>3, <3>4, <3>5, <3>6, <3>7
  <2> QED BY <2>1, <2>2, <2>3 DEF CatalogInv
<1>11. ASSUME NEW s \in Sources, NoAnswer(s)
      PROVE  CatalogInv'
  <2>1. ChangeShape'
    BY <1>0, <1>11 DEF NoAnswer, ChangeShape, TypeOK, Sources, Open
  <2>2. ChunkShape'
    BY <1>0, <1>11 DEF NoAnswer, ChunkShape, TypeOK, CallShape, AtWork
  <2>3. mishap'
    BY <1>11 DEF NoAnswer
  <2> QED BY <2>1, <2>2, <2>3 DEF CatalogInv
<1>12. ASSUME NEW s \in Sources, WorkerDies(s)
      PROVE  CatalogInv'
  <2>1. ChangeShape'
    BY <1>0, <1>12 DEF WorkerDies, ChangeShape, TypeOK, Sources, Open
  <2>2. ChunkShape'
    BY <1>0, <1>12 DEF WorkerDies, ChunkShape, TypeOK, CallShape, AtWork
  <2>3. mishap'
    BY <1>12 DEF WorkerDies
  <2> QED BY <2>1, <2>2, <2>3 DEF CatalogInv
<1>13. ASSUME NEW s \in Sources, ForgetJob(s)
      PROVE  CatalogInv'
  <2>1. ChangeShape'
    BY <1>0, <1>13 DEF ForgetJob, ChangeShape, TypeOK, Sources, Open
  <2>2. ChunkShape'
    BY <1>0, <1>13 DEF ForgetJob, ChunkShape, TypeOK, CallShape, AtWork
  <2>3. ASSUME ~mishap' PROVE OneChange' /\ OneRow' /\ UpToDate' /\ Awaited' /\ InSync'
    <3>1. ~mishap
      BY <1>13, <2>3 DEF ForgetJob, TypeOK
    <3>2. OneChange /\ OneRow /\ UpToDate /\ Awaited /\ InSync
      BY <1>a, <3>1
    <3>3. OneChange'
      BY <1>0, <1>13, <2>3, <3>1, <3>2 DEF ForgetJob, OneChange, TypeOK, ChangeShape,
         RequestShape, Changing, Open, Sources
    <3>4. OneRow'
      BY <1>0, <1>13, <2>3, <3>1, <3>2 DEF ForgetJob, OneRow, TypeOK, UpToDate, CallShape,
         RequestShape, ChangeShape, There, Sources
    <3>5. UpToDate'
      BY <1>0, <1>13, <2>3, <3>1, <3>2 DEF ForgetJob, UpToDate, TypeOK, ChangeShape,
         OneChange, OneRow, CallShape, RequestShape, There, Changing, Open, Sources
    <3>6. Awaited'
      BY <1>0, <1>13, <2>3, <3>1, <3>2 DEF ForgetJob, Awaited, TypeOK, CallShape,
         RequestShape, AtWork, Working, Sources
    <3>7. InSync'
      BY <1>0, <1>13, <2>3, <3>1, <3>2 DEF ForgetJob, InSync, TypeOK, ChangeShape,
         OneChange, OneRow, UpToDate, Awaited, CallShape, RequestShape, ChunkShape,
         OnItsWay, SeesAll, There, Changing, Open, AtWork, Sources
    <3> QED BY <3>3, <3>4, <3>5, <3>6, <3>7
  <2> QED BY <2>1, <2>2, <2>3 DEF CatalogInv
<1>14. ASSUME NEW s \in Sources, RemoveSource(s)
      PROVE  CatalogInv'
  <2>1. ChangeShape'
    BY <1>0, <1>14 DEF RemoveSource, Drop, ChangeShape, TypeOK, Sources, Open
  <2>2. ChunkShape'
    BY <1>0, <1>14 DEF RemoveSource, Drop, ChunkShape, TypeOK, CallShape, AtWork
  <2>3. ASSUME ~mishap' PROVE OneChange' /\ OneRow' /\ UpToDate' /\ Awaited' /\ InSync'
    <3>1. ~mishap
      BY <1>14, <2>3 DEF RemoveSource, Drop, TypeOK
    <3>2. OneChange /\ OneRow /\ UpToDate /\ Awaited /\ InSync
      BY <1>a, <3>1
    <3>3. OneChange'
      BY <1>0, <1>14, <2>3, <3>1, <3>2 DEF RemoveSource, Drop, OneChange, TypeOK,
         ChangeShape, RequestShape, Changing, Open, Sources
    <3>4. OneRow'
      BY <1>0, <1>14, <2>3, <3>1, <3>2 DEF RemoveSource, Drop, OneRow, TypeOK, UpToDate,
         CallShape, RequestShape, ChangeShape, There, Sources
    <3>5. UpToDate'
      BY <1>0, <1>14, <2>3, <3>1, <3>2 DEF RemoveSource, Drop, UpToDate, TypeOK,
         ChangeShape, OneChange, OneRow, CallShape, RequestShape, There, Changing, Open,
         Sources
    <3>6. Awaited'
      BY <1>0, <1>14, <2>3, <3>1, <3>2 DEF RemoveSource, Drop, Awaited, TypeOK, CallShape,
         RequestShape, AtWork, Working, Sources
    <3>a. s \notin CatalogRows
      BY <1>14, <2>3 DEF RemoveSource
    <3>b. \A d \in CatalogRows : chunks'[d] = chunks[d] /\ status'[d] = status[d]
      BY <1>0, <1>14, <3>a DEF RemoveSource, Drop, TypeOK, Sources
    <3>7. InSync'
      BY <1>14, <3>2, <3>b DEF RemoveSource, InSync, OnItsWay, There, Changing, Open
    <3> QED BY <3>3, <3>4, <3>5, <3>6, <3>7
  <2> QED BY <2>1, <2>2, <2>3 DEF CatalogInv
<1>15. ASSUME NEW k \in Calls, Extract(k)
      PROVE  CatalogInv'
  <2>1. ChangeShape'
    BY <1>0, <1>15 DEF Extract, Goto, ChangeShape, TypeOK, Sources, Open
  <2>2. ChunkShape'
    BY <1>0, <1>15 DEF Extract, Goto, ChunkShape, TypeOK, CallShape, AtWork
  <2>3. ASSUME ~mishap' PROVE OneChange' /\ OneRow' /\ UpToDate' /\ Awaited' /\ InSync'
    <3>1. ~mishap
      BY <1>15, <2>3 DEF Extract, Goto, TypeOK
    <3>2. OneChange /\ OneRow /\ UpToDate /\ Awaited /\ InSync
      BY <1>a, <3>1
    <3>3. OneChange'
      BY <1>0, <1>15, <2>3, <3>1, <3>2 DEF Extract, Goto, OneChange, TypeOK, ChangeShape,
         RequestShape, Changing, Open, Sources
    <3>4. OneRow'
      BY <1>0, <1>15, <2>3, <3>1, <3>2 DEF Extract, Goto, OneRow, TypeOK, UpToDate,
         CallShape, RequestShape, ChangeShape, There, Sources
    <3>5. UpToDate'
      BY <1>0, <1>15, <2>3, <3>1, <3>2 DEF Extract, Goto, UpToDate, TypeOK, ChangeShape,
         OneChange, OneRow, CallShape, RequestShape, There, Changing, Open, Sources
    <3>6. Awaited'
      BY <1>0, <1>15, <2>3, <3>1, <3>2 DEF Extract, Goto, Awaited, TypeOK, CallShape,
         RequestShape, AtWork, Working, Sources
    <3>7. InSync'
      BY <1>0, <1>15, <2>3, <3>1, <3>2 DEF Extract, Goto, InSync, TypeOK, ChangeShape,
         OneChange, OneRow, UpToDate, Awaited, CallShape, RequestShape, ChunkShape,
         OnItsWay, SeesAll, There, Changing, Open, AtWork, Sources
    <3> QED BY <3>3, <3>4, <3>5, <3>6, <3>7
  <2> QED BY <2>1, <2>2, <2>3 DEF CatalogInv
<1>16. ASSUME NEW k \in Calls, Raise(k)
      PROVE  CatalogInv'
  <2>1. ChangeShape'
    BY <1>0, <1>16 DEF Raise, Goto, ChangeShape, TypeOK, Sources, Open
  <2>2. ChunkShape'
    BY <1>0, <1>16 DEF Raise, Goto, ChunkShape, TypeOK, CallShape, AtWork
  <2>3. mishap'
    BY <1>16 DEF Raise
  <2> QED BY <2>1, <2>2, <2>3 DEF CatalogInv
<1>17. ASSUME NEW k \in Calls, Delete(k)
      PROVE  CatalogInv'
  <2>1. ChangeShape'
    BY <1>0, <1>17 DEF Delete, Goto, ChangeShape, TypeOK, Sources, Open
  <2>2. ChunkShape'
    BY <1>0, <1>17 DEF Delete, Goto, ChunkShape, TypeOK, CallShape, AtWork
  <2>3. ASSUME ~mishap' PROVE OneChange' /\ OneRow' /\ UpToDate' /\ Awaited' /\ InSync'
    <3>1. ~mishap
      BY <1>17, <2>3 DEF Delete, Goto, TypeOK
    <3>2. OneChange /\ OneRow /\ UpToDate /\ Awaited /\ InSync
      BY <1>a, <3>1
    <3>3. OneChange'
      BY <1>0, <1>17, <2>3, <3>1, <3>2 DEF Delete, Goto, OneChange, TypeOK, ChangeShape,
         RequestShape, Changing, Open, Sources
    <3>4. OneRow'
      BY <1>0, <1>17, <2>3, <3>1, <3>2 DEF Delete, Goto, OneRow, TypeOK, UpToDate,
         CallShape, RequestShape, ChangeShape, There, Sources
    <3>5. UpToDate'
      BY <1>0, <1>17, <2>3, <3>1, <3>2 DEF Delete, Goto, UpToDate, TypeOK, ChangeShape,
         OneChange, OneRow, CallShape, RequestShape, There, Changing, Open, Sources
    <3>6. Awaited'
      BY <1>0, <1>17, <2>3, <3>1, <3>2 DEF Delete, Goto, Awaited, TypeOK, CallShape,
         RequestShape, AtWork, Working, Sources
    <3>7. InSync'
      BY <1>0, <1>17, <2>3, <3>1, <3>2 DEF Delete, Goto, InSync, TypeOK, ChangeShape,
         OneChange, OneRow, UpToDate, Awaited, CallShape, RequestShape, ChunkShape,
         OnItsWay, SeesAll, There, Changing, Open, AtWork, Sources
    <3> QED BY <3>3, <3>4, <3>5, <3>6, <3>7
  <2> QED BY <2>1, <2>2, <2>3 DEF CatalogInv
<1>18. ASSUME NEW k \in Calls, Insert(k)
      PROVE  CatalogInv'
  <2>1. ChangeShape'
    BY <1>0, <1>18 DEF Insert, Goto, ChangeShape, TypeOK, Sources, Open
  <2>2. ChunkShape'
    BY <1>0, <1>18 DEF Insert, Goto, ChunkShape, TypeOK, CallShape, AtWork
  <2>3. ASSUME ~mishap' PROVE OneChange' /\ OneRow' /\ UpToDate' /\ Awaited' /\ InSync'
    <3>1. ~mishap
      BY <1>18, <2>3 DEF Insert, Goto, TypeOK
    <3>2. OneChange /\ OneRow /\ UpToDate /\ Awaited /\ InSync
      BY <1>a, <3>1
    <3>3. OneChange'
      BY <1>0, <1>18, <2>3, <3>1, <3>2 DEF Insert, Goto, OneChange, TypeOK, ChangeShape,
         RequestShape, Changing, Open, Sources
    <3>4. OneRow'
      BY <1>0, <1>18, <2>3, <3>1, <3>2 DEF Insert, Goto, OneRow, TypeOK, UpToDate,
         CallShape, RequestShape, ChangeShape, There, Sources
    <3>5. UpToDate'
      BY <1>0, <1>18, <2>3, <3>1, <3>2 DEF Insert, Goto, UpToDate, TypeOK, ChangeShape,
         OneChange, OneRow, CallShape, RequestShape, There, Changing, Open, Sources
    <3>6. Awaited'
      BY <1>0, <1>18, <2>3, <3>1, <3>2 DEF Insert, Goto, Awaited, TypeOK, CallShape,
         RequestShape, AtWork, Working, Sources
    <3>7. InSync'
      BY <1>0, <1>18, <2>3, <3>1, <3>2 DEF Insert, Goto, InSync, TypeOK, ChangeShape,
         OneChange, OneRow, UpToDate, Awaited, CallShape, RequestShape, ChunkShape,
         OnItsWay, SeesAll, There, Changing, Open, AtWork, Sources
    <3> QED BY <3>3, <3>4, <3>5, <3>6, <3>7
  <2> QED BY <2>1, <2>2, <2>3 DEF CatalogInv
<1>19. ASSUME NEW k \in Calls, Finalize(k)
      PROVE  CatalogInv'
  <2>1. ChangeShape'
    BY <1>0, <1>19 DEF Finalize, Goto, ChangeShape, TypeOK, Sources, Open
  <2>2. ChunkShape'
    BY <1>0, <1>19 DEF Finalize, Goto, ChunkShape, TypeOK, CallShape, AtWork
  <2>3. ASSUME ~mishap' PROVE OneChange' /\ OneRow' /\ UpToDate' /\ Awaited' /\ InSync'
    <3>1. ~mishap
      BY <1>19, <2>3 DEF Finalize, Goto, TypeOK
    <3>2. OneChange /\ OneRow /\ UpToDate /\ Awaited /\ InSync
      BY <1>a, <3>1
    <3>3. OneChange'
      BY <1>0, <1>19, <2>3, <3>1, <3>2 DEF Finalize, Goto, OneChange, TypeOK, ChangeShape,
         RequestShape, Changing, Open, Sources
    <3>4. OneRow'
      BY <1>0, <1>19, <2>3, <3>1, <3>2 DEF Finalize, Goto, OneRow, TypeOK, UpToDate,
         CallShape, RequestShape, ChangeShape, There, Sources
    <3>5. UpToDate'
      BY <1>0, <1>19, <2>3, <3>1, <3>2 DEF Finalize, Goto, UpToDate, TypeOK, ChangeShape,
         OneChange, OneRow, CallShape, RequestShape, There, Changing, Open, Sources
    <3>6. Awaited'
      BY <1>0, <1>19, <2>3, <3>1, <3>2 DEF Finalize, Goto, Awaited, TypeOK, CallShape,
         RequestShape, AtWork, Working, Sources
    <3>7. InSync'
      BY <1>0, <1>19, <2>3, <3>1, <3>2 DEF Finalize, Goto, InSync, TypeOK, ChangeShape,
         OneChange, OneRow, UpToDate, Awaited, CallShape, RequestShape, ChunkShape,
         OnItsWay, SeesAll, There, Changing, Open, AtWork, Sources
    <3> QED BY <3>3, <3>4, <3>5, <3>6, <3>7
  <2> QED BY <2>1, <2>2, <2>3 DEF CatalogInv
<1>20. ASSUME NEW k \in Calls, ServiceDies(k)
      PROVE  CatalogInv'
  <2>1. ChangeShape'
    BY <1>0, <1>20 DEF ServiceDies, Goto, ChangeShape, TypeOK, Sources, Open
  <2>2. ChunkShape'
    BY <1>0, <1>20 DEF ServiceDies, Goto, ChunkShape, TypeOK, CallShape, AtWork
  <2>3. mishap'
    BY <1>20 DEF ServiceDies
  <2> QED BY <2>1, <2>2, <2>3 DEF CatalogInv
<1>21. ASSUME PageChanges
      PROVE  CatalogInv'
  <2>1. ChangeShape'
    BY <1>0, <1>21 DEF PageChanges, ChangeShape, TypeOK, Sources, Open
  <2>2. ChunkShape'
    BY <1>0, <1>21 DEF PageChanges, ChunkShape, TypeOK, CallShape, AtWork
  <2>3. ASSUME ~mishap' PROVE OneChange' /\ OneRow' /\ UpToDate' /\ Awaited' /\ InSync'
    <3>1. ~mishap
      BY <1>21, <2>3 DEF PageChanges, TypeOK
    <3>2. OneChange /\ OneRow /\ UpToDate /\ Awaited /\ InSync
      BY <1>a, <3>1
    <3>3. OneChange'
      BY <1>0, <1>21, <2>3, <3>1, <3>2 DEF PageChanges, OneChange, TypeOK, ChangeShape,
         RequestShape, Changing, Open, Sources
    <3>4. OneRow'
      BY <1>0, <1>21, <2>3, <3>1, <3>2 DEF PageChanges, OneRow, TypeOK, UpToDate, CallShape,
         RequestShape, ChangeShape, There, Sources
    <3>5. UpToDate'
      BY <1>0, <1>21, <2>3, <3>1, <3>2 DEF PageChanges, UpToDate, TypeOK, ChangeShape,
         OneChange, OneRow, CallShape, RequestShape, There, Changing, Open, Sources
    <3>6. Awaited'
      BY <1>0, <1>21, <2>3, <3>1, <3>2 DEF PageChanges, Awaited, TypeOK, CallShape,
         RequestShape, AtWork, Working, Sources
    <3>7. InSync'
      BY <1>0, <1>21, <2>3, <3>1, <3>2 DEF PageChanges, InSync, TypeOK, ChangeShape,
         OneChange, OneRow, UpToDate, Awaited, CallShape, RequestShape, ChunkShape,
         OnItsWay, SeesAll, There, Changing, Open, AtWork, Sources
    <3> QED BY <3>3, <3>4, <3>5, <3>6, <3>7
  <2> QED BY <2>1, <2>2, <2>3 DEF CatalogInv
<1>22. CASE UNCHANGED vars
  <2>1. ChangeShape' /\ ChunkShape'
    BY <1>0, <1>22 DEF vars, ChangeShape, ChunkShape
  <2>2. ASSUME ~mishap' PROVE OneChange' /\ OneRow' /\ UpToDate' /\ Awaited' /\ InSync'
    BY <1>a, <1>22, <2>2 DEF vars, OneChange, OneRow, UpToDate, Awaited, InSync, OnItsWay,
       Changing, Open, There
  <2> QED BY <2>1, <2>2 DEF CatalogInv
<1> QED
  BY <1>1, <1>2, <1>3, <1>4, <1>5, <1>6, <1>7, <1>8, <1>9, <1>10, <1>11, <1>12, <1>13,
     <1>14, <1>15, <1>16, <1>17, <1>18, <1>19, <1>20, <1>21, <1>22 DEF Next, Request, Queue,
     Call

\* The invariant holds in every state.
THEOREM Invariance == Spec => []IInv
<1>1. Init => IInv
  BY Start
<1>2. IInv /\ [Next]_vars => IInv'
  BY Inductive
<1> QED BY <1>1, <1>2, PTL DEF Spec

\* Type correctness: attempts and stalls keep to the queue's limits.
THEOREM TypeCorrect == Spec => []TypeOK
<1>1. IInv => TypeOK
  BY DEF IInv
<1> QED BY <1>1, Invariance, PTL

\* Without overlapping calls the chunks of a source come from one ingestion,
\* whatever fails, is repeated or dies: ingest, _finalize and process.
THEOREM IngestionTheorem == Spec => []OneIngestion
<1>1. IInv => OneIngestion
  BY DEF IInv
<1> QED BY <1>1, Invariance, PTL

\* No chunks of a source without a row: remove, reindexCatalog and ingest.
THEOREM ForgottenTheorem == Spec => []RemovedIsForgotten
<1>1. IInv => RemovedIsForgotten
  BY DEF IInv
<1> QED BY <1>1, Invariance, PTL

\* When all is done the AI knows the catalog as it is, but for the mishaps named
\* in CatalogIsKnown: reindexCatalog, enqueue, process and ingest together.
THEOREM CatalogTheorem == Spec => []CatalogIsKnown
<1>1. Init => IInv /\ CatalogInv
  BY Start, CatalogStart
<1>2. IInv /\ CatalogInv /\ [Next]_vars => IInv' /\ CatalogInv'
  BY Inductive, CatalogStep
<1>3. IInv /\ CatalogInv => CatalogIsKnown
  <2> SUFFICES ASSUME IInv, CatalogInv, Quiet, ~mishap PROVE KnownCatalog = {items} \ Blank
    BY DEF CatalogIsKnown
  <2> USE KnowledgeAssumption
  <2>1. InSync /\ OneRow /\ RemovedIsForgotten /\ TypeOK
    BY DEF CatalogInv, IInv
  <2>2. \A r \in Requests : ~Changing(r)
    BY DEF Quiet, Changing
  <2>3. CASE items \in Blank
    <3>1. \A s \in CatalogRows : chunks[s] = {}
      BY <2>1, <2>2, <2>3 DEF InSync, RemovedIsForgotten, Sources
    <3> QED BY <2>3, <3>1 DEF KnownCatalog
  <2>4. CASE items \notin Blank
    <3>1. PICK s \in CatalogRows : There(s) /\ OnItsWay(s)
      BY <2>1, <2>2, <2>4 DEF InSync
    <3>2. PICK k \in Calls : chunks[s] = {k} /\ text[k] = items
      BY <3>1 DEF OnItsWay, Quiet, Sources
    <3>3. \A d \in CatalogRows : d # s => chunks[d] = {}
      BY <2>1, <3>1 DEF OneRow, RemovedIsForgotten, Sources
    <3> QED BY <2>4, <3>1, <3>2, <3>3 DEF KnownCatalog
  <2> QED BY <2>3, <2>4
<1> QED BY <1>1, <1>2, <1>3, PTL DEF Spec

=============================================================================
