------------------------------ MODULE Knowledge ------------------------------
(***************************************************************************)
(* The knowledge base: sources that are read, cut into chunks and embedded *)
(* for the AI, and the source that is made of the catalog.                 *)
(*                                                                         *)
(* KnowledgeService writes the row of a source and adds a job of the queue *)
(* `ingest` whose id is that of the source; BullMQ ignores the add while a *)
(* job of that id is still known, and completed jobs are known for a day,  *)
(* failed ones for ever.  IngestProcessor calls the AI service, which      *)
(* extracts the text, embeds it, replaces the chunks in one transaction    *)
(* and writes the outcome into the row itself.  A call that the worker has *)
(* given up on - after two minutes, say - still goes on in the AI service, *)
(* and the next attempt is another one.                                    *)
(*                                                                         *)
(* A text is the version of the page or of the catalog it was taken from.  *)
(***************************************************************************)
EXTENDS Naturals, FiniteSets

CONSTANTS
  Pages,        (* sources of type url                                     *)
  CatalogRows,  (* the rows that reindexCatalog may create                 *)
  Requests,     (* HTTP requests; each runs once                           *)
  Calls,        (* calls of the AI service; each runs once                 *)
  MaxVersion,   (* bound on the contents of page and catalog, by number    *)
  MaxPage,      (* bound on how often the page changes                     *)
  Blank,        (* the versions without text, or without active products   *)
  MaxAttempts,  (* attempts of a job of the queue                          *)
  MaxStalls,    (* maxStalledCount of the worker                           *)
  Faults,       (* whether anything may fail                               *)
  None

Sources == Pages \union CatalogRows
Versions == 0..MaxVersion

ASSUME KnowledgeAssumption ==
  /\ Pages \intersect CatalogRows = {}
  /\ MaxVersion \in Nat /\ MaxPage \in Versions /\ Blank \subseteq Versions /\ 0 \in Blank
  /\ MaxAttempts \in Nat \ {0} /\ MaxStalls \in Nat
  /\ Faults \in BOOLEAN
  /\ None \notin Sources \union Calls /\ None \notin Nat
  /\ IsFiniteSet(Calls)

VARIABLES
  page,     (* the version of the pages on the web                         *)
  items,    (* the content of the catalog's active products                *)
  status,   (* status[s] of the row of source s                            *)
  chunks,   (* chunks[s]: the calls whose chunks s has                     *)
  job,      (* job[s]: the state of the job with the id of s               *)
  data,     (* data[s]: the text in its data                               *)
  tries,    (* tries[s]: its attempts so far                               *)
  stalls,   (* stalls[s]: how often it was found stalled                   *)
  serves,   (* serves[s]: the call that its worker waits for               *)
  rq,       (* rq[r]: what request r does next                             *)
  on,       (* on[r]: the source it is about                               *)
  with,     (* with[r]: the text it has read                               *)
  at,       (* at[k]: where the AI service is with call k                  *)
  of,       (* of[k]: its source                                           *)
  text,     (* text[k]: the version of its text                            *)
  sees,     (* sees[k]: the chunks that its DELETE has found               *)
  crowded,  (* the sources two calls have been at work for at a time       *)
  mishap    (* whether something came between a catalog and its chunks     *)

rowVars == <<status, chunks>>
jobVars == <<job, data, tries, stalls, serves>>
rqVars == <<rq, on, with>>
callVars == <<at, of, text, sees>>
vars == <<page, items, rowVars, jobVars, rqVars, callVars, crowded, mishap>>

-----------------------------------------------------------------------------
Status == {"none", "processing", "ready", "failed", "removed"}
JobState == {"none", "waiting", "active", "completed", "failed"}
Place == {"idle", "extract", "delete", "insert", "empty", "error",
          "answered", "dead"}
AtWork == {"extract", "delete", "insert", "empty", "error"}

There(s) == status[s] \in {"processing", "ready", "failed"}
Working(s) == {k \in Calls : of[k] = s /\ at[k] \in AtWork}

TypeOK ==
  /\ page \in Versions /\ items \in Versions
  /\ status \in [Sources -> Status]
  /\ chunks \in [Sources -> SUBSET Calls]
  /\ job \in [Sources -> JobState]
  /\ data \in [Sources -> Versions \union {None}]
  /\ tries \in [Sources -> 0..MaxAttempts]
  /\ stalls \in [Sources -> 0..MaxStalls]
  /\ serves \in [Sources -> Calls \union {None}]
  /\ rq \in [Requests -> {"idle", "reindex", "write", "add", "over"}]
  /\ on \in [Requests -> Sources \union {None}]
  /\ with \in [Requests -> Versions \union {None}]
  /\ at \in [Calls -> Place]
  /\ of \in [Calls -> Sources \union {None}]
  /\ text \in [Calls -> Versions \union {None}]
  /\ sees \in [Calls -> SUBSET Calls]
  /\ crowded \subseteq Sources
  /\ mishap \in BOOLEAN
  /\ \A s \in Sources : (job[s] = "active") = (serves[s] # None)

Init ==
  /\ page = 0 /\ items = 0
  /\ status = [s \in Sources |-> "none"]
  /\ chunks = [s \in Sources |-> {}]
  /\ job = [s \in Sources |-> "none"]
  /\ data = [s \in Sources |-> None]
  /\ tries = [s \in Sources |-> 0] /\ stalls = [s \in Sources |-> 0]
  /\ serves = [s \in Sources |-> None]
  /\ rq = [r \in Requests |-> "idle"]
  /\ on = [r \in Requests |-> None]
  /\ with = [r \in Requests |-> None]
  /\ at = [k \in Calls |-> "idle"]
  /\ of = [k \in Calls |-> None]
  /\ text = [k \in Calls |-> None]
  /\ sees = [k \in Calls |-> {}]
  /\ crowded = {} /\ mishap = FALSE

Open(r) == rq[r] \in {"reindex", "write", "add"}
Quiet ==
  /\ \A r \in Requests : ~Open(r)
  /\ \A s \in Sources : job[s] \notin {"waiting", "active"}
  /\ \A k \in Calls : at[k] \notin AtWork

-----------------------------------------------------------------------------
(* Requests about pages. *)

\* create, and refresh of a source that is there: the row, before the job
CreateSource(r, s) ==
  /\ rq[r] = "idle" /\ status[s] = "none"
  /\ status' = [status EXCEPT ![s] = "processing"]
  /\ rq' = [rq EXCEPT ![r] = "add"]
  /\ on' = [on EXCEPT ![r] = s]
  /\ UNCHANGED <<page, items, chunks, jobVars, with, callVars, crowded, mishap>>

Refresh(r, s) ==
  /\ rq[r] = "idle" /\ There(s)
  /\ status' = [status EXCEPT ![s] = "processing"]
  /\ rq' = [rq EXCEPT ![r] = "add"]
  /\ on' = [on EXCEPT ![r] = s]
  /\ UNCHANGED <<page, items, chunks, jobVars, with, callVars, crowded, mishap>>

\* remove, of any source; the chunks go with the row.
Drop(s) ==
  /\ status' = [status EXCEPT ![s] = "removed"]
  /\ chunks' = [chunks EXCEPT ![s] = {}]

RemoveSource(s) ==
  /\ There(s)
  /\ Drop(s)
  /\ mishap' = (mishap \/ s \in CatalogRows)
  /\ UNCHANGED <<page, items, jobVars, rqVars, callVars, crowded>>

PageChanges ==
  /\ page < MaxPage
  /\ page' = page + 1
  /\ UNCHANGED <<items, rowVars, jobVars, rqVars, callVars, crowded, mishap>>

\* enqueue: the add is ignored while there is a job of that id.
Add(r) ==
  /\ rq[r] = "add"
  /\ rq' = [rq EXCEPT ![r] = "over"]
  /\ IF job[on[r]] = "none"
     THEN /\ job' = [job EXCEPT ![on[r]] = "waiting"]
          /\ data' = [data EXCEPT ![on[r]] = with[r]]
          /\ UNCHANGED mishap
     ELSE mishap' = TRUE /\ UNCHANGED <<job, data>>
  /\ UNCHANGED <<page, items, rowVars, tries, stalls, serves, on, with,
                 callVars, crowded>>

\* The process dies, or an await of the request fails, after its first write.
Abandon(r) ==
  /\ Faults /\ Open(r)
  /\ rq' = [rq EXCEPT ![r] = "over"]
  /\ mishap' = TRUE
  /\ UNCHANGED <<page, items, rowVars, jobVars, on, with, callVars, crowded>>

-----------------------------------------------------------------------------
(* The catalog. *)

\* CatalogService.create, update, remove: the product, and then reindexCatalog.
\* Two of these at a time count as a mishap.
ChangeItems(r) ==
  /\ rq[r] = "idle"
  /\ items' \in Versions \ {items}
  /\ rq' = [rq EXCEPT ![r] = "reindex"]
  /\ mishap' = (mishap \/ \E q \in Requests : Open(q) /\ on[q] \notin Pages)
  /\ UNCHANGED <<page, rowVars, jobVars, on, with, callVars, crowded>>

\* The transaction of reindexCatalog reads products and source ...
Reindex(r) ==
  /\ rq[r] = "reindex"
  /\ rq' = [rq EXCEPT ![r] = "write"]
  /\ with' = [with EXCEPT ![r] = items]
  /\ \E s \in {c \in CatalogRows : There(c)} \union {None} :
       /\ s = None => \A c \in CatalogRows : ~There(c)
       /\ on' = [on EXCEPT ![r] = s]
  /\ UNCHANGED <<page, items, rowVars, jobVars, callVars, crowded, mishap>>

\* As if the source were left when the last product goes.
KeepCatalog(r) ==
  /\ rq[r] = "write" /\ with[r] \in Blank
  /\ rq' = [rq EXCEPT ![r] = "over"]
  /\ UNCHANGED <<page, items, rowVars, jobVars, on, with, callVars, crowded, mishap>>

\* ... and deletes the source, when there is nothing to say ...
DeleteCatalog(r) ==
  /\ rq[r] = "write" /\ with[r] \in Blank
  /\ rq' = [rq EXCEPT ![r] = "over"]
  /\ IF on[r] # None /\ There(on[r]) THEN Drop(on[r]) ELSE UNCHANGED rowVars
  /\ UNCHANGED <<page, items, jobVars, on, with, callVars, crowded, mishap>>

\* ... or creates it or says that it is processed.  If it has gone since it was
\* read the request fails.
WriteCatalog(r) ==
  /\ rq[r] = "write" /\ with[r] \notin Blank
  /\ IF on[r] # None /\ ~There(on[r])
     THEN rq' = [rq EXCEPT ![r] = "over"] /\ UNCHANGED <<status, on>>
     ELSE /\ rq' = [rq EXCEPT ![r] = "add"]
          /\ \E s \in CatalogRows :
               /\ IF on[r] = None THEN status[s] = "none" ELSE s = on[r]
               /\ on' = [on EXCEPT ![r] = s]
               /\ status' = [status EXCEPT ![s] = "processing"]
  /\ UNCHANGED <<page, items, chunks, jobVars, with, callVars, crowded, mishap>>

-----------------------------------------------------------------------------
(* The queue and the worker. *)

\* The worker takes the job and calls the AI service.
StartJob(s, k) ==
  /\ job[s] = "waiting" /\ at[k] = "idle"
  /\ job' = [job EXCEPT ![s] = "active"]
  /\ serves' = [serves EXCEPT ![s] = k]
  /\ at' = [at EXCEPT ![k] = "extract"]
  /\ of' = [of EXCEPT ![k] = s]
  /\ text' = [text EXCEPT ![k] = data[s]]
  /\ crowded' = IF Working(s) # {} THEN crowded \union {s} ELSE crowded
  /\ UNCHANGED <<page, items, rowVars, data, tries, stalls, rqVars, sees, mishap>>

\* An answer of any kind completes the job.
AckJob(s) ==
  /\ job[s] = "active" /\ at[serves[s]] = "answered"
  /\ job' = [job EXCEPT ![s] = "completed"]
  /\ serves' = [serves EXCEPT ![s] = None]
  /\ UNCHANGED <<page, items, rowVars, data, tries, stalls, rqVars, callVars,
                 crowded, mishap>>

\* As if the last attempt were counted one too late.
NoAnswerLate(s) ==
  /\ Faults /\ job[s] = "active"
  /\ tries' = [tries EXCEPT ![s] = @ + 1]
  /\ IF tries[s] + 1 > MaxAttempts
     THEN job' = [job EXCEPT ![s] = "failed"]
     ELSE job' = [job EXCEPT ![s] = "waiting"]
  /\ serves' = [serves EXCEPT ![s] = None]
  /\ mishap' = TRUE
  /\ UNCHANGED <<page, items, rowVars, data, stalls, rqVars, callVars, crowded>>

\* No answer: the service cannot be reached, has failed or takes too long.  The
\* last attempt marks the row, if it is there and the transaction succeeds.
NoAnswer(s) ==
  /\ Faults /\ job[s] = "active"
  /\ tries' = [tries EXCEPT ![s] = @ + 1]
  /\ IF tries[s] + 1 >= MaxAttempts
     THEN /\ job' = [job EXCEPT ![s] = "failed"]
          /\ \/ There(s) /\ status' = [status EXCEPT ![s] = "failed"]
             \/ UNCHANGED status
     ELSE job' = [job EXCEPT ![s] = "waiting"] /\ UNCHANGED status
  /\ serves' = [serves EXCEPT ![s] = None]
  /\ mishap' = TRUE
  /\ UNCHANGED <<page, items, chunks, data, stalls, rqVars, callVars, crowded>>

\* The worker dies, and another finds the job stalled: it is started again, or
\* fails without the processor being asked.
WorkerDies(s) ==
  /\ Faults /\ job[s] = "active"
  /\ IF stalls[s] < MaxStalls
     THEN /\ stalls' = [stalls EXCEPT ![s] = @ + 1]
          /\ job' = [job EXCEPT ![s] = "waiting"]
     ELSE job' = [job EXCEPT ![s] = "failed"] /\ UNCHANGED stalls
  /\ serves' = [serves EXCEPT ![s] = None]
  /\ mishap' = TRUE
  /\ UNCHANGED <<page, items, rowVars, data, tries, rqVars, callVars, crowded>>

\* A day later, which no request lasts, the completed job is forgotten.
ForgetJob(s) ==
  /\ job[s] = "completed" /\ \A r \in Requests : ~Open(r)
  /\ job' = [job EXCEPT ![s] = "none"]
  /\ tries' = [tries EXCEPT ![s] = 0] /\ stalls' = [stalls EXCEPT ![s] = 0]
  /\ UNCHANGED <<page, items, rowVars, data, serves, rqVars, callVars, crowded,
                 mishap>>

-----------------------------------------------------------------------------
(* The AI service. *)

Goto(k, place) == at' = [at EXCEPT ![k] = place]

\* _extract_text, chunk_text and the embedding: a page is read now, the catalog
\* is in the job.
Extract(k) ==
  /\ at[k] = "extract"
  /\ LET v == IF of[k] \in Pages THEN page ELSE text[k]
     IN  /\ text' = [text EXCEPT ![k] = v]
         /\ Goto(k, IF v \in Blank THEN "empty" ELSE "delete")
  /\ UNCHANGED <<page, items, rowVars, jobVars, rqVars, of, sees, crowded, mishap>>

\* The exception of any step, whose own transaction is taken back.
Raise(k) ==
  /\ Faults /\ at[k] \in {"extract", "delete", "insert"}
  /\ Goto(k, "error")
  /\ mishap' = TRUE
  /\ UNCHANGED <<page, items, rowVars, jobVars, rqVars, of, text, sees, crowded>>

\* The transaction: the DELETE works on the chunks committed when it begins ...
Delete(k) ==
  /\ at[k] = "delete"
  /\ sees' = [sees EXCEPT ![k] = chunks[of[k]]]
  /\ Goto(k, "insert")
  /\ UNCHANGED <<page, items, rowVars, jobVars, rqVars, of, text, crowded, mishap>>

\* As if there were no foreign key from a chunk to its source.
InsertAnyway(k) ==
  /\ at[k] = "insert"
  /\ chunks' = [chunks EXCEPT ![of[k]] = (@ \ sees[k]) \union {k}]
  /\ status' = IF There(of[k]) THEN [status EXCEPT ![of[k]] = "ready"] ELSE status
  /\ Goto(k, "answered")
  /\ UNCHANGED <<page, items, jobVars, rqVars, of, text, sees, crowded, mishap>>

\* As if the chunks of the source were not deleted first.
InsertMore(k) ==
  /\ at[k] = "insert" /\ There(of[k])
  /\ chunks' = [chunks EXCEPT ![of[k]] = @ \union {k}]
  /\ status' = [status EXCEPT ![of[k]] = "ready"]
  /\ Goto(k, "answered")
  /\ UNCHANGED <<page, items, jobVars, rqVars, of, text, sees, crowded, mishap>>

\* ... and what it has not seen stays.  Without the row there is nothing to
\* insert for, and the transaction fails.
Insert(k) ==
  /\ at[k] = "insert"
  /\ IF There(of[k])
     THEN /\ chunks' = [chunks EXCEPT ![of[k]] = (@ \ sees[k]) \union {k}]
          /\ status' = [status EXCEPT ![of[k]] = "ready"]
          /\ Goto(k, "answered")
     ELSE Goto(k, "error") /\ UNCHANGED rowVars
  /\ UNCHANGED <<page, items, jobVars, rqVars, of, text, sees, crowded, mishap>>

\* _finalize: the outcome of an empty text or of an error.  The chunks stay.
\* If it cannot be written either, the service answers all the same.
Finalize(k) ==
  /\ at[k] \in {"empty", "error"}
  /\ \/ /\ There(of[k])
        /\ status' = [status EXCEPT ![of[k]] =
                        IF at[k] = "empty" THEN "ready" ELSE "failed"]
     \/ (There(of[k]) => Faults) /\ UNCHANGED status
  /\ Goto(k, "answered")
  /\ UNCHANGED <<page, items, chunks, jobVars, rqVars, of, text, sees, crowded,
                 mishap>>

\* The AI service dies.
ServiceDies(k) ==
  /\ Faults /\ at[k] \in AtWork
  /\ Goto(k, "dead")
  /\ mishap' = TRUE
  /\ UNCHANGED <<page, items, rowVars, jobVars, rqVars, of, text, sees, crowded>>

-----------------------------------------------------------------------------
Request(r) ==
  \/ \E s \in Pages : CreateSource(r, s) \/ Refresh(r, s)
  \/ ChangeItems(r) \/ Reindex(r) \/ DeleteCatalog(r) \/ WriteCatalog(r)
  \/ Add(r) \/ Abandon(r)

Queue(s) ==
  \/ \E k \in Calls : StartJob(s, k)
  \/ AckJob(s) \/ NoAnswer(s) \/ WorkerDies(s) \/ ForgetJob(s)

Call(k) ==
  \/ Extract(k) \/ Raise(k) \/ Delete(k) \/ Insert(k)
  \/ Finalize(k) \/ ServiceDies(k)

Next ==
  \/ \E r \in Requests : Request(r)
  \/ \E s \in Sources : Queue(s) \/ RemoveSource(s)
  \/ \E k \in Calls : Call(k)
  \/ PageChanges

Spec == Init /\ [][Next]_vars

-----------------------------------------------------------------------------
(* Properties. *)

\* The chunks of a source come from one ingestion, unless two calls of the AI
\* service have been at work for it at the same time.  (ingest: "Reemplaza los
\* chunks previos de la fuente para permitir re-procesos idempotentes")
OneIngestion == \A s \in Sources \ crowded : Cardinality(chunks[s]) <= 1

\* Nothing is left of a source that was removed, even if it is removed while it
\* is ingested: the AI does not answer from it any more.
RemovedIsForgotten == \A s \in Sources : ~There(s) => chunks[s] = {}

\* When all is done, the AI knows the catalog as it is, unless something failed,
\* two changes of the catalog came at a time, somebody removed the source or the
\* queue ignored a job.  (reindexCatalog: "Se llama al mutar el catalogo")
KnownCatalog ==
  UNION {{text[k] : k \in chunks[s]} : s \in CatalogRows}
CatalogIsKnown ==
  Quiet /\ ~mishap => KnownCatalog = {items} \ Blank

\* A refresh that was answered is carried out: when all is done and nothing has
\* failed, no page is still being processed.  The code does not keep this.
\* (refresh: "Re-procesa una fuente de tipo URL (re-crawl)")
RefreshIsCarriedOut ==
  Quiet /\ ~Faults => \A s \in Pages : status[s] # "processing"

=============================================================================
