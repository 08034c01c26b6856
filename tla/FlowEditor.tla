----------------------------- MODULE FlowEditor -----------------------------
(***************************************************************************)
(* The draft of a flow and the tabs that edit it: the list of flows, the   *)
(* editor with its copy of the graph, and the requests that save, publish  *)
(* and validate it, which outlive the editor that sent them.               *)
(*                                                                         *)
(* A graph is the set of the changes it contains, the trigger's included.  *)
(* Each change leaves it valid or not.  PATCH replaces the whole draft.    *)
(* Publishing is a PATCH and then a POST, which reads the draft, then the  *)
(* number of the last version, and then writes the next one; the numbers   *)
(* of a flow are unique in the database.                                   *)
(*                                                                         *)
(* The editor takes its copy from the query of the flow when it is         *)
(* mounted: from the cache, if the query is still there.                   *)
(***************************************************************************)
EXTENDS Naturals, Sequences

CONSTANTS
  Tabs,         (* tabs of people who may manage flows                     *)
  Calls,        (* requests that are under way at the same time            *)
  MaxEdits,     (* bound: changes that are made                            *)
  MaxVersions,  (* bound: versions that are published                      *)
  MaxEvents,    (* bound: lost answers, removals and visits to the editor  *)
  Nothing

ASSUME FlowEditorAssumption ==
  MaxEdits \in Nat /\ MaxVersions \in Nat /\ MaxEvents \in Nat

VARIABLES
  row,       (* the row of the flow                                        *)
  releases,  (* the graphs of its versions                                 *)
  edits,     (* how many changes have been made                            *)
  sound,     (* those that left their graph valid                          *)
  page,      (* where a tab is                                             *)
  cache,     (* its query of the flow: a graph, or None                    *)
  fetch,     (* what that query fetches, and the answer on its way         *)
  shown,     (* the graph in the editor                                    *)
  dirty,     (* whether it says "sin guardar"                              *)
  verdict,   (* the validation that is shown                               *)
  call,      (* the requests of editors                                    *)
  meddled,   (* history: whether the copy may differ from the draft        *)
  left       (* how many of MaxEvents may still happen                     *)

serverVars == <<row, releases>>
tabVars == <<page, cache, fetch, shown, dirty, verdict>>
editorVars == <<serverVars, edits, sound, tabVars, call, meddled, left>>

-----------------------------------------------------------------------------
Draft == SUBSET (1..MaxEdits)

Latest(g) == CHOOSE n \in g : \A m \in g : m <= n

\* validateGraph: the graph of a new flow is a start that leads nowhere.
ValidDraft(g) == g # {} /\ Latest(g) \in sound

Ops == {"save", "publish", "validate"}
Stage == {"idle", "patch", "patched", "post", "read", "numbered", "published",
       "check", "valid", "invalid", "failed"}

\* mine: the editor that sent it is still there to be told; read: the draft that
\* a publication has read; crossed: another PATCH came between its own and that.
NoFetch == [at |-> "no", graph |-> {}]
NoCall == [tab |-> Nothing, op |-> "save", at |-> "idle", graph |-> {}, read |-> {}, num |-> 0,
            mine |-> FALSE, crossed |-> FALSE]

EditorTypeOK ==
  /\ row \in [draft : Draft, there : BOOLEAN, enabled : BOOLEAN, published : 0..MaxVersions]
  /\ releases \in Seq(Draft) /\ Len(releases) <= MaxVersions
  /\ edits \in 0..MaxEdits /\ sound \subseteq 1..edits
  /\ page \in [Tabs -> {"list", "loading", "editor"}]
  /\ cache \in [Tabs -> Draft \union {Nothing}]
  /\ fetch \in [Tabs -> [at : {"no", "sent", "answered"}, graph : Draft]]
  /\ shown \in [Tabs -> SUBSET (1..edits)] /\ dirty \in [Tabs -> BOOLEAN]
  /\ verdict \in [Tabs -> {"none", "valid", "invalid"}]
  /\ call \in [Calls -> [tab : Tabs \union {Nothing}, op : Ops, at : Stage, graph : Draft, read : Draft,
                         num : 0..MaxVersions, mine : BOOLEAN, crossed : BOOLEAN]]
  /\ meddled \in [Tabs -> BOOLEAN] /\ left \in 0..MaxEvents
  /\ row.enabled => row.published # 0

EditorInit ==
  /\ row = [draft |-> {}, there |-> TRUE, enabled |-> FALSE, published |-> 0]
  /\ releases = <<>> /\ edits = 0 /\ sound = {}
  /\ page = [t \in Tabs |-> "list"]
  /\ cache = [t \in Tabs |-> Nothing] /\ fetch = [t \in Tabs |-> NoFetch]
  /\ shown = [t \in Tabs |-> {}] /\ dirty = [t \in Tabs |-> FALSE]
  /\ verdict = [t \in Tabs |-> "none"]
  /\ call = [c \in Calls |-> NoCall]
  /\ meddled = [t \in Tabs |-> FALSE] /\ left = MaxEvents

Event == left > 0 /\ left' = left - 1

\* What the open editor of tab t has under way.
Under(t, ops) ==
  {c \in Calls : call[c].at # "idle" /\ call[c].tab = t /\ call[c].mine /\ call[c].op \in ops}

-----------------------------------------------------------------------------
(* Opening and leaving the editor. *)

Mount(t, g) ==
  /\ page' = [page EXCEPT ![t] = "editor"]
  /\ shown' = [shown EXCEPT ![t] = g]
  /\ dirty' = [dirty EXCEPT ![t] = FALSE]
  /\ verdict' = [verdict EXCEPT ![t] = "none"]
  /\ meddled' = [meddled EXCEPT ![t] = ~row.there \/ g # row.draft]

\* With a flow that is cached the editor is there at once; what a fetch in the
\* background brings is not looked at any more.
OpenEditor(t) ==
  /\ page[t] = "list" /\ Event
  /\ IF cache[t] # Nothing
     THEN /\ Mount(t, cache[t])
          /\ \/ fetch' = [fetch EXCEPT ![t].at = "sent"]
             \/ UNCHANGED fetch
     ELSE /\ page' = [page EXCEPT ![t] = "loading"]
          /\ fetch' = [fetch EXCEPT ![t].at = "sent"]
          /\ UNCHANGED <<shown, dirty, verdict, meddled>>
  /\ UNCHANGED <<serverVars, edits, sound, cache, call>>

ServeGet(t) ==
  /\ fetch[t].at = "sent"
  /\ fetch' = [fetch EXCEPT ![t] = IF row.there THEN [at |-> "answered", graph |-> row.draft]
                                   ELSE NoFetch]
  /\ page' = [page EXCEPT ![t] = IF @ = "loading" /\ ~row.there THEN "list" ELSE @]
  /\ UNCHANGED <<serverVars, edits, sound, cache, shown, dirty, verdict, call, meddled, left>>

Loaded(t) ==
  /\ fetch[t].at = "answered"
  /\ cache' = [cache EXCEPT ![t] = fetch[t].graph]
  /\ fetch' = [fetch EXCEPT ![t] = NoFetch]
  /\ IF page[t] = "loading" THEN Mount(t, fetch[t].graph)
     ELSE UNCHANGED <<page, shown, dirty, verdict, meddled>>
  /\ UNCHANGED <<serverVars, edits, sound, call, left>>

\* A request goes on without an editor to tell, as far as it changes the flow.
Unheard(k) ==
  IF k.at \in {"patch", "post", "read", "numbered"} \/ (k.op = "publish" /\ k.at = "patched")
  THEN [k EXCEPT !.mine = FALSE] ELSE NoCall

LeaveEditor(t) ==
  /\ page[t] = "editor"
  /\ page' = [page EXCEPT ![t] = "list"]
  /\ shown' = [shown EXCEPT ![t] = {}]
  /\ dirty' = [dirty EXCEPT ![t] = FALSE]
  /\ verdict' = [verdict EXCEPT ![t] = "none"]
  /\ call' = [c \in Calls |-> IF call[c].tab = t THEN Unheard(call[c]) ELSE call[c]]
  /\ meddled' = [meddled EXCEPT ![t] = FALSE]
  /\ UNCHANGED <<serverVars, edits, sound, cache, fetch, left>>

\* A query that nobody uses is dropped after a while.
Forget(t) ==
  /\ page[t] = "list" /\ cache[t] # Nothing
  /\ cache' = [cache EXCEPT ![t] = Nothing]
  /\ UNCHANGED <<serverVars, edits, sound, page, fetch, shown, dirty, verdict, call, meddled, left>>

-----------------------------------------------------------------------------
(* Editing. *)

\* The answer to a save that is under way will say that all is saved.
Changes(t) ==
  /\ page[t] = "editor" /\ edits < MaxEdits
  /\ edits' = edits + 1
  /\ sound' \in {sound, sound \union {edits + 1}}
  /\ shown' = [shown EXCEPT ![t] = @ \union {edits + 1}]
  /\ UNCHANGED <<serverVars, page, cache, fetch, call, left>>

\* As if the panel changed the node and nothing else.
EditUnmarked(t) ==
  /\ Changes(t)
  /\ meddled' = [meddled EXCEPT ![t] = @ \/ Under(t, {"save", "publish"}) # {}]
  /\ UNCHANGED <<dirty, verdict>>

\* addNode, updateNodeData, deleteNode, onConnect, setTrigger, each with markDirty.
Edit(t) ==
  /\ Changes(t)
  /\ dirty' = [dirty EXCEPT ![t] = TRUE]
  /\ verdict' = [verdict EXCEPT ![t] = "none"]
  /\ meddled' = [meddled EXCEPT ![t] = @ \/ Under(t, {"save", "publish"}) # {}]

\* onNodesChange, onEdgesChange: nodes and edges removed by key.
RemoveByKey(t) ==
  /\ Changes(t)
  /\ meddled' = [meddled EXCEPT ![t] = TRUE]
  /\ UNCHANGED <<dirty, verdict>>

-----------------------------------------------------------------------------
(* Saving and validating. *)

Start(c, t, op, at) ==
  call' = [call EXCEPT ![c] = [NoCall EXCEPT !.tab = t, !.op = op, !.at = at,
                                             !.graph = shown[t], !.mine = TRUE]]

\* As if publishing did not save.
ClickUnsaved(c, t, op) ==
  /\ page[t] = "editor" /\ call[c].at = "idle" /\ Under(t, {op}) = {}
  /\ Start(c, t, op, CASE op = "validate" -> "check" [] op = "publish" -> "post" [] OTHER -> "patch")
  /\ meddled' = [meddled EXCEPT ![t] = @ \/ (op # "validate" /\ Under(t, {"save", "publish"}) # {})]
  /\ UNCHANGED <<serverVars, edits, sound, tabVars, left>>

\* Each button waits for its own request only.
Click(c, t, op) ==
  /\ page[t] = "editor" /\ call[c].at = "idle" /\ Under(t, {op}) = {}
  /\ Start(c, t, op, IF op = "validate" THEN "check" ELSE "patch")
  /\ meddled' = [meddled EXCEPT ![t] = @ \/ (op # "validate" /\ Under(t, {"save", "publish"}) # {})]
  /\ UNCHANGED <<serverVars, edits, sound, tabVars, left>>

\* update: the draft is replaced by what the request carries.
ServePatch(c) ==
  /\ call[c].at = "patch"
  /\ IF row.there
     THEN /\ row' = [row EXCEPT !.draft = call[c].graph]
          /\ call' = [d \in Calls |->
               IF d = c THEN [call[c] EXCEPT !.at = "patched"]
               ELSE [call[d] EXCEPT !.crossed = @ \/ (call[d].op = "publish" /\ call[d].at \in {"patched", "post"})]]
          /\ meddled' = [t \in Tabs |->
               meddled[t] \/ (page[t] = "editor" /\ ~(call[c].tab = t /\ call[c].mine))]
     ELSE /\ call' = [call EXCEPT ![c].at = "failed"]
          /\ UNCHANGED <<row, meddled>>
  /\ UNCHANGED <<releases, edits, sound, tabVars, left>>

Done(c) == call' = [call EXCEPT ![c] = NoCall]

\* setDirty(false) in the editor that sent the request.
Clean(c) == dirty' = [dirty EXCEPT ![call[c].tab] = @ /\ ~call[c].mine]

\* onSuccess of save.
Saved(c) ==
  /\ call[c].op = "save" /\ call[c].at = "patched"
  /\ Clean(c) /\ Done(c)
  /\ UNCHANGED <<serverVars, edits, sound, page, cache, fetch, shown, verdict, meddled, left>>

ServeValidate(c) ==
  /\ call[c].at = "check"
  /\ call' = [call EXCEPT ![c].at = IF ~row.there THEN "failed"
                                    ELSE IF ValidDraft(call[c].graph) THEN "valid" ELSE "invalid"]
  /\ UNCHANGED <<serverVars, edits, sound, tabVars, meddled, left>>

\* onSuccess of validate.
Validated(c) ==
  /\ call[c].at \in {"valid", "invalid"}
  /\ verdict' = [verdict EXCEPT ![call[c].tab] = IF call[c].mine THEN call[c].at ELSE @]
  /\ Done(c)
  /\ UNCHANGED <<serverVars, edits, sound, page, cache, fetch, shown, dirty, meddled, left>>

-----------------------------------------------------------------------------
(* Publishing. *)

Post(c) ==
  /\ call[c].op = "publish" /\ call[c].at = "patched"
  /\ call' = [call EXCEPT ![c].at = "post"]
  /\ UNCHANGED <<serverVars, edits, sound, tabVars, meddled, left>>

\* publish: the draft is read and validated.
ReadDraft(c) ==
  /\ call[c].at = "post"
  /\ call' = [call EXCEPT ![c].at = IF row.there /\ ValidDraft(row.draft) THEN "read" ELSE "failed",
                          ![c].read = row.draft]
  /\ UNCHANGED <<serverVars, edits, sound, tabVars, meddled, left>>

NumberIt(c) ==
  /\ call[c].at = "read" /\ Len(releases) < MaxVersions
  /\ call' = [call EXCEPT ![c].at = "numbered", ![c].num = Len(releases) + 1]
  /\ UNCHANGED <<serverVars, edits, sound, tabVars, meddled, left>>

\* As if the numbers of a flow's versions were not unique.
WriteAnyVersion(c) ==
  /\ call[c].at = "numbered" /\ row.there
  /\ releases' = IF call[c].num > Len(releases) THEN Append(releases, call[c].read)
                 ELSE [releases EXCEPT ![call[c].num] = call[c].read]
  /\ row' = [row EXCEPT !.enabled = TRUE, !.published = call[c].num]
  /\ call' = [call EXCEPT ![c].at = "published"]
  /\ UNCHANGED <<edits, sound, tabVars, meddled, left>>

\* The next version, and the flow that points to it; or nothing of either.
WriteVersion(c) ==
  /\ call[c].at = "numbered"
  /\ IF row.there /\ call[c].num > Len(releases)
     THEN /\ releases' = Append(releases, call[c].read)
          /\ row' = [row EXCEPT !.enabled = TRUE, !.published = call[c].num]
          /\ call' = [call EXCEPT ![c].at = "published"]
     ELSE call' = [call EXCEPT ![c].at = "failed"] /\ UNCHANGED serverVars
  /\ UNCHANGED <<edits, sound, tabVars, meddled, left>>

\* onSuccess of publish.
Announced(c) ==
  /\ call[c].at = "published"
  /\ Clean(c) /\ Done(c)
  /\ UNCHANGED <<serverVars, edits, sound, page, cache, fetch, shown, verdict, meddled, left>>

\* onError; of a publication that the server refused the graph is validated.
Failed(c) ==
  LET t == call[c].tab IN
  /\ call[c].at = "failed"
  /\ IF call[c].op = "publish" /\ call[c].mine /\ Under(t, {"validate"}) = {}
     THEN Start(c, t, "validate", "check")
     ELSE Done(c)
  /\ UNCHANGED <<serverVars, edits, sound, tabVars, meddled, left>>

\* The connection is lost: the server goes on with what has reached it, but a
\* PATCH is not followed by its POST.
Lost(c) ==
  /\ call[c].at # "idle" /\ call[c].mine
  /\ call' = [call EXCEPT ![c] = IF call[c].at = "patched" THEN NoCall
                                ELSE [Unheard(call[c]) EXCEPT !.op = IF call[c].at = "patch" THEN "save" ELSE @]]
  /\ UNCHANGED <<serverVars, edits, sound, tabVars, meddled>>
  /\ Event

-----------------------------------------------------------------------------
(* The list of flows. *)

\* As if any flow could be switched on.
ToggleAny ==
  /\ row.there
  /\ \E on \in BOOLEAN \ {row.enabled} : row' = [row EXCEPT !.enabled = on]
  /\ UNCHANGED <<releases, edits, sound, tabVars, call, meddled, left>>

\* setEnabled.
Toggle ==
  /\ row.there
  /\ \E on \in BOOLEAN \ {row.enabled} :
       /\ on => row.published # 0
       /\ row' = [row EXCEPT !.enabled = on]
  /\ UNCHANGED <<releases, edits, sound, tabVars, call, meddled, left>>

\* remove: the versions go with the flow.
RemoveFlow ==
  /\ row.there
  /\ row' = [draft |-> {}, there |-> FALSE, enabled |-> FALSE, published |-> 0]
  /\ releases' = <<>>
  /\ meddled' = [t \in Tabs |-> page[t] = "editor"]
  /\ UNCHANGED <<edits, sound, tabVars, call>>
  /\ Event

-----------------------------------------------------------------------------
EditorNext ==
  \/ \E t \in Tabs :
       \/ OpenEditor(t) \/ ServeGet(t) \/ Loaded(t) \/ LeaveEditor(t) \/ Forget(t)
       \/ Edit(t) \/ RemoveByKey(t)
       \/ \E c \in Calls, op \in Ops : Click(c, t, op)
  \/ \E c \in Calls :
       \/ ServePatch(c) \/ Saved(c) \/ ServeValidate(c) \/ Validated(c)
       \/ Post(c) \/ ReadDraft(c) \/ NumberIt(c) \/ WriteVersion(c) \/ Announced(c)
       \/ Failed(c) \/ Lost(c)
  \/ Toggle \/ RemoveFlow

EditorSpec == EditorInit /\ [][EditorNext]_editorVars

-----------------------------------------------------------------------------
(* Properties. *)

\* The published version is the newest one, however publications overlap: it is
\* the one that toFlowDto reports.
\* (flows.mappers.ts: maxVersion)
PublishedIsNewest == row.there => row.published = Len(releases)

\* "Flujo publicado y activado" is said of the graph that the editor showed when
\* the button was pressed, unless another PATCH came between the two requests.
\* (editor.tsx: publish)
AnnouncedIsPublished ==
  \A c \in Calls : call[c].at = "published" /\ ~call[c].crossed /\ row.there
                    => releases[call[c].num] = call[c].graph

\* An editor that does not say "sin guardar" shows what the draft is, unless the
\* draft was changed by somebody else, the copy came from an old cache, the
\* change was made by key or while a save was under way, or two saves overlapped.
\* (editor.tsx: dirty)
CleanIsSaved ==
  \A t \in Tabs : page[t] = "editor" /\ ~dirty[t] /\ ~meddled[t] => shown[t] = row.draft

=============================================================================
