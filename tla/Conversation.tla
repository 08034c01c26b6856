---------------------------- MODULE Conversation ----------------------------
(***************************************************************************)
(* The row of one conversation and what people do to it from the inbox:    *)
(* take it over, give it back to the AI, change its status, assign it, tag *)
(* it; and the rows it refers to, members and tags, that come and go.      *)
(*                                                                         *)
(* Every request is a transaction of its own after findOrFail, except the  *)
(* assignment, which asks for the membership in one transaction and writes *)
(* in the next.  Automations and AiReply extend this module with what the  *)
(* handlers of incoming messages do to the same row; Answers puts the      *)
(* parts together.                                                         *)
(***************************************************************************)
EXTENDS Naturals, FiniteSets

CONSTANTS
  Users,     (* the users an agent may assign a conversation to            *)
  Tags,      (* the tags of the organization, each with a name of its own  *)
  MaxMoves,  (* bound on what people do, in the inbox and in the settings  *)
  None

ASSUME ConversationAssumption ==
  /\ MaxMoves \in Nat
  /\ None \notin Users

VARIABLES
  mode,      (* mode of the conversation                                   *)
  status,    (* its status                                                 *)
  assignee,  (* its assignedUserId                                         *)
  tagged,    (* the tags of its conversation_tags rows                     *)
  members,   (* the users with a membership in the organization            *)
  tags,      (* the tags that have a row                                   *)
  asked,     (* the users an open assignment has found to be members       *)
  moves      (* how many things people have done                           *)

rowVars == <<mode, status, assignee, tagged>>
inboxVars == <<rowVars, members, tags, asked, moves>>

-----------------------------------------------------------------------------
Mode == {"ai", "human"}
Status == {"open", "pending", "resolved", "archived"}

InboxTypeOK ==
  /\ mode \in Mode
  /\ status \in Status
  /\ assignee \in Users \union {None}
  /\ tagged \subseteq tags
  /\ members \subseteq Users
  /\ tags \subseteq Tags
  /\ asked \subseteq Users
  /\ moves \in 0..MaxMoves

\* A conversation of a channel whose profile is enabled.
InboxInit ==
  /\ mode = "ai" /\ status = "open"
  /\ assignee = None /\ tagged = {}
  /\ members \in SUBSET Users /\ tags \in SUBSET Tags
  /\ asked = {}
  /\ moves = 0

\* A person does something; the settings of other modules count as well.
Move == moves < MaxMoves /\ moves' = moves + 1

-----------------------------------------------------------------------------
(* What a handler writes, and a person too. *)

\* ConversationsController.handover, AiReplyService.handover
PassToHuman ==
  /\ mode' = "human"
  /\ status' = "pending"
  /\ UNCHANGED <<assignee, tagged>>

\* A tag is added if it still has a row, and only once.
PutTag(t) == tagged' = IF t \in tags THEN tagged \union {t} ELSE tagged

-----------------------------------------------------------------------------
(* The inbox. *)

HandOver ==
  /\ Move /\ PassToHuman
  /\ UNCHANGED <<members, tags, asked>>

ReturnToAi ==
  /\ Move
  /\ mode' = "ai" /\ status' = "open"
  /\ UNCHANGED <<assignee, tagged, members, tags, asked>>

\* update with a status
SetStatus(s) ==
  /\ Move
  /\ status' = s
  /\ UNCHANGED <<mode, assignee, tagged, members, tags, asked>>

\* update with an assignee: the membership is read ...
CheckAssignee(u) ==
  /\ Move
  /\ u \in members
  /\ asked' = asked \union {u}
  /\ UNCHANGED <<rowVars, members, tags>>

\* ... and written about in the next transaction.
Assign(u) ==
  /\ u \in asked
  /\ asked' = asked \ {u}
  /\ assignee' = u
  /\ UNCHANGED <<mode, status, tagged, members, tags, moves>>

Unassign ==
  /\ Move
  /\ assignee' = None
  /\ UNCHANGED <<mode, status, tagged, members, tags, asked>>

AddTag(t) ==
  /\ Move
  /\ t \in tags
  /\ PutTag(t)
  /\ UNCHANGED <<mode, status, assignee, members, tags, asked>>

RemoveTag(t) ==
  /\ Move
  /\ tagged' = tagged \ {t}
  /\ UNCHANGED <<mode, status, assignee, members, tags, asked>>

-----------------------------------------------------------------------------
(* What the row refers to. *)

\* TagsController.create, which refuses a name that is there
CreateTag(t) ==
  /\ Move
  /\ t \notin tags
  /\ tags' = tags \union {t}
  /\ UNCHANGED <<rowVars, members, asked>>

\* As if the rows of conversation_tags outlived the tag.
DeleteTagOnly(t) ==
  /\ Move
  /\ t \in tags
  /\ tags' = tags \ {t}
  /\ UNCHANGED <<rowVars, members, asked>>

\* TagsController.remove, with the conversation_tags rows of the tag
DeleteTag(t) ==
  /\ Move
  /\ t \in tags
  /\ tags' = tags \ {t}
  /\ tagged' = tagged \ {t}
  /\ UNCHANGED <<mode, status, assignee, members, asked>>

\* A member leaves or is removed: conversations keep their assignee.
DropMember(u) ==
  /\ Move
  /\ u \in members
  /\ members' = members \ {u}
  /\ UNCHANGED <<rowVars, tags, asked>>

JoinMember(u) ==
  /\ Move
  /\ u \notin members
  /\ members' = members \union {u}
  /\ UNCHANGED <<rowVars, tags, asked>>

InboxNext ==
  \/ HandOver \/ ReturnToAi \/ Unassign
  \/ \E s \in Status : SetStatus(s)
  \/ \E u \in Users :
       \/ CheckAssignee(u) \/ Assign(u)
       \/ DropMember(u) \/ JoinMember(u)
  \/ \E t \in Tags :
       \/ AddTag(t) \/ RemoveTag(t) \/ CreateTag(t) \/ DeleteTag(t)

=============================================================================
