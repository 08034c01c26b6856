---------------------------- MODULE AccessProofs ----------------------------
(***************************************************************************)
(* Proofs about who acts and for whom: about Members, for any users and    *)
(* any number of requests; and about Dashboard, for any organizations,     *)
(* requests at a time, tokens and changes of the inbox.                    *)
(***************************************************************************)
EXTENDS Members, Dashboard, TLAPS

-----------------------------------------------------------------------------
(* The members. *)

Changes == {"update", "remove"}

\* Who had ended when a request began had ended for good.
BeforeHadEnded ==
  \A r \in Requests : \A q \in before[r] : pc[q] \in Ended

\* What a request knows once its first checks have passed.
AskShape ==
  \A r \in Requests :
    /\ pc[r] \in {"count", "write"} => kind[r] # "none" /\ target[r] \in Users
    /\ pc[r] \in {"count", "write"} /\ kind[r] \in Changes => seen[r] \in Role
    /\ pc[r] = "write" /\ kind[r] = "accept" => grant[r] \in Invitable
    /\ kind[r] \in Changes /\ grant[r] = "owner" /\ pc[r] \in {"count", "write"}
         => claim[r] = "owner"

\* While nobody else has changed a member since r began, r's target still has
\* the role r saw, and the owner r counted is there.
Quiet(r) == \A q \in Requests : Changed(q) => q \in before[r]

ReadHolds ==
  \A r \in Requests :
    kind[r] \in Changes /\ pc[r] \in {"count", "write"} /\ Quiet(r)
      => /\ role[target[r]] = seen[r]
         /\ pc[r] = "write" /\ seen[r] = "owner" /\ grant[r] # "owner"
              => Owners \ {target[r]} # {}

\* The same for a request that demotes a Super Admin.
QuietStaff(r) == \A q \in Requests : Demoted(q) => q \in before[r]

CountHolds ==
  \A r \in Requests :
    kind[r] = "demote" /\ pc[r] = "write" /\ QuietStaff(r)
      => staff \ {target[r]} # {}

IInv ==
  /\ TypeOK
  /\ BeforeHadEnded
  /\ AskShape
  /\ ReadHolds
  /\ CountHolds
  /\ OwnerlessNeedsARace
  /\ StafflessNeedsARace
  /\ OwnersAreNamed

LEMMA Inductive == IInv /\ [Next]_vars => IInv'
<1> SUFFICES ASSUME IInv, [Next]_vars PROVE IInv'
  OBVIOUS
<1> USE MembersAssumption DEF IInv, rowVars, inviteVars, askVars, Role, Invitable, Kind,
     Ended, Step, Changes, Goto
<1>1. ASSUME NEW r \in Requests, NEW a \in Users, NEW c \in Ranks,
       NEW u \in Users, NEW g \in Ranks, UpdateRead(r, a, c, u, g)
      PROVE  IInv'
  <2>1. TypeOK'
    BY <1>1 DEF UpdateRead, Arrive, AfterRead, CanGrant, TypeOK
  <2>2. BeforeHadEnded'
    BY <1>1 DEF UpdateRead, Arrive, AfterRead, CanGrant, BeforeHadEnded
  <2>3. AskShape'
    BY <1>1 DEF UpdateRead, Arrive, AfterRead, CanGrant, AskShape, TypeOK
  <2>4. ReadHolds'
    BY <1>1 DEF UpdateRead, Arrive, AfterRead, CanGrant, ReadHolds, TypeOK,
      Quiet, Changed, Owners
  <2>5. CountHolds'
    BY <1>1 DEF UpdateRead, Arrive, AfterRead, CanGrant, CountHolds, TypeOK,
      QuietStaff, Demoted
  <2>6. OwnerlessNeedsARace'
    BY <1>1 DEF UpdateRead, Arrive, AfterRead, CanGrant, OwnerlessNeedsARace,
      Owners, Changed, Overlap
  <2>7. StafflessNeedsARace'
    BY <1>1 DEF UpdateRead, Arrive, AfterRead, CanGrant, StafflessNeedsARace,
      Demoted, Overlap
  <2>8. OwnersAreNamed'
    BY <1>1 DEF UpdateRead, Arrive, AfterRead, CanGrant, OwnersAreNamed,
      Owners, Changed
  <2> QED BY <2>1, <2>2, <2>3, <2>4, <2>5, <2>6, <2>7, <2>8
<1>2. ASSUME NEW r \in Requests, NEW a \in Users, NEW c \in Ranks,
       NEW u \in Users, RemoveRead(r, a, c, u)
      PROVE  IInv'
  <2>1. TypeOK'
    BY <1>2 DEF RemoveRead, Arrive, AfterRead, TypeOK
  <2>2. BeforeHadEnded'
    BY <1>2 DEF RemoveRead, Arrive, AfterRead, BeforeHadEnded
  <2>3. AskShape'
    BY <1>2 DEF RemoveRead, Arrive, AfterRead, AskShape, TypeOK
  <2>4. ReadHolds'
    BY <1>2 DEF RemoveRead, Arrive, AfterRead, ReadHolds, TypeOK, Quiet,
      Changed, Owners
  <2>5. CountHolds'
    BY <1>2 DEF RemoveRead, Arrive, AfterRead, CountHolds, TypeOK, QuietStaff,
      Demoted
  <2>6. OwnerlessNeedsARace'
    BY <1>2 DEF RemoveRead, Arrive, AfterRead, OwnerlessNeedsARace, Owners,
      Changed, Overlap
  <2>7. StafflessNeedsARace'
    BY <1>2 DEF RemoveRead, Arrive, AfterRead, StafflessNeedsARace, Demoted,
      Overlap
  <2>8. OwnersAreNamed'
    BY <1>2 DEF RemoveRead, Arrive, AfterRead, OwnersAreNamed, Owners, Changed
  <2> QED BY <2>1, <2>2, <2>3, <2>4, <2>5, <2>6, <2>7, <2>8
<1>3. ASSUME NEW r \in Requests, NEW u \in Users, AcceptRead(r, u)
      PROVE  IInv'
  <2>1. TypeOK'
    BY <1>3 DEF AcceptRead, Arrive, TypeOK
  <2>2. BeforeHadEnded'
    BY <1>3 DEF AcceptRead, Arrive, BeforeHadEnded
  <2>3. AskShape'
    BY <1>3 DEF AcceptRead, Arrive, AskShape, TypeOK
  <2>4. ReadHolds'
    BY <1>3 DEF AcceptRead, Arrive, ReadHolds, TypeOK, Quiet, Changed, Owners
  <2>5. CountHolds'
    BY <1>3 DEF AcceptRead, Arrive, CountHolds, TypeOK, QuietStaff, Demoted
  <2>6. OwnerlessNeedsARace'
    BY <1>3 DEF AcceptRead, Arrive, OwnerlessNeedsARace, Owners, Changed,
      Overlap
  <2>7. StafflessNeedsARace'
    BY <1>3 DEF AcceptRead, Arrive, StafflessNeedsARace, Demoted, Overlap
  <2>8. OwnersAreNamed'
    BY <1>3 DEF AcceptRead, Arrive, OwnersAreNamed, Owners, Changed
  <2> QED BY <2>1, <2>2, <2>3, <2>4, <2>5, <2>6, <2>7, <2>8
<1>4. ASSUME NEW r \in Requests, NEW a \in Users, NEW u \in Users,
       DemoteRead(r, a, u)
      PROVE  IInv'
  <2>1. TypeOK'
    BY <1>4 DEF DemoteRead, Arrive, TypeOK
  <2>2. BeforeHadEnded'
    BY <1>4 DEF DemoteRead, Arrive, BeforeHadEnded
  <2>3. AskShape'
    BY <1>4 DEF DemoteRead, Arrive, AskShape, TypeOK
  <2>4. ReadHolds'
    BY <1>4 DEF DemoteRead, Arrive, ReadHolds, TypeOK, Quiet, Changed, Owners
  <2>5. CountHolds'
    BY <1>4 DEF DemoteRead, Arrive, CountHolds, QuietStaff, Demoted
  <2>6. OwnerlessNeedsARace'
    BY <1>4 DEF DemoteRead, Arrive, OwnerlessNeedsARace, Owners, Changed,
      Overlap
  <2>7. StafflessNeedsARace'
    BY <1>4 DEF DemoteRead, Arrive, StafflessNeedsARace, Demoted, Overlap
  <2>8. OwnersAreNamed'
    BY <1>4 DEF DemoteRead, Arrive, OwnersAreNamed, Owners, Changed
  <2> QED BY <2>1, <2>2, <2>3, <2>4, <2>5, <2>6, <2>7, <2>8
<1>5. ASSUME NEW r \in Requests, CountOwners(r)
      PROVE  IInv'
  <2>1. TypeOK'
    BY <1>5 DEF CountOwners, TypeOK
  <2>2. BeforeHadEnded'
    BY <1>5 DEF CountOwners, BeforeHadEnded
  <2>3. AskShape'
    BY <1>5 DEF CountOwners, AskShape
  <2>4. ReadHolds'
    BY <1>5 DEF CountOwners, ReadHolds, Quiet, Changed, Owners
  <2>5. CountHolds'
    BY <1>5 DEF CountOwners, CountHolds, QuietStaff, Demoted
  <2>6. OwnerlessNeedsARace'
    BY <1>5 DEF CountOwners, OwnerlessNeedsARace, Owners, Changed, Overlap
  <2>7. StafflessNeedsARace'
    BY <1>5 DEF CountOwners, StafflessNeedsARace, Demoted, Overlap
  <2>8. OwnersAreNamed'
    BY <1>5 DEF CountOwners, OwnersAreNamed, Owners, Changed
  <2> QED BY <2>1, <2>2, <2>3, <2>4, <2>5, <2>6, <2>7, <2>8
<1>6. ASSUME NEW r \in Requests, Write(r)
      PROVE  IInv'
  <2>1. TypeOK'
    BY <1>6 DEF Write, SetRole, TypeOK
  <2>2. BeforeHadEnded'
    BY <1>6 DEF Write, SetRole, BeforeHadEnded, TypeOK
  <2>3. AskShape'
    BY <1>6 DEF Write, SetRole, AskShape, TypeOK
  <2>4. ReadHolds'
    BY <1>6 DEF Write, SetRole, ReadHolds, TypeOK, BeforeHadEnded, AskShape,
      Quiet, Changed, Owners
  <2>5. CountHolds'
    BY <1>6 DEF Write, SetRole, CountHolds, TypeOK, QuietStaff, Demoted
  <2>6. OwnerlessNeedsARace'
    BY <1>6 DEF Write, SetRole, OwnerlessNeedsARace, TypeOK, BeforeHadEnded,
      AskShape, ReadHolds, Owners, Changed, Overlap, Quiet
  <2>7. StafflessNeedsARace'
    BY <1>6 DEF Write, SetRole, StafflessNeedsARace, TypeOK, Demoted, Overlap
  <2>8. OwnersAreNamed'
    BY <1>6 DEF Write, SetRole, OwnersAreNamed, TypeOK, AskShape, Owners,
      Changed
  <2> QED BY <2>1, <2>2, <2>3, <2>4, <2>5, <2>6, <2>7, <2>8
<1>7. ASSUME NEW r \in Requests, AcceptWrite(r)
      PROVE  IInv'
  <2>1. TypeOK'
    BY <1>7 DEF AcceptWrite, SetRole, TypeOK
  <2>2. BeforeHadEnded'
    BY <1>7 DEF AcceptWrite, SetRole, BeforeHadEnded, TypeOK
  <2>3. AskShape'
    BY <1>7 DEF AcceptWrite, SetRole, AskShape, TypeOK
  <2>4. ReadHolds'
    BY <1>7 DEF AcceptWrite, SetRole, ReadHolds, TypeOK, BeforeHadEnded,
      AskShape, Quiet, Changed, Owners
  <2>5. CountHolds'
    BY <1>7 DEF AcceptWrite, SetRole, CountHolds, TypeOK, QuietStaff, Demoted
  <2>6. OwnerlessNeedsARace'
    BY <1>7 DEF AcceptWrite, SetRole, OwnerlessNeedsARace, TypeOK, Owners,
      Changed, Overlap
  <2>7. StafflessNeedsARace'
    BY <1>7 DEF AcceptWrite, SetRole, StafflessNeedsARace, TypeOK, Demoted,
      Overlap
  <2>8. OwnersAreNamed'
    BY <1>7 DEF AcceptWrite, SetRole, OwnersAreNamed, TypeOK, AskShape, Owners,
      Changed
  <2> QED BY <2>1, <2>2, <2>3, <2>4, <2>5, <2>6, <2>7, <2>8
<1>8. ASSUME NEW r \in Requests, CountStaff(r)
      PROVE  IInv'
  <2>1. TypeOK'
    BY <1>8 DEF CountStaff, TypeOK
  <2>2. BeforeHadEnded'
    BY <1>8 DEF CountStaff, BeforeHadEnded
  <2>3. AskShape'
    BY <1>8 DEF CountStaff, AskShape
  <2>4. ReadHolds'
    BY <1>8 DEF CountStaff, ReadHolds, Quiet, Changed, Owners
  <2>5. CountHolds'
    BY <1>8 DEF CountStaff, CountHolds, QuietStaff, Demoted
  <2>6. OwnerlessNeedsARace'
    BY <1>8 DEF CountStaff, OwnerlessNeedsARace, Owners, Changed, Overlap
  <2>7. StafflessNeedsARace'
    BY <1>8 DEF CountStaff, StafflessNeedsARace, Demoted, Overlap
  <2>8. OwnersAreNamed'
    BY <1>8 DEF CountStaff, OwnersAreNamed, Owners, Changed
  <2> QED BY <2>1, <2>2, <2>3, <2>4, <2>5, <2>6, <2>7, <2>8
<1>9. ASSUME NEW r \in Requests, DemoteWrite(r)
      PROVE  IInv'
  <2>1. TypeOK'
    BY <1>9 DEF DemoteWrite, TypeOK
  <2>2. BeforeHadEnded'
    BY <1>9 DEF DemoteWrite, BeforeHadEnded
  <2>3. AskShape'
    BY <1>9 DEF DemoteWrite, AskShape
  <2>4. ReadHolds'
    BY <1>9 DEF DemoteWrite, ReadHolds, Quiet, Changed, Owners
  <2>5. CountHolds'
    BY <1>9 DEF DemoteWrite, CountHolds, TypeOK, BeforeHadEnded, AskShape,
      QuietStaff, Demoted
  <2>6. OwnerlessNeedsARace'
    BY <1>9 DEF DemoteWrite, OwnerlessNeedsARace, Owners, Changed, Overlap
  <2>7. StafflessNeedsARace'
    BY <1>9 DEF DemoteWrite, StafflessNeedsARace, TypeOK, BeforeHadEnded,
      AskShape, CountHolds, Demoted, Overlap, QuietStaff
  <2>8. OwnersAreNamed'
    BY <1>9 DEF DemoteWrite, OwnersAreNamed, Owners, Changed
  <2> QED BY <2>1, <2>2, <2>3, <2>4, <2>5, <2>6, <2>7, <2>8
<1>10. ASSUME NEW u \in Users, Expire(u)
      PROVE  IInv'
  <2>1. TypeOK'
    BY <1>10 DEF Expire, TypeOK
  <2>2. BeforeHadEnded' /\ AskShape' /\ ReadHolds' /\ CountHolds' /\
       OwnerlessNeedsARace' /\ StafflessNeedsARace' /\ OwnersAreNamed'
    BY <1>10 DEF Expire, BeforeHadEnded, AskShape, ReadHolds, CountHolds,
      OwnerlessNeedsARace, StafflessNeedsARace, OwnersAreNamed, Quiet, Changed,
      Owners, QuietStaff, Demoted, Owners, Changed, Overlap, Demoted, Overlap,
      Owners, Changed
  <2> QED BY <2>1, <2>2
<1>11. ASSUME NEW u \in Users, Withdraw(u)
      PROVE  IInv'
  <2>1. TypeOK'
    BY <1>11 DEF Withdraw, Accepting, TypeOK
  <2>2. BeforeHadEnded' /\ AskShape' /\ ReadHolds' /\ CountHolds' /\
       OwnerlessNeedsARace' /\ StafflessNeedsARace' /\ OwnersAreNamed'
    BY <1>11 DEF Withdraw, Accepting, BeforeHadEnded, AskShape, ReadHolds,
      CountHolds, OwnerlessNeedsARace, StafflessNeedsARace, OwnersAreNamed,
      Quiet, Changed, Owners, QuietStaff, Demoted, Owners, Changed, Overlap,
      Demoted, Overlap, Owners, Changed
  <2> QED BY <2>1, <2>2
<1>12. ASSUME NEW u \in Users, Lapse(u)
      PROVE  IInv'
  <2>1. TypeOK'
    BY <1>12 DEF Lapse, TypeOK
  <2>2. BeforeHadEnded' /\ AskShape' /\ ReadHolds' /\ CountHolds' /\
       OwnerlessNeedsARace' /\ StafflessNeedsARace' /\ OwnersAreNamed'
    BY <1>12 DEF Lapse, BeforeHadEnded, AskShape, ReadHolds, CountHolds,
      OwnerlessNeedsARace, StafflessNeedsARace, OwnersAreNamed, Quiet, Changed,
      Owners, QuietStaff, Demoted, Owners, Changed, Overlap, Demoted, Overlap,
      Owners, Changed
  <2> QED BY <2>1, <2>2
<1>13. ASSUME NEW a \in Users, NEW u \in Users, Promote(a, u)
      PROVE  IInv'
  <2>1. TypeOK'
    BY <1>13 DEF Promote, TypeOK
  <2>2. CountHolds'
    BY <1>13 DEF Promote, CountHolds, QuietStaff, Demoted
  <2>3. StafflessNeedsARace'
    BY <1>13 DEF Promote, StafflessNeedsARace, Demoted, Overlap
  <2>4. BeforeHadEnded' /\ AskShape' /\ ReadHolds' /\ OwnerlessNeedsARace' /\
       OwnersAreNamed'
    BY <1>13 DEF Promote, BeforeHadEnded, AskShape, ReadHolds,
      OwnerlessNeedsARace, OwnersAreNamed, Quiet, Changed, Owners, Owners,
      Changed, Overlap, Owners, Changed
  <2> QED BY <2>1, <2>2, <2>3, <2>4
<1>14. ASSUME NEW a \in Users, NEW u \in Users, NEW g \in Ranks,
       InviteRead(a, u, g)
      PROVE  IInv'
  <2>1. TypeOK'
    BY <1>14 DEF InviteRead, TypeOK
  <2>2. BeforeHadEnded' /\ AskShape' /\ ReadHolds' /\ CountHolds' /\
       OwnerlessNeedsARace' /\ StafflessNeedsARace' /\ OwnersAreNamed'
    BY <1>14 DEF InviteRead, BeforeHadEnded, AskShape, ReadHolds, CountHolds,
      OwnerlessNeedsARace, StafflessNeedsARace, OwnersAreNamed, Quiet, Changed,
      Owners, QuietStaff, Demoted, Owners, Changed, Overlap, Demoted, Overlap,
      Owners, Changed
  <2> QED BY <2>1, <2>2
<1>15. ASSUME NEW u \in Users, NEW g \in Ranks, InviteWrite(u, g)
      PROVE  IInv'
  <2>1. TypeOK'
    BY <1>15 DEF InviteWrite, Accepting, TypeOK
  <2>2. BeforeHadEnded' /\ AskShape' /\ ReadHolds' /\ CountHolds' /\
       OwnerlessNeedsARace' /\ StafflessNeedsARace' /\ OwnersAreNamed'
    BY <1>15 DEF InviteWrite, Accepting, BeforeHadEnded, AskShape, ReadHolds,
      CountHolds, OwnerlessNeedsARace, StafflessNeedsARace, OwnersAreNamed,
      Quiet, Changed, Owners, QuietStaff, Demoted, Owners, Changed, Overlap,
      Demoted, Overlap, Owners, Changed
  <2> QED BY <2>1, <2>2
<1>16. CASE UNCHANGED vars
  BY <1>16 DEF vars, TypeOK, BeforeHadEnded, AskShape, ReadHolds, CountHolds,
     OwnerlessNeedsARace, StafflessNeedsARace, OwnersAreNamed, Quiet, Changed,
     Owners, QuietStaff, Demoted, Owners, Changed, Overlap, Demoted, Overlap,
     Owners, Changed
<1> QED BY <1>1, <1>2, <1>3, <1>4, <1>5, <1>6, <1>7, <1>8, <1>9, <1>10, <1>11,
     <1>12, <1>13, <1>14, <1>15, <1>16
     DEF Next, Asking, Going

LEMMA Initial == Init => IInv
<1> SUFFICES ASSUME Init PROVE IInv
  OBVIOUS
<1> USE MembersAssumption DEF Init
<1>1. TypeOK
  BY DEF TypeOK, Role, Invitable, Kind, Step
<1>2. BeforeHadEnded /\ AskShape /\ ReadHolds /\ CountHolds
  BY DEF BeforeHadEnded, AskShape, ReadHolds, CountHolds, Changes
<1>3. OwnerlessNeedsARace /\ StafflessNeedsARace /\ OwnersAreNamed
  BY DEF OwnerlessNeedsARace, StafflessNeedsARace, OwnersAreNamed, Owners
<1> QED BY <1>1, <1>2, <1>3 DEF IInv

LEMMA InvariantHolds == Spec => []IInv
<1>1. Init => IInv
  BY Initial
<1>2. IInv /\ [Next]_vars => IInv'
  BY Inductive
<1> QED BY <1>1, <1>2, PTL DEF Spec

-----------------------------------------------------------------------------
(* The invariants the run checks *)

\* Every variable keeps its type: nobody is invited to be an owner, and no
\* token claims a role that is not one.
THEOREM TypeCorrect == Spec => []TypeOK
<1>1. IInv => TypeOK
  BY DEF IInv
<1> QED BY <1>1, InvariantHolds, PTL

\* assertNotLastOwner is right about requests that do not overlap, whatever
\* their number, their order and the age of their tokens.
THEOREM OwnersTheorem == Spec => []OwnerlessNeedsARace
<1>1. IInv => OwnerlessNeedsARace
  BY DEF IInv
<1> QED BY <1>1, InvariantHolds, PTL

\* So is the count of the remaining Super Admins.
THEOREM StaffTheorem == Spec => []StafflessNeedsARace
<1>1. IInv => StafflessNeedsARace
  BY DEF IInv
<1> QED BY <1>1, InvariantHolds, PTL

\* No sequence of invitations, promotions and stale claims makes an owner whom
\* no owner's claim has named.
THEOREM NamedTheorem == Spec => []OwnersAreNamed
<1>1. IInv => OwnersAreNamed
  BY DEF IInv
<1> QED BY <1>1, InvariantHolds, PTL

-----------------------------------------------------------------------------
(* The tab: what holds of the tokens. *)

Busy(c) == call[c].at # "idle"
InSession(c) == Busy(c) /\ call[c].op \in SessionOps

\* Every token that was issued is for an organization of the user, and within a
\* family only the last one has not been rotated.
TokenShape ==
  /\ \A n \in 1..issued : token[n].org \in Orgs /\ token[n].fam \in 1..issued
  /\ \A m, n \in 1..issued : m < n /\ token[m].fam = token[n].fam => token[m].state = "rotated"

Fresh(n) == n \in 1..issued /\ token[n].state \in {"live", "ended"}

\* A token on its way to the browser is known to nobody else.
WayShape ==
  /\ other # 0 => Fresh(other) /\ other # cookie
  /\ \A c \in Calls :
       /\ call[c].tok <= issued
       /\ other # 0 => call[c].tok # other
       /\ Carries(c) => /\ Fresh(call[c].tok) /\ call[c].tok # cookie
                        /\ \A d \in Calls \ {c} : call[d].tok # call[c].tok

\* The organizations that requests are about.
OrgShape ==
  \A c \in Calls :
    /\ Busy(c) /\ call[c].op \in {"switch", "enter"} => call[c].org \in Orgs
    /\ call[c].at = "ok" /\ call[c].op # "logout" => call[c].org \in Orgs
    /\ call[c].at = "ok" /\ call[c].op \in {"login", "switch"} =>
         token[call[c].tok].org = call[c].org

-----------------------------------------------------------------------------
(* What holds of a tab that was not mixed up. *)

\* At the login nothing but the operations of the session is under way, and
\* only one of them at any time.
OneOperation ==
  /\ \A c \in Calls : me = Unknown /\ Busy(c) => call[c].op \in {"boot", "bootMe"}
  /\ ~mixed =>
       /\ \A c, d \in Calls : InSession(c) /\ Busy(d) /\ c # d =>
            call[d].op \in PageOps /\ me \in Orgs
       /\ \A c \in Calls : Busy(c) /\ call[c].op = "login" => me = Nobody

\* All requests present, or bring, tokens of the family of the cookie.
OneFamily ==
  ~mixed /\ me # Nobody => \A c \in Calls : Busy(c) /\ call[c].tok # 0 =>
    /\ cookie # 0 /\ token[call[c].tok].fam = token[cookie].fam
    /\ Carries(c) \/ call[c].tok <= cookie
    /\ call[c].at = "rotated" => token[call[c].tok].org = token[cookie].org

\* The tab acts for organization o, and goes on to do so after a refresh.
Agrees(o) ==
  /\ access # Nothing => access.org = o
  /\ ~banner /\ cookie # 0 => token[cookie].org = o

Loading(c) == Busy(c) /\ call[c].op \in {"me", "bootMe"}

ShownShape ==
  ~mixed =>
    /\ me \in Orgs /\ (\A c \in Calls : ~Loading(c)) => Agrees(me)
    /\ \A c \in Calls : Loading(c) /\ call[c].at = "sent" /\ call[c].acc # Nothing =>
         Agrees(call[c].acc.org)
    /\ \A c \in Calls : Loading(c) /\ call[c].at = "ok" => Agrees(call[c].org)

SessionInv ==
  /\ ClientTypeOK
  /\ TokenShape
  /\ WayShape
  /\ CookieIsLive
  /\ OrgShape
  /\ OneOperation
  /\ OneFamily
  /\ ShownShape

-----------------------------------------------------------------------------
(* What holds of the page. *)

\* News, and what a request has changed, are changes that there have been.
NewsShape ==
  /\ news # 0 => room \in Orgs /\ news <= inbox[room]
  /\ heard.org = Nothing => heard.ver = 0
  /\ heard.org \in Orgs => heard.ver <= inbox[heard.org]
  /\ \A c \in Calls : call[c].at = "ok" /\ call[c].op \in {"post", "act"} =>
       call[c].ver <= inbox[call[c].org]

\* The answer to a fetch that is not abandoned knows of what was heard before.
FetchShape ==
  \A c \in Calls :
    call[c].at = "ok" /\ call[c].op = "list" /\ call[c].org = heard.org /\ ~heard.early =>
      call[c].ver >= heard.ver

ListingNow(c) == Busy(c) /\ call[c].op = "list"

\* One fetch is not abandoned, and the query waits for it.
ListShape ==
  /\ \A c, d \in Calls : ListingNow(c) /\ ListingNow(d) => c = d
  /\ \A c \in Calls : ListingNow(c) => query.at = "fetch"

PostingNow(c) == Busy(c) /\ call[c].op = "post"

\* One request posts the text, and before it is served the text is not there.
PostShape ==
  /\ \A c, d \in Calls : PostingNow(c) /\ PostingNow(d) => c = d
  /\ \A c \in Calls : PostingNow(c) =>
       draft = "sending" /\ (call[c].at # "ok" => posted.times = 0 \/ posted.unsure)
  /\ draft = "text" => posted.times = 0 \/ posted.unsure

PageInv ==
  /\ NewsShape
  /\ FetchShape
  /\ ListShape
  /\ HeardIsShown
  /\ PostShape
  /\ PostedOnce

TabInv == TabTypeOK /\ SessionInv /\ PageInv

-----------------------------------------------------------------------------
(* Requests. *)

\* A step that changes one request.
LEMMA OneCall ==
  ASSUME ClientTypeOK, NEW c \in Calls, NEW k \in Call, call' = [call EXCEPT ![c] = k]
  PROVE  /\ call' \in [Calls -> Call] /\ call'[c] = k
         /\ \A d \in Calls \ {c} : call'[d] = call[d]
  BY DEF ClientTypeOK

LEMMA NoCallType == NoCall \in Call
  BY WebClientAssumption DEF NoCall, Call, SessionOps, CallAt

\* The fields of a request.
LEMMA CallFields ==
  ASSUME ClientTypeOK, NEW c \in Calls
  PROVE  /\ call[c] \in Call
         /\ call[c].op \in SessionOps \union PageOps
         /\ call[c].at \in CallAt
         /\ call[c].org \in Orgs \union {Nothing}
         /\ call[c].acc \in Access \union {Nothing}
         /\ call[c].tok \in 0..MaxTokens
         /\ call[c].again \in BOOLEAN
         /\ call[c].ver \in Nat
  BY DEF ClientTypeOK, Call

\* Tokens of which none is issued or rotated.
SameTokens ==
  \A n \in 1..issued : /\ token'[n].org = token[n].org /\ token'[n].fam = token[n].fam
                       /\ \/ token'[n].state = token[n].state
                          \/ token[n].state = "live" /\ token'[n].state = "ended"

\* If requests keep what they carry, or tell that it is lost, nothing goes wrong.
LEMMA TokensStay ==
  ASSUME SessionInv, call' \in [Calls -> Call],
         UNCHANGED <<issued, cookie, other>>, lost => lost',
         SameTokens,
         \A d \in Calls :
           /\ call'[d].tok \in {0, cookie, call[d].tok}
           /\ Carries(d)' => Carries(d) /\ call'[d].tok = call[d].tok
           /\ Carries(d) /\ ~lost' => Carries(d)'
  PROVE  TokenShape' /\ WayShape' /\ CookieIsLive'
<1> USE DEF SessionInv, SameTokens
<1>0. issued \in Nat /\ cookie \in 0..issued /\ other \in 0..issued
  BY WebClientAssumption DEF ClientTypeOK
<1>1. TokenShape'
  BY <1>0 DEF TokenShape
<1>2. \A n : Fresh(n) => Fresh(n)'
  BY DEF Fresh
<1>3. WayShape'
  <2>1. other' # 0 => Fresh(other)' /\ other' # cookie'
    BY <1>2 DEF WayShape
  <2>2. ASSUME NEW c \in Calls PROVE call'[c].tok <= issued' /\ (other' # 0 => call'[c].tok # other')
    BY <1>0, <2>2 DEF WayShape
  <2>3. ASSUME NEW c \in Calls, Carries(c)'
        PROVE  /\ Fresh(call[c].tok)' /\ call'[c].tok = call[c].tok /\ call'[c].tok # cookie'
               /\ \A d \in Calls \ {c} : call'[d].tok # call'[c].tok
    <3>1. Carries(c) /\ call'[c].tok = call[c].tok
      BY <2>3
    <3>2. Fresh(call[c].tok) /\ call[c].tok # cookie
      BY <3>1 DEF WayShape
    <3>3. call[c].tok # 0
      BY <1>0, <3>2 DEF Fresh
    <3>4. Fresh(call[c].tok)'
      BY <3>1, <3>2 DEF Fresh
    <3>5. ASSUME NEW d \in Calls \ {c} PROVE call'[d].tok # call'[c].tok
      <4>1. call[d].tok # call[c].tok
        BY <3>1 DEF WayShape
      <4> QED BY <3>1, <3>2, <3>3, <4>1
    <3> QED BY <3>1, <3>2, <3>4, <3>5
  <2> QED BY <2>1, <2>2, <2>3 DEF WayShape
<1>4. CookieIsLive'
  BY <1>0 DEF CookieIsLive, OnItsWay
<1> QED BY <1>1, <1>3, <1>4

-----------------------------------------------------------------------------
(* Steps of a kind. *)

\* Request c is answered, with k, and its answer carries no token.
LEMMA AnswerStep ==
  ASSUME SessionInv, ClientTypeOK', SameTokens, NEW c \in Calls, NEW k \in Call,
         call' = [call EXCEPT ![c] = k], Busy(c), ~Carries(c),
         k.op = call[c].op, k.tok = call[c].tok,
         k.op \in {"switch", "enter"} => k.org = call[c].org,
         \/ k.at \in {"unauthorized", "failed", "refused"}
         \/ /\ k.at = "ok" /\ k.op \notin {"login", "switch"}
            /\ k.op # "logout" => k.org \in Orgs
            /\ k.op \in {"me", "bootMe"} => /\ call[c].at = "sent" /\ call[c].acc # Nothing
                                            /\ k.org = call[c].acc.org,
         UNCHANGED <<issued, cookie, other, access, me, banner, lost, mixed>>
  PROVE  SessionInv'
<1> USE DEF SessionInv
<1>1. /\ call' \in [Calls -> Call] /\ call'[c] = k
      /\ \A d \in Calls \ {c} : call'[d] = call[d]
  BY OneCall
<1>2. ~Carries(c)' /\ \A d \in Calls \ {c} : Carries(d)' = Carries(d)
  BY <1>1 DEF Carries
<1>3. TokenShape' /\ WayShape' /\ CookieIsLive'
  <2>1. \A d \in Calls : /\ call'[d].tok = call[d].tok
                         /\ Carries(d)' => Carries(d)
                         /\ Carries(d) => Carries(d)'
    BY <1>1, <1>2
  <2> QED BY <1>1, <2>1, TokensStay
<1>4. OrgShape'
  <2>1. \A d \in Calls \ {c} : Carries(d) => call[d].tok \in 1..issued
    BY DEF WayShape, Fresh
  <2>2. \A d \in Calls \ {c} : call[d].at = "ok" /\ call[d].op \in {"login", "switch"} => Carries(d)
    BY DEF Carries
  <2> QED BY <1>1, <2>1, <2>2 DEF OrgShape, Busy, SameTokens
<1>5. OneOperation'
  BY <1>1 DEF OneOperation, InSession, Busy
<1>6. ASSUME cookie # 0
      PROVE  /\ token'[cookie].org = token[cookie].org
             /\ token'[cookie].fam = token[cookie].fam
  BY <1>6, WebClientAssumption DEF SameTokens, ClientTypeOK
<1>7. OneFamily'
  <2> SUFFICES ASSUME ~mixed, me # Nobody, NEW d \in Calls, Busy(d)', call'[d].tok # 0
               PROVE  /\ cookie # 0 /\ token'[call'[d].tok].fam = token'[cookie].fam
                      /\ Carries(d)' \/ call'[d].tok <= cookie
                      /\ call'[d].at = "rotated" => token'[call'[d].tok].org = token'[cookie].org
    BY DEF OneFamily
  <2>1. Busy(d) /\ call'[d].tok = call[d].tok
    BY <1>1 DEF Busy
  <2>2. /\ cookie # 0 /\ token[call[d].tok].fam = token[cookie].fam
        /\ Carries(d) \/ call[d].tok <= cookie
        /\ call[d].at = "rotated" => token[call[d].tok].org = token[cookie].org
    BY <2>1 DEF OneFamily
  <2>3. call[d].tok \in 1..issued
    BY <2>1, CallFields, WebClientAssumption DEF WayShape
  <2>4. call'[d].at = "rotated" => call[d].at = "rotated"
    BY <1>1
  <2> QED BY <1>2, <1>6, <2>1, <2>2, <2>3, <2>4 DEF SameTokens
<1>8. ShownShape'
  <2>1. \A o : Agrees(o) => Agrees(o)'
    BY <1>6 DEF Agrees
  <2>2. \A d \in Calls : Loading(d)' = Loading(d)
    BY <1>1 DEF Loading, Busy
  <2>3. \A d \in Calls : Loading(d)' /\ call'[d].at = "sent" /\ call'[d].acc # Nothing =>
                           call'[d] = call[d]
    BY <1>1
  <2>4. \A d \in Calls : Loading(d)' /\ call'[d].at = "ok" =>
           \/ call'[d] = call[d]
           \/ call[d].at = "sent" /\ call[d].acc # Nothing /\ call'[d].org = call[d].acc.org
    BY <1>1 DEF Loading, Busy
  <2> QED BY <2>1, <2>2, <2>3, <2>4 DEF ShownShape
<1> QED BY <1>3, <1>4, <1>5, <1>7, <1>8

\* Request c is over.  Its answer, if it carries a token, is lost.
LEMMA EndStep ==
  ASSUME SessionInv, ClientTypeOK', NEW c \in Calls,
         call' = [call EXCEPT ![c] = NoCall],
         Carries(c) \/ lost => lost', mixed => mixed',
         access' \in {access, Nothing}, UNCHANGED <<token, issued, cookie, other>>,
         \/ UNCHANGED <<me, banner>> /\ (Loading(c) => mixed' \/ me \notin Orgs)
         \/ Busy(c) /\ call[c].op \in SessionOps /\ me' = Nobody
  PROVE  SessionInv'
<1> USE WebClientAssumption DEF SessionInv
<1>1. /\ call' \in [Calls -> Call] /\ call'[c] = NoCall
      /\ \A d \in Calls \ {c} : call'[d] = call[d]
  BY OneCall, NoCallType
<1>2. ~Carries(c)' /\ ~Busy(c)' /\ \A d \in Calls \ {c} : Carries(d)' = Carries(d) /\ Busy(d)' = Busy(d)
  BY <1>1 DEF Carries, Busy, NoCall
<1>3. TokenShape' /\ WayShape' /\ CookieIsLive'
  <2>1. \A d \in Calls : /\ call'[d].tok \in {0, cookie, call[d].tok}
                         /\ Carries(d)' => Carries(d) /\ call'[d].tok = call[d].tok
                         /\ Carries(d) /\ ~lost' => Carries(d)'
    BY <1>1, <1>2 DEF NoCall
  <2>2. SameTokens
    BY DEF SameTokens
  <2> QED BY <1>1, <2>1, <2>2, TokensStay
<1>4. OrgShape'
  BY <1>1, <1>2 DEF OrgShape, NoCall, Busy
<1>5. ASSUME ~mixed', Busy(c), call[c].op \in SessionOps, NEW d \in Calls, Busy(d)'
      PROVE  call[d].op \in PageOps /\ ~InSession(d)' /\ me \in Orgs
  <2>1. d # c /\ Busy(d) /\ call'[d] = call[d]
    BY <1>1, <1>2, <1>5
  <2>2. InSession(c) /\ ~mixed
    BY <1>5 DEF InSession
  <2>3. call[d].op \in PageOps /\ me \in Orgs
    BY <2>1, <2>2 DEF OneOperation
  <2> QED BY <2>1, <2>3 DEF InSession, PageOps, SessionOps
<1>6. OneOperation'
  <2>1. CASE UNCHANGED me
    BY <1>1, <1>2, <2>1 DEF OneOperation, InSession
  <2>2. CASE Busy(c) /\ call[c].op \in SessionOps /\ me' = Nobody
    BY <1>1, <1>2, <1>5, <2>2 DEF OneOperation, InSession, PageOps
  <2> QED BY <2>1, <2>2
<1>7. OneFamily'
  BY <1>1, <1>2 DEF OneFamily
<1>8. ShownShape'
  <2> SUFFICES ASSUME ~mixed' PROVE ShownShape'
    BY DEF ShownShape
  <2>1. CASE UNCHANGED <<me, banner>> /\ (Loading(c) => mixed' \/ me \notin Orgs)
    <3>1. \A o : Agrees(o) => Agrees(o)'
      BY <2>1 DEF Agrees
    <3>2. \A d \in Calls : Loading(d)' => Loading(d) /\ call'[d] = call[d]
      BY <1>1, <1>2 DEF Loading
    <3>3. me' \in Orgs /\ (\A d \in Calls : ~Loading(d)') => me \in Orgs /\ \A d \in Calls : ~Loading(d)
      BY <1>1, <1>2, <2>1 DEF Loading
    <3> QED BY <2>1, <3>1, <3>2, <3>3 DEF ShownShape
  <2>2. CASE Busy(c) /\ call[c].op \in SessionOps /\ me' = Nobody
    <3>1. \A d \in Calls : ~Loading(d)'
      BY <1>1, <1>2, <1>5, <2>2 DEF Loading, PageOps
    <3> QED BY <2>2, <3>1 DEF ShownShape
  <2> QED BY <2>1, <2>2
<1> QED BY <1>3, <1>4, <1>6, <1>7, <1>8

\* Request c begins, with the cookie there is; fetches may be abandoned for it.
LEMMA BeginFrame ==
  ASSUME SessionInv, ClientTypeOK', NEW c \in Calls,
         NEW k \in Call, call'[c] = k, k.tok = cookie, k.at \in {"sent", "refreshing"},
         \A d \in Calls \ {c} : \/ call'[d] = call[d]
                                \/ /\ call[d].op \in PageOps /\ Busy(d)
                                   /\ call'[d] = [call[d] EXCEPT !.op = "ignored"],
         mixed => mixed', UNCHANGED <<sessionVars, lost>>,
         ~Busy(c) \/ (call[c].op \in PageOps /\ call[c].at = "ok"),
         k.op \notin {"me", "bootMe"},
         k.op \in {"switch", "enter"} => k.org \in Orgs
  PROVE  /\ TokenShape' /\ WayShape' /\ CookieIsLive' /\ OrgShape' /\ OneFamily' /\ ShownShape'
         /\ Busy(c)'
         /\ \A d \in Calls \ {c} : /\ Busy(d)' = Busy(d)
                                   /\ InSession(d)' = InSession(d)
                                   /\ (call'[d].op \in PageOps) = (call[d].op \in PageOps)
                                   /\ call'[d].op \notin PageOps => call'[d].op = call[d].op
<1> USE WebClientAssumption DEF SessionInv, sessionVars
<1>1. call' \in [Calls -> Call]
  BY DEF ClientTypeOK
<1>2. /\ ~Carries(c) /\ ~Carries(c)' /\ Busy(c)' /\ call'[c].at \notin {"ok", "idle"}
      /\ \A d \in Calls \ {c} : /\ call'[d].at = call[d].at /\ call'[d].tok = call[d].tok
                                /\ call'[d].acc = call[d].acc /\ call'[d].org = call[d].org
                                /\ \/ call'[d].op = call[d].op
                                   \/ call[d].op \in PageOps /\ call'[d].op = "ignored"
  <2>1. call[c].at \in {"idle", "ok"} /\ (call[c].at = "ok" => call[c].op \in PageOps)
    BY DEF Busy
  <2>2. ~Carries(c) /\ ~Carries(c)' /\ Busy(c)' /\ call'[c].at \notin {"ok", "idle"}
    BY <2>1 DEF Carries, Busy, PageOps
  <2>3. ASSUME NEW d \in Calls \ {c}
        PROVE  /\ call'[d].at = call[d].at /\ call'[d].tok = call[d].tok
               /\ call'[d].acc = call[d].acc /\ call'[d].org = call[d].org
               /\ \/ call'[d].op = call[d].op
                  \/ call[d].op \in PageOps /\ call'[d].op = "ignored"
    <3>1. call[d] \in Call
      BY CallFields
    <3>2. CASE call'[d] = call[d]
      BY <3>2
    <3>3. CASE call[d].op \in PageOps /\ call'[d] = [call[d] EXCEPT !.op = "ignored"]
      BY <3>1, <3>3 DEF Call
    <3> QED BY <3>2, <3>3
  <2> QED BY <2>2, <2>3
<1>3. \A d \in Calls \ {c} : Carries(d)' = Carries(d) /\ Busy(d)' = Busy(d)
  BY <1>2 DEF Carries, Busy, PageOps
<1>4. TokenShape' /\ WayShape' /\ CookieIsLive'
  <2>1. \A d \in Calls : /\ call'[d].tok \in {0, cookie, call[d].tok}
                         /\ Carries(d)' => Carries(d) /\ call'[d].tok = call[d].tok
                         /\ Carries(d) => Carries(d)'
    BY <1>2, <1>3
  <2>2. SameTokens
    BY DEF SameTokens
  <2> QED BY <1>1, <2>1, <2>2, TokensStay
<1>5. OrgShape'
  BY <1>2, <1>3 DEF OrgShape, PageOps
<1>6. OneFamily'
  <2> SUFFICES ASSUME ~mixed', me # Nobody, NEW d \in Calls, Busy(d)', call'[d].tok # 0
               PROVE  /\ cookie # 0 /\ token[call'[d].tok].fam = token[cookie].fam
                      /\ Carries(d)' \/ call'[d].tok <= cookie
                      /\ call'[d].at = "rotated" => token[call'[d].tok].org = token[cookie].org
    BY DEF OneFamily
  <2>1. CASE d = c
    BY <1>2, <2>1 DEF ClientTypeOK
  <2>2. CASE d # c
    BY <1>2, <1>3, <2>2 DEF OneFamily
  <2> QED BY <2>1, <2>2
<1>7. ShownShape'
  <2>1. \A o : Agrees(o) => Agrees(o)'
    BY DEF Agrees
  <2>2. ~Loading(c)' /\ \A d \in Calls \ {c} : Loading(d)' = Loading(d)
    BY <1>2, <1>3 DEF Loading, PageOps
  <2>3. ~Loading(c)
    BY DEF Loading, Busy, PageOps
  <2> QED BY <1>2, <2>1, <2>2, <2>3 DEF ShownShape
<1>8. ASSUME NEW d \in Calls \ {c}
      PROVE  /\ Busy(d)' = Busy(d)
             /\ InSession(d)' = InSession(d)
             /\ (call'[d].op \in PageOps) = (call[d].op \in PageOps)
             /\ call'[d].op \notin PageOps => call'[d].op = call[d].op
  BY <1>2, <1>3 DEF InSession, PageOps, SessionOps
<1> QED BY <1>2, <1>4, <1>5, <1>6, <1>7, <1>8

\* A request of the page begins.
LEMMA BeginPage ==
  ASSUME SessionInv, ClientTypeOK', NEW c \in Calls,
         NEW k \in Call, call'[c] = k, k.tok = cookie, k.at \in {"sent", "refreshing"},
         \A d \in Calls \ {c} : \/ call'[d] = call[d]
                                \/ /\ call[d].op \in PageOps /\ Busy(d)
                                   /\ call'[d] = [call[d] EXCEPT !.op = "ignored"],
         UNCHANGED <<sessionVars, lost, mixed>>, k.op \in PageOps,
         (me \in Orgs /\ ~Busy(c)) \/ (call[c].op \in PageOps /\ call[c].at = "ok")
  PROVE  SessionInv'
<1>1. UNCHANGED <<sessionVars, lost>> /\ (mixed => mixed') /\ UNCHANGED <<me, mixed>>
  BY DEF sessionVars
<1>2. k.op \notin {"me", "bootMe", "switch", "enter", "login"}
  BY DEF PageOps
<1>3. ~Busy(c) \/ (call[c].op \in PageOps /\ call[c].at = "ok")
  OBVIOUS
<1>4. /\ TokenShape' /\ WayShape' /\ CookieIsLive' /\ OrgShape' /\ OneFamily' /\ ShownShape'
      /\ Busy(c)'
      /\ \A d \in Calls \ {c} : /\ Busy(d)' = Busy(d)
                                /\ InSession(d)' = InSession(d)
                                /\ (call'[d].op \in PageOps) = (call[d].op \in PageOps)
                                /\ call'[d].op \notin PageOps => call'[d].op = call[d].op
  BY <1>1, <1>2, <1>3, BeginFrame
<1>5. OneOperation'
  <2>1. ~InSession(c)' /\ call'[c].op \in PageOps
    BY DEF InSession, PageOps, SessionOps
  <2>2. me # Unknown
    <3>1. call[c].op \in PageOps /\ call[c].at = "ok" => call[c].op \notin {"boot", "bootMe"} /\ Busy(c)
      BY DEF PageOps, Busy
    <3> QED BY <3>1, WebClientAssumption DEF OneOperation, SessionInv
  <2>3. ASSUME ~mixed, NEW d \in Calls, InSession(d)' PROVE me \in Orgs
    <3>1. d # c /\ InSession(d)
      BY <1>4, <2>1, <2>3 DEF InSession, Busy
    <3>2. call[c].at = "ok" => Busy(c)
      BY DEF Busy
    <3> QED BY <2>3, <3>1, <3>2 DEF OneOperation, SessionInv
  <2>4. ASSUME ~mixed, NEW d \in Calls, NEW e \in Calls, InSession(d)', Busy(e)', d # e
        PROVE  call'[e].op \in PageOps
    <3>1. d # c /\ InSession(d)
      BY <1>4, <2>1, <2>4 DEF InSession, Busy
    <3>2. CASE e = c
      BY <2>1, <3>2
    <3>3. CASE e # c
      BY <1>4, <2>4, <3>1, <3>3 DEF OneOperation, SessionInv, InSession, Busy
    <3> QED BY <3>2, <3>3
  <2>5. ASSUME ~mixed, NEW d \in Calls, Busy(d)', call'[d].op = "login" PROVE me = Nobody
    <3>1. d # c /\ call'[d].op \notin PageOps
      BY <2>1, <2>5 DEF PageOps
    <3> QED BY <1>4, <2>5, <3>1 DEF OneOperation, SessionInv, Busy
  <2> QED BY <1>1, <2>2, <2>3, <2>4, <2>5 DEF OneOperation
<1> QED BY <1>4, <1>5 DEF SessionInv

\* An operation of the session begins, alone unless the tab is mixed up.
LEMMA BeginSession ==
  ASSUME SessionInv, ClientTypeOK', NEW c \in Calls,
         NEW k \in Call, call'[c] = k, k.tok = cookie, k.at \in {"sent", "refreshing"},
         \A d \in Calls \ {c} : \/ call'[d] = call[d]
                                \/ /\ call[d].op \in PageOps /\ Busy(d)
                                   /\ call'[d] = [call[d] EXCEPT !.op = "ignored"],
         mixed => mixed', UNCHANGED <<sessionVars, lost>>, ~Busy(c),
         \/ /\ k.op = "boot" /\ me = Unknown /\ \A d \in Calls : ~Busy(d)
         \/ /\ k.op = "login" /\ me = Nobody /\ \A d \in Calls : Busy(d) => mixed'
         \/ /\ k.op \in {"switch", "enter", "leave", "logout"} /\ me \in Orgs
            /\ k.op \in {"switch", "enter"} => k.org \in Orgs
            /\ \A d \in Calls : InSession(d) => mixed'
  PROVE  SessionInv'
<1>1. k.op \in SessionOps /\ k.op \notin PageOps /\ k.op \notin {"me", "bootMe"}
      /\ (k.op \in {"switch", "enter"} => k.org \in Orgs)
  BY DEF PageOps, SessionOps
<1>2. /\ TokenShape' /\ WayShape' /\ CookieIsLive' /\ OrgShape' /\ OneFamily' /\ ShownShape'
      /\ Busy(c)'
      /\ \A d \in Calls \ {c} : /\ Busy(d)' = Busy(d)
                                /\ InSession(d)' = InSession(d)
                                /\ (call'[d].op \in PageOps) = (call[d].op \in PageOps)
                                /\ call'[d].op \notin PageOps => call'[d].op = call[d].op
  BY <1>1, BeginFrame
<1>3. OneOperation'
  <2>1. \A d \in Calls : Busy(d) => call[d].op \in PageOps \/ InSession(d)
    BY CallFields DEF InSession, SessionInv
  <2>2. ASSUME ~mixed', NEW d \in Calls \ {c}, Busy(d)' PROVE call'[d].op \in PageOps /\ me \in Orgs
    BY <1>2, <2>1, <2>2 DEF InSession, Busy
  <2>3. me = Unknown => k.op = "boot" /\ \A d \in Calls : ~Busy(d)
    BY WebClientAssumption
  <2>4. k.op = "login" => me = Nobody
    BY WebClientAssumption
  <2>5. \A d \in Calls : InSession(d)' \/ call'[d].op = "login" => call'[d].op \notin PageOps
    BY DEF InSession, PageOps, SessionOps
  <2>6. me' = me
    BY DEF sessionVars
  <2>7. ASSUME ~mixed', NEW d \in Calls, NEW e \in Calls, InSession(d)', Busy(e)', d # e
        PROVE  call'[e].op \in PageOps /\ me \in Orgs
    <3>1. Busy(d)' /\ call'[d].op \notin PageOps
      BY <2>5, <2>7 DEF InSession
    <3>2. d = c
      BY <2>2, <2>7, <3>1
    <3> QED BY <2>2, <2>7, <3>2
  <2>8. ASSUME ~mixed', NEW d \in Calls, Busy(d)', call'[d].op = "login" PROVE me = Nobody
    BY <2>2, <2>4, <2>5, <2>8
  <2> QED BY <1>2, <2>3, <2>6, <2>7, <2>8 DEF OneOperation, InSession, Busy
<1> QED BY <1>2, <1>3 DEF SessionInv

\* Without _retried: the token that is in the cookie now is presented.
LEMMA RefreshFirstStep ==
  ASSUME SessionInv, NEW c \in Calls, RefreshFirst(c) PROVE SessionInv' /\ ClientTypeOK'
<1> USE WebClientAssumption DEF SessionInv, sessionVars
<1> DEFINE k == [call[c] EXCEPT !.at = "refreshing", !.tok = cookie]
<1>1. k \in Call /\ k.op = call[c].op /\ k.tok = cookie /\ k.at = "refreshing" /\ k.org = call[c].org
  <2>1. call[c] \in Call /\ cookie \in 0..MaxTokens
    BY CallFields DEF ClientTypeOK
  <2> QED BY <2>1 DEF Call, CallAt
<1>2. call' = [call EXCEPT ![c] = k] /\ call[c].at = "unauthorized"
  BY DEF RefreshFirst, ClientTypeOK
<1>3. UNCHANGED <<token, issued, cookie, other, access, me, banner, left, lost, mixed>>
  BY DEF RefreshFirst
<1> HIDE DEF k
<1>4. /\ call' \in [Calls -> Call] /\ call'[c] = k
      /\ \A d \in Calls \ {c} : call'[d] = call[d]
  BY <1>1, <1>2, OneCall
<1>5. ClientTypeOK'
  BY <1>3, <1>4 DEF ClientTypeOK
<1>6. /\ ~Carries(c) /\ ~Carries(c)' /\ Busy(c)' /\ Busy(c)
      /\ \A d \in Calls \ {c} : Carries(d)' = Carries(d)
      /\ \A d \in Calls : /\ Busy(d)' = Busy(d) /\ InSession(d)' = InSession(d)
                          /\ Loading(d)' = Loading(d) /\ call'[d].op = call[d].op
  BY <1>1, <1>2, <1>4 DEF Carries, Busy, InSession, Loading
<1>7. TokenShape' /\ WayShape' /\ CookieIsLive'
  <2>1. \A d \in Calls : /\ call'[d].tok \in {0, cookie, call[d].tok}
                         /\ Carries(d)' => Carries(d) /\ call'[d].tok = call[d].tok
                         /\ Carries(d) => Carries(d)'
    BY <1>1, <1>4, <1>6
  <2>2. SameTokens
    BY <1>3 DEF SameTokens
  <2> QED BY <1>3, <1>4, <2>1, <2>2, TokensStay
<1>8. OrgShape' /\ OneOperation'
  BY <1>1, <1>3, <1>4, <1>6 DEF OrgShape, OneOperation
<1>9. OneFamily' /\ ShownShape'
  <2>1. \A o : Agrees(o) => Agrees(o)'
    BY <1>3 DEF Agrees
  <2>2. ShownShape'
    BY <1>1, <1>3, <1>4, <1>6, <2>1 DEF ShownShape
  <2>3. OneFamily'
    BY <1>1, <1>3, <1>4, <1>6 DEF OneFamily, ClientTypeOK
  <2> QED BY <2>2, <2>3
<1> QED BY <1>5, <1>7, <1>8, <1>9

-----------------------------------------------------------------------------
(* Steps that issue a token. *)

TokenType ==
  /\ token \in [Numbers -> [org : Orgs \union {Nothing}, fam : 0..MaxTokens,
                            state : {"free", "live", "rotated", "ended"}]]
  /\ issued \in 0..MaxTokens
  /\ \A n \in Numbers : (token[n].state = "free") = (n > issued)

\* A token for organization o is issued, for token n or, if that is 0, for none.
NewToken(n, o) ==
  /\ issued' = issued + 1 /\ issued' \in Numbers
  /\ token'[issued'].org = o /\ token'[issued'].state = "live"
  /\ n # 0 => token'[issued'].fam = token[n].fam
  /\ \A m \in 1..issued : /\ token'[m].org = token[m].org /\ token'[m].fam = token[m].fam
                          /\ m # n => token'[m].state = token[m].state

LEMMA IssueToken ==
  ASSUME ClientTypeOK, TokenShape, NEW o \in Orgs, Issue(o)
  PROVE  NewToken(0, o) /\ TokenShape' /\ TokenType'
<1> USE WebClientAssumption
<1> DEFINE r == [org |-> o, fam |-> issued + 1, state |-> "live"]
<1>1. issued \in Nat /\ issued + 1 \in Numbers /\ issued' = issued + 1
  BY DEF Issue, ClientTypeOK, Numbers
<1>2. /\ token'[issued + 1] = r
      /\ \A m \in Numbers \ {issued + 1} : token'[m] = token[m]
  BY <1>1 DEF Issue, ClientTypeOK
<1>3. token' = [token EXCEPT ![issued + 1] = r]
  BY DEF Issue
<1>4. r \in [org : Orgs \union {Nothing}, fam : 0..MaxTokens,
             state : {"free", "live", "rotated", "ended"}]
  BY <1>1 DEF Numbers
<1> HIDE DEF r
<1>5. token' \in [Numbers -> [org : Orgs \union {Nothing}, fam : 0..MaxTokens,
                              state : {"free", "live", "rotated", "ended"}]]
  BY <1>3, <1>4 DEF ClientTypeOK
<1>6. r.org = o /\ r.fam = issued + 1 /\ r.state = "live"
  BY DEF r
<1>7. TokenType'
  BY <1>1, <1>2, <1>5, <1>6 DEF TokenType, ClientTypeOK, Numbers
<1>8. \A m \in 1..issued : token'[m] = token[m]
  BY <1>1, <1>2 DEF Numbers
<1>9. NewToken(0, o)
  BY <1>1, <1>2, <1>6, <1>8 DEF NewToken
<1>10. TokenShape'
  <2>1. \A m \in 1..issued' : m = issued + 1 \/ m \in 1..issued
    BY <1>1
  <2>2. \A m \in 1..issued' : token'[m].org \in Orgs /\ token'[m].fam \in 1..issued'
    BY <1>1, <1>2, <1>6, <1>8, <2>1 DEF TokenShape
  <2>3. ASSUME NEW m \in 1..issued', NEW n \in 1..issued', m < n, token'[m].fam = token'[n].fam
        PROVE  token'[m].state = "rotated"
    <3>1. m \in 1..issued
      BY <1>1, <2>1, <2>3
    <3>2. token'[m].fam \in 1..issued
      BY <1>8, <3>1 DEF TokenShape
    <3>3. n # issued + 1
      BY <1>1, <1>2, <1>6, <2>3, <3>2
    <3> QED BY <1>8, <2>1, <2>3, <3>1, <3>3 DEF TokenShape
  <2> QED BY <2>2, <2>3 DEF TokenShape
<1> QED BY <1>7, <1>9, <1>10

LEMMA RotateToken ==
  ASSUME ClientTypeOK, TokenShape, NEW o \in Orgs, NEW n \in 1..issued,
         token[n].state = "live", Rotate(n, o)
  PROVE  NewToken(n, o) /\ TokenShape' /\ TokenType'
<1> USE WebClientAssumption
<1> DEFINE R == [org : Orgs \union {Nothing}, fam : 0..MaxTokens,
                 state : {"free", "live", "rotated", "ended"}]
           q == [token[n] EXCEPT !.state = "rotated"]
           r == [org |-> o, fam |-> token[n].fam, state |-> "live"]
<1>1. issued \in Nat /\ issued + 1 \in Numbers /\ issued' = issued + 1 /\ n \in Numbers
      /\ n # issued + 1
  BY DEF Rotate, ClientTypeOK, Numbers
<1>2. token[n] \in R /\ token \in [Numbers -> R]
  BY <1>1 DEF ClientTypeOK
<1>3. token' = [[token EXCEPT ![n] = q] EXCEPT ![issued + 1] = r]
  BY <1>1, <1>2 DEF Rotate
<1>4. q \in R /\ r \in R /\ q.org = token[n].org /\ q.fam = token[n].fam /\ q.state = "rotated"
      /\ r.org = o /\ r.fam = token[n].fam /\ r.state = "live"
  BY <1>2
<1> HIDE DEF R, q, r
<1>5. /\ token' \in [Numbers -> R]
      /\ token'[issued + 1] = r /\ token'[n] = q
      /\ \A m \in Numbers \ {n, issued + 1} : token'[m] = token[m]
  BY <1>1, <1>2, <1>3, <1>4
<1>6. \A m \in 1..issued : /\ token'[m].org = token[m].org /\ token'[m].fam = token[m].fam
                           /\ m # n => token'[m].state = token[m].state
  BY <1>1, <1>4, <1>5 DEF Numbers
<1>7. NewToken(n, o)
  BY <1>1, <1>4, <1>5, <1>6 DEF NewToken
<1>8. TokenType'
  <2>1. ASSUME NEW m \in Numbers PROVE (token'[m].state = "free") = (m > issued')
    <3>1. (token[m].state = "free") = (m > issued) /\ (token[n].state = "free") = (n > issued)
      BY <1>1 DEF ClientTypeOK
    <3> QED BY <1>1, <1>4, <1>5, <3>1 DEF Numbers
  <2>2. issued' \in 0..MaxTokens
    BY <1>1 DEF Numbers
  <2> QED BY <1>5, <2>1, <2>2 DEF TokenType, R
<1>9. TokenShape'
  <2>1. \A m \in 1..issued' : m = issued + 1 \/ m \in 1..issued
    BY <1>1
  <2>2. \A m \in 1..issued' : token'[m].org \in Orgs /\ token'[m].fam \in 1..issued'
    BY <1>1, <1>4, <1>5, <1>6, <2>1 DEF TokenShape
  <2>3. ASSUME NEW m \in 1..issued', NEW p \in 1..issued', m < p, token'[m].fam = token'[p].fam
        PROVE  token'[m].state = "rotated"
    <3>1. m \in 1..issued /\ m \in Nat /\ p \in Nat /\ n \in Nat
      BY <1>1, <2>1, <2>3
    <3>2. CASE m = n
      BY <1>4, <1>5, <3>2
    <3>3. CASE m # n /\ p = issued + 1
      <4>1. token[m].fam = token[n].fam
        BY <1>4, <1>5, <1>6, <2>3, <3>1, <3>3
      <4>2. token[m].state = "rotated"
        BY <3>1, <3>3, <4>1 DEF TokenShape
      <4> QED BY <1>6, <3>1, <3>3, <4>2
    <3>4. CASE m # n /\ p # issued + 1
      <4>1. p \in 1..issued
        BY <2>1, <3>4
      <4>2. token[m].state = "rotated"
        BY <1>6, <2>3, <3>1, <4>1 DEF TokenShape
      <4> QED BY <1>6, <3>1, <3>4, <4>2
    <3> QED BY <3>2, <3>3, <3>4
  <2> QED BY <2>2, <2>3 DEF TokenShape
<1> QED BY <1>7, <1>8, <1>9

\* The answer to request c brings a token that was issued for it.
LEMMA CarryStep ==
  ASSUME SessionInv, ClientTypeOK', TokenShape', NEW c \in Calls, Busy(c), ~Carries(c),
         NEW n \in 0..issued, NEW o \in Orgs, NewToken(n, o),
         n # 0 => n = call[c].tok /\ token[n].state = "live",
         NEW k \in Call, call' = [call EXCEPT ![c] = k], k.op = call[c].op, k.tok = issued',
         \/ k.at = "rotated" /\ n # 0 /\ o = token[n].org /\ k.org = call[c].org
         \/ k.at = "ok" /\ k.op = "switch" /\ n # 0 /\ k.org = o
         \/ k.at = "ok" /\ k.op = "login" /\ n = 0 /\ k.org = o,
         UNCHANGED <<cookie, other, access, me, banner, lost, mixed>>
  PROVE  SessionInv'
<1> USE WebClientAssumption DEF SessionInv
<1>0. issued \in Nat /\ cookie \in 0..issued /\ other \in 0..issued /\ issued' = issued + 1
      /\ issued' \in 1..issued' /\ ~(issued' \in 0..issued)
  BY DEF ClientTypeOK, NewToken, Numbers
<1>1. /\ call' \in [Calls -> Call] /\ call'[c] = k
      /\ \A d \in Calls \ {c} : call'[d] = call[d]
  BY OneCall
<1>2. Carries(c)' /\ Busy(c)' /\ \A d \in Calls \ {c} : Carries(d)' = Carries(d) /\ Busy(d)' = Busy(d)
  BY <1>1 DEF Carries, Busy
<1>3. \A m : Fresh(m) /\ m # n => Fresh(m)'
  BY <1>0 DEF Fresh, NewToken
<1>4. token'[issued'].state = "live" /\ token'[issued'].org = o
  BY DEF NewToken
<1>5. \A d \in Calls : call[d].tok <= issued /\ call[d].tok \in 0..issued
  BY CallFields, <1>0 DEF WayShape
<1>6. WayShape'
  <2>1. other' # 0 => Fresh(other)' /\ other' # cookie'
    BY <1>0, <1>3 DEF WayShape
  <2>2. ASSUME NEW d \in Calls PROVE call'[d].tok <= issued' /\ (other' # 0 => call'[d].tok # other')
    BY <1>0, <1>1, <1>5 DEF WayShape
  <2>3. ASSUME NEW d \in Calls, Carries(d)'
        PROVE  /\ Fresh(call[d].tok)' /\ call'[d].tok # cookie'
               /\ \A e \in Calls \ {d} : call'[e].tok # call'[d].tok
    <3>1. CASE d = c
      <4>1. Fresh(call[d].tok)'
        BY <1>0, <1>1, <1>4, <3>1 DEF Fresh
      <4>2. \A e \in Calls \ {c} : call'[e].tok # call'[c].tok
        BY <1>0, <1>1, <1>5
      <4> QED BY <1>0, <1>1, <3>1, <4>1, <4>2
    <3>2. CASE d # c
      <4>1. Carries(d) /\ call'[d] = call[d]
        BY <1>1, <1>2, <2>3, <3>2
      <4>2. /\ Fresh(call[d].tok) /\ call[d].tok # cookie
            /\ \A e \in Calls \ {d} : call[e].tok # call[d].tok
        BY <4>1 DEF WayShape
      <4>3. call[d].tok # 0 /\ call[d].tok # n
        BY <1>0, <3>2, <4>2 DEF Fresh
      <4>4. Fresh(call[d].tok)'
        <5>1. Fresh(call[d].tok) /\ call[d].tok \in 1..issued
          BY <4>2 DEF Fresh
        <5>2. token'[call[d].tok].state = token[call[d].tok].state
          BY <4>3, <5>1 DEF NewToken
        <5> QED BY <1>0, <4>1, <5>1, <5>2 DEF Fresh
      <4> QED BY <1>0, <1>1, <1>5, <4>1, <4>2, <4>4
    <3> QED BY <3>1, <3>2
  <2> QED BY <2>1, <2>2, <2>3 DEF WayShape
<1>7. CookieIsLive'
  BY <1>2 DEF CookieIsLive, OnItsWay
<1>8. OrgShape'
  <2>1. ASSUME NEW d \in Calls, call[d].at = "ok", call[d].op \in {"login", "switch"}
        PROVE  call[d].tok \in 1..issued
    BY <2>1 DEF WayShape, Fresh, Carries
  <2>2. ASSUME NEW d \in Calls \ {c}
        PROVE  /\ Busy(d)' /\ call'[d].op \in {"switch", "enter"} => call'[d].org \in Orgs
               /\ call'[d].at = "ok" /\ call'[d].op # "logout" => call'[d].org \in Orgs
               /\ call'[d].at = "ok" /\ call'[d].op \in {"login", "switch"} =>
                    token'[call'[d].tok].org = call'[d].org
    BY <1>1, <1>2, <2>1 DEF OrgShape, NewToken
  <2>3. call[c].op \in {"switch", "enter"} => call[c].org \in Orgs
    BY DEF OrgShape
  <2> QED BY <1>1, <1>4, <2>2, <2>3 DEF OrgShape
<1>9. OneOperation'
  BY <1>1, <1>2 DEF OneOperation, InSession
<1>10. cookie # 0 => token'[cookie].org = token[cookie].org /\ token'[cookie].fam = token[cookie].fam
  BY <1>0 DEF NewToken
<1>11. OneFamily'
  <2> SUFFICES ASSUME ~mixed, me # Nobody, NEW d \in Calls, Busy(d)', call'[d].tok # 0
               PROVE  /\ cookie # 0 /\ token'[call'[d].tok].fam = token'[cookie].fam
                      /\ Carries(d)' \/ call'[d].tok <= cookie
                      /\ call'[d].at = "rotated" => token'[call'[d].tok].org = token'[cookie].org
    BY DEF OneFamily
  <2>1. CASE d = c
    <3>1. call[c].op # "login"
      BY DEF OneOperation
    <3>2. n # 0 /\ n = call[c].tok /\ token[n].state = "live" /\ n \in 1..issued
      BY <1>0, <1>1, <3>1
    <3>3. cookie # 0 /\ token[n].fam = token[cookie].fam /\ n <= cookie
      BY <3>2 DEF OneFamily
    <3>4. n = cookie
      BY <1>0, <3>2, <3>3 DEF TokenShape
    <3> QED BY <1>1, <1>2, <1>4, <1>10, <2>1, <3>2, <3>3, <3>4 DEF NewToken
  <2>2. CASE d # c
    <3>1. Busy(d) /\ call'[d] = call[d] /\ call[d].tok \in 1..issued
      BY <1>0, <1>1, <1>2, <1>5, <2>2
    <3> QED BY <1>2, <1>10, <2>2, <3>1 DEF OneFamily, NewToken
  <2> QED BY <2>1, <2>2
<1>12. ShownShape'
  <2>1. \A x : Agrees(x) => Agrees(x)'
    BY <1>10 DEF Agrees
  <2>2. \A d \in Calls : Loading(d)' = Loading(d)
    BY <1>1, <1>2 DEF Loading
  <2>3. \A d \in Calls : Loading(d)' /\ call'[d].at \in {"sent", "ok"} => call'[d] = call[d]
    BY <1>1 DEF Loading
  <2> QED BY <2>1, <2>2, <2>3 DEF ShownShape
<1> QED BY <1>6, <1>7, <1>8, <1>9, <1>11, <1>12

-----------------------------------------------------------------------------
(* Answers that bring a token. *)

\* Request c goes on as k once the token that its answer brought is the cookie.
LEMMA CookieStep ==
  ASSUME SessionInv, NEW c \in Calls, Carries(c), NEW k \in Call,
         call' = [call EXCEPT ![c] = k], k.at = "sent", k.tok \in {0, call[c].tok},
         cookie' = call[c].tok, UNCHANGED <<token, issued, other, me, lost>>,
         k.op \in {"me", "bootMe"} \/ (k.op = call[c].op /\ k.org = call[c].org),
         k.op = "me" => call[c].op \in SessionOps,
         k.op = "bootMe" => call[c].op \in {"boot", "bootMe"},
         k.op = "me" => call[c].op \notin {"boot", "bootMe"},
         mixed => mixed'
  PROVE  /\ TokenShape' /\ WayShape' /\ CookieIsLive' /\ OrgShape' /\ OneOperation'
         /\ cookie' \in 1..issued /\ cookie' # cookie
<1> USE WebClientAssumption DEF SessionInv
<1>0. issued \in Nat /\ cookie \in 0..issued /\ other \in 0..issued
  BY DEF ClientTypeOK
<1>1. /\ call' \in [Calls -> Call] /\ call'[c] = k
      /\ \A d \in Calls \ {c} : call'[d] = call[d]
  BY OneCall
<1>2. ~Carries(c)' /\ Busy(c)' /\ Busy(c)
      /\ \A d \in Calls \ {c} : Carries(d)' = Carries(d) /\ Busy(d)' = Busy(d)
  BY <1>1 DEF Carries, Busy
<1>3. Fresh(call[c].tok) /\ call[c].tok # cookie /\ call[c].tok \in 1..issued
  BY DEF WayShape, Fresh
<1>4. TokenShape'
  BY DEF TokenShape
<1>5. \A m : Fresh(m) => Fresh(m)'
  BY DEF Fresh
<1>6. WayShape'
  <2>1. other' # 0 => Fresh(other)' /\ other' # cookie'
    BY <1>0, <1>5 DEF WayShape
  <2>2. ASSUME NEW d \in Calls PROVE call'[d].tok <= issued' /\ (other' # 0 => call'[d].tok # other')
    BY <1>0, <1>1, <1>3, <2>2 DEF WayShape
  <2>3. ASSUME NEW d \in Calls, Carries(d)'
        PROVE  /\ Fresh(call[d].tok)' /\ call'[d].tok # cookie'
               /\ \A e \in Calls \ {d} : call'[e].tok # call'[d].tok
    <3>1. Carries(d) /\ d # c /\ call'[d] = call[d]
      BY <1>1, <1>2, <2>3
    <3>2. Fresh(call[d].tok) /\ \A e \in Calls \ {d} : call[e].tok # call[d].tok
      BY <3>1 DEF WayShape
    <3>3. call[d].tok # 0 /\ call[d].tok # call[c].tok
      BY <1>0, <3>1, <3>2 DEF Fresh
    <3>4. Fresh(call[d].tok)'
      BY <3>1, <3>2 DEF Fresh
    <3> QED BY <1>1, <3>1, <3>2, <3>3, <3>4
  <2> QED BY <2>1, <2>2, <2>3 DEF WayShape
<1>7. CookieIsLive'
  BY <1>3 DEF CookieIsLive, Fresh
<1>8. OrgShape'
  BY <1>1, <1>2 DEF OrgShape
<1>9. OneOperation'
  <2>1. InSession(c)' = InSession(c) /\ \A d \in Calls \ {c} : InSession(d)' = InSession(d)
    BY <1>1, <1>2 DEF InSession, SessionOps
  <2>2. me = Unknown => call'[c].op \in {"boot", "bootMe"}
    BY <1>1, <1>2 DEF OneOperation
  <2>3. call[c].op \in PageOps <=> call'[c].op \in PageOps
    BY <1>1 DEF PageOps, SessionOps
  <2>4. call'[c].op = "login" => call[c].op = "login"
    BY <1>1
  <2> QED BY <1>1, <1>2, <2>1, <2>2, <2>3, <2>4 DEF OneOperation
<1> QED BY <1>3, <1>4, <1>6, <1>7, <1>8, <1>9

\* The session is refreshed.
LEMMA RefreshedStep ==
  ASSUME SessionInv, NEW c \in Calls, Refreshed(c) PROVE SessionInv' /\ ClientTypeOK'
<1> USE WebClientAssumption DEF SessionInv
<1> DEFINE n == call[c].tok
           k == CASE call[c].op = "boot" -> [NoCall EXCEPT !.op = "bootMe", !.at = "sent", !.acc = access']
                  [] call[c].op = "leave" -> [NoCall EXCEPT !.op = "me", !.at = "sent", !.acc = access']
                  [] OTHER -> [call[c] EXCEPT !.at = "sent", !.acc = access', !.again = TRUE,
                                              !.tok = cookie']
<1>0. issued \in Nat /\ cookie \in 0..issued /\ other \in 0..issued /\ issued \in 0..MaxTokens
  BY DEF ClientTypeOK
<1>1. Carries(c) /\ call[c].at = "rotated" /\ cookie' = n
  BY DEF Refreshed, Carries
<1>2. n \in 1..issued /\ Fresh(n) /\ n # cookie /\ token[n].org \in Orgs
  BY <1>1 DEF WayShape, Fresh, TokenShape
<1>3. access' = [org |-> token[n].org, imp |-> FALSE] /\ access' \in Access
  BY <1>2 DEF Refreshed, Own, Access
<1>4. /\ k \in Call /\ k.at = "sent" /\ k.acc = access' /\ k.tok \in {0, n}
      /\ k.op = (CASE call[c].op = "boot" -> "bootMe" [] call[c].op = "leave" -> "me"
                   [] OTHER -> call[c].op)
      /\ call[c].op \notin {"boot", "leave"} => k.org = call[c].org
  <2>1. call[c] \in Call /\ NoCall \in Call /\ n \in 0..MaxTokens
    BY CallFields, NoCallType
  <2>2. CASE call[c].op = "boot"
    BY <1>3, <2>1, <2>2 DEF Call, NoCall, CallAt, SessionOps
  <2>3. CASE call[c].op = "leave"
    BY <1>3, <2>1, <2>3 DEF Call, NoCall, CallAt, SessionOps
  <2>4. CASE call[c].op \notin {"boot", "leave"}
    <3>1. k = [call[c] EXCEPT !.at = "sent", !.acc = access', !.again = TRUE, !.tok = n]
      BY <1>1, <2>4
    <3> HIDE DEF k
    <3> QED BY <1>3, <2>1, <2>4, <3>1 DEF Call, CallAt
  <2> QED BY <2>2, <2>3, <2>4
<1>5. call' = [call EXCEPT ![c] = k] /\ UNCHANGED <<token, issued, other, me, lost, left>>
  BY DEF Refreshed
<1>6. /\ mixed' = (mixed \/ n < cookie \/ (banner /\ call[c].op # "leave"))
      /\ banner' = (banner /\ call[c].op # "leave")
  BY DEF Refreshed, Overtaken
<1> HIDE DEF k
<1>7. /\ call' \in [Calls -> Call] /\ call'[c] = k
      /\ \A d \in Calls \ {c} : call'[d] = call[d]
  BY <1>4, <1>5, OneCall
<1>8. ClientTypeOK'
  BY <1>0, <1>1, <1>2, <1>3, <1>5, <1>6, <1>7 DEF ClientTypeOK
<1>9. /\ TokenShape' /\ WayShape' /\ CookieIsLive' /\ OrgShape' /\ OneOperation'
  <2>1. k.op \in {"me", "bootMe"} \/ (k.op = call[c].op /\ k.org = call[c].org)
    BY <1>4
  <2>2. /\ k.op = "me" => call[c].op \in SessionOps
        /\ k.op = "bootMe" => call[c].op \in {"boot", "bootMe"}
        /\ k.op = "me" => call[c].op \notin {"boot", "bootMe"}
    BY <1>4 DEF SessionOps
  <2> QED BY <1>1, <1>4, <1>5, <1>6, <2>1, <2>2, CookieStep
<1>10. Busy(c)' /\ Busy(c) /\ ~Carries(c)'
       /\ \A d \in Calls \ {c} : Carries(d)' = Carries(d) /\ Busy(d)' = Busy(d)
  BY <1>1, <1>4, <1>7 DEF Carries, Busy
<1>11. ~mixed' => ~mixed /\ ~banner' /\ n > cookie
  <2>1. ~mixed' => ~mixed /\ ~banner' /\ ~(n < cookie)
    BY <1>6
  <2>2. ~(n < cookie) => n > cookie
    BY <1>0, <1>2
  <2> QED BY <2>1, <2>2
<1>12. OneFamily'
  <2> SUFFICES ASSUME ~mixed', me # Nobody, NEW d \in Calls, Busy(d)', call'[d].tok # 0
               PROVE  /\ n # 0 /\ token[call'[d].tok].fam = token[n].fam
                      /\ Carries(d)' \/ call'[d].tok <= n
                      /\ call'[d].at = "rotated" => token[call'[d].tok].org = token[n].org
    BY <1>1, <1>5 DEF OneFamily
  <2>1. n # 0 /\ token[n].fam = token[cookie].fam /\ token[n].org = token[cookie].org
    BY <1>1, <1>2, <1>10, <1>11 DEF OneFamily
  <2>2. CASE d = c
    BY <1>2, <1>4, <1>7, <2>1, <2>2
  <2>3. CASE d # c
    <3>1. /\ token[call[d].tok].fam = token[cookie].fam
          /\ Carries(d) \/ call[d].tok <= cookie
          /\ call[d].at = "rotated" => token[call[d].tok].org = token[cookie].org
      BY <1>7, <1>10, <1>11, <2>3 DEF OneFamily
    <3>2. call[d].tok \in Nat
      BY CallFields
    <3> QED BY <1>0, <1>2, <1>7, <1>10, <1>11, <2>1, <2>3, <3>1, <3>2
  <2> QED BY <2>2, <2>3
<1>13. ShownShape'
  <2> SUFFICES ASSUME ~mixed' PROVE ShownShape'
    BY DEF ShownShape
  <2>2. ASSUME me \in Orgs, call[c].op # "leave", NEW o, Agrees(o) PROVE o = token[n].org
    <3>1. cookie # 0 /\ token[n].org = token[cookie].org
      BY <1>1, <1>2, <1>10, <1>11, <2>2 DEF OneFamily
    <3> QED BY <1>6, <1>11, <2>2, <3>1 DEF Agrees
  <2>3. ASSUME me \in Orgs, \A d \in Calls : ~Loading(d)' PROVE Agrees(me)'
    <3>1. call[c].op \notin {"boot", "leave"}
      BY <1>4, <1>7, <1>10, <2>3 DEF Loading
    <3>2. \A d \in Calls : ~Loading(d)
      BY <1>4, <1>7, <1>10, <2>3, <3>1 DEF Loading
    <3>3. me = token[n].org
      BY <1>11, <2>2, <2>3, <3>1, <3>2 DEF ShownShape
    <3> QED BY <1>1, <1>3, <1>5, <2>3, <3>3 DEF Agrees
  <2>4. ASSUME NEW d \in Calls, Loading(d)', call'[d].at = "sent", call'[d].acc # Nothing
        PROVE  call'[d].acc.org = token[n].org
    <3>1. CASE d = c
      BY <1>3, <1>4, <1>7, <3>1
    <3>2. CASE d # c
      <4>1. Loading(d) /\ call'[d] = call[d]
        BY <1>7, <1>10, <2>4, <3>2 DEF Loading
      <4>2. InSession(d)
        BY <4>1 DEF InSession, Loading, SessionOps
      <4>3. call[c].op \in PageOps /\ me \in Orgs
        BY <1>10, <1>11, <3>2, <4>2 DEF OneOperation
      <4>4. Agrees(call[d].acc.org)
        BY <1>11, <2>4, <4>1 DEF ShownShape
      <4> QED BY <2>2, <4>1, <4>3, <4>4 DEF PageOps
    <3> QED BY <3>1, <3>2
  <2>5. ASSUME NEW d \in Calls, Loading(d)', call'[d].at = "ok"
        PROVE  call'[d].org = token[n].org
    <3>1. d # c /\ Loading(d) /\ call'[d] = call[d]
      BY <1>4, <1>7, <1>10, <2>5 DEF Loading
    <3>2. InSession(d)
      BY <3>1 DEF InSession, Loading, SessionOps
    <3>3. call[c].op \in PageOps /\ me \in Orgs
      BY <1>10, <1>11, <3>1, <3>2 DEF OneOperation
    <3>4. Agrees(call[d].org)
      BY <1>11, <2>5, <3>1 DEF ShownShape
    <3> QED BY <2>2, <3>1, <3>3, <3>4 DEF PageOps
  <2>6. me' = me
    BY <1>5
  <2> QED BY <1>1, <1>3, <1>5, <2>3, <2>4, <2>5, <2>6 DEF ShownShape, Agrees
<1> QED BY <1>8, <1>9, <1>12, <1>13

\* A login or a change of the organization is adopted, and the profile loaded.
LEMMA AdoptStep ==
  ASSUME SessionInv, NEW c \in Calls, Adopt(c) PROVE SessionInv' /\ ClientTypeOK'
<1> USE WebClientAssumption DEF SessionInv
<1> DEFINE n == call[c].tok
           k == [NoCall EXCEPT !.op = "me", !.at = "sent", !.acc = access']
<1>0. issued \in Nat /\ cookie \in 0..issued /\ other \in 0..issued /\ issued \in 0..MaxTokens
  BY DEF ClientTypeOK
<1>1. Carries(c) /\ call[c].at = "ok" /\ call[c].op \in {"login", "switch"} /\ cookie' = n
      /\ InSession(c) /\ Busy(c)
  BY DEF Adopt, Carries, InSession, Busy, SessionOps
<1>2. n \in 1..issued /\ Fresh(n) /\ n # cookie /\ token[n].org = call[c].org /\ call[c].org \in Orgs
  BY <1>1 DEF WayShape, Fresh, OrgShape
<1>3. access' = [org |-> token[n].org, imp |-> FALSE] /\ access' \in Access
  BY <1>2 DEF Adopt, Access
<1>4. k \in Call /\ k.at = "sent" /\ k.acc = access' /\ k.tok = 0 /\ k.op = "me"
  BY <1>3, NoCallType DEF Call, NoCall, CallAt, SessionOps
<1>5. call' = [call EXCEPT ![c] = k] /\ UNCHANGED <<token, issued, other, me, lost, left, banner>>
  BY DEF Adopt
<1>6. mixed' = (mixed \/ n < cookie)
  BY DEF Adopt, Overtaken
<1> HIDE DEF k
<1>7. /\ call' \in [Calls -> Call] /\ call'[c] = k
      /\ \A d \in Calls \ {c} : call'[d] = call[d]
  BY <1>4, <1>5, OneCall
<1>8. ClientTypeOK'
  BY <1>0, <1>1, <1>2, <1>3, <1>5, <1>6, <1>7 DEF ClientTypeOK
<1>9. /\ TokenShape' /\ WayShape' /\ CookieIsLive' /\ OrgShape' /\ OneOperation'
  <2>1. call[c].op \in SessionOps /\ call[c].op \notin {"boot", "bootMe"}
    BY <1>1 DEF SessionOps
  <2> QED BY <1>1, <1>4, <1>5, <1>6, <2>1, CookieStep
<1>10. Busy(c)' /\ ~Carries(c)'
       /\ \A d \in Calls \ {c} : Carries(d)' = Carries(d) /\ Busy(d)' = Busy(d)
  BY <1>1, <1>4, <1>7 DEF Carries, Busy
<1>11. ~mixed' => ~mixed /\ n > cookie
  <2>1. ~mixed' => ~mixed /\ ~(n < cookie)
    BY <1>6
  <2>2. ~(n < cookie) => n > cookie
    BY <1>0, <1>2
  <2> QED BY <2>1, <2>2
<1>12. OneFamily'
  <2> SUFFICES ASSUME ~mixed', me # Nobody, NEW d \in Calls, Busy(d)', call'[d].tok # 0
               PROVE  /\ n # 0 /\ token[call'[d].tok].fam = token[n].fam
                      /\ Carries(d)' \/ call'[d].tok <= n
                      /\ call'[d].at = "rotated" => token[call'[d].tok].org = token[n].org
    BY <1>1, <1>5 DEF OneFamily
  <2>1. n # 0 /\ token[n].fam = token[cookie].fam
    BY <1>1, <1>2, <1>11 DEF OneFamily
  <2>2. d # c /\ Busy(d) /\ call'[d] = call[d]
    BY <1>4, <1>7, <1>10
  <2>3. /\ token[call[d].tok].fam = token[cookie].fam
        /\ Carries(d) \/ call[d].tok <= cookie
    BY <1>11, <2>2 DEF OneFamily
  <2>4. ~Carries(d)
    <3> SUFFICES ASSUME Carries(d) PROVE FALSE
      OBVIOUS
    <3>1. Fresh(call[d].tok) /\ call[d].tok # n
      BY <1>1, <2>2 DEF WayShape
    <3> QED BY <1>0, <1>2, <2>1, <2>3, <3>1 DEF Fresh, TokenShape
  <2>5. call[d].tok \in Nat /\ call[d].at # "rotated"
    BY <2>4, CallFields DEF Carries
  <2> QED BY <1>0, <1>2, <1>11, <2>1, <2>2, <2>3, <2>4, <2>5
<1>13. ShownShape'
  <2> SUFFICES ASSUME ~mixed' PROVE ShownShape'
    BY DEF ShownShape
  <2>1. Loading(c)'
    BY <1>4, <1>7, <1>10 DEF Loading
  <2>2. \A d \in Calls \ {c} : ~Loading(d)'
    <3> SUFFICES ASSUME NEW d \in Calls \ {c}, Loading(d)' PROVE FALSE
      OBVIOUS
    <3>1. Busy(d) /\ call[d].op \notin PageOps
      BY <1>7, <1>10 DEF Loading, PageOps
    <3> QED BY <1>1, <1>11, <3>1 DEF OneOperation
  <2>4. call'[c].at = "sent" /\ call'[c].acc.org = token[n].org
    BY <1>3, <1>4, <1>7
  <2> QED BY <1>1, <1>3, <1>5, <2>1, <2>2, <2>4 DEF ShownShape, Agrees
<1> QED BY <1>8, <1>9, <1>12, <1>13

-----------------------------------------------------------------------------
(* The other answers to the operations of the session. *)

LEMMA EnteredStep ==
  ASSUME SessionInv, NEW c \in Calls, Entered(c) PROVE SessionInv' /\ ClientTypeOK'
<1> USE WebClientAssumption DEF SessionInv
<1> DEFINE k == [NoCall EXCEPT !.op = "me", !.at = "sent", !.acc = access']
<1>1. call[c].at = "ok" /\ call[c].op = "enter" /\ InSession(c) /\ Busy(c) /\ ~Carries(c)
  BY DEF Entered, Carries, InSession, Busy, SessionOps
<1>2. call[c].org \in Orgs /\ access' = [org |-> call[c].org, imp |-> TRUE] /\ access' \in Access
  BY <1>1 DEF Entered, OrgShape, Access
<1>3. k \in Call /\ k.at = "sent" /\ k.acc = access' /\ k.tok = 0 /\ k.op = "me"
  BY <1>2, NoCallType DEF Call, NoCall, CallAt, SessionOps
<1>4. call' = [call EXCEPT ![c] = k] /\ banner' = TRUE
      /\ UNCHANGED <<token, issued, cookie, other, me, lost, left, mixed>>
  BY DEF Entered
<1> HIDE DEF k
<1>5. /\ call' \in [Calls -> Call] /\ call'[c] = k
      /\ \A d \in Calls \ {c} : call'[d] = call[d]
  BY <1>3, <1>4, OneCall
<1>6. ClientTypeOK'
  BY <1>2, <1>4, <1>5 DEF ClientTypeOK
<1>7. Busy(c)' /\ ~Carries(c)' /\ InSession(c)' /\ Loading(c)'
      /\ \A d \in Calls \ {c} : Carries(d)' = Carries(d) /\ Busy(d)' = Busy(d)
                                /\ InSession(d)' = InSession(d)
  BY <1>3, <1>5 DEF Carries, Busy, InSession, Loading, SessionOps
<1>8. TokenShape' /\ WayShape' /\ CookieIsLive'
  <2>1. \A d \in Calls : /\ call'[d].tok \in {0, cookie, call[d].tok}
                         /\ Carries(d)' => Carries(d) /\ call'[d].tok = call[d].tok
                         /\ Carries(d) => Carries(d)'
    BY <1>1, <1>3, <1>5, <1>7
  <2>2. SameTokens
    BY <1>4 DEF SameTokens
  <2> QED BY <1>4, <1>5, <2>1, <2>2, TokensStay
<1>9. OrgShape'
  BY <1>3, <1>4, <1>5, <1>7 DEF OrgShape
<1>10. OneOperation'
  <2>1. me # Unknown
    BY <1>1 DEF OneOperation
  <2>2. ASSUME ~mixed, NEW d \in Calls \ {c}, Busy(d) PROVE call[d].op \in PageOps /\ me \in Orgs
    BY <1>1, <2>2 DEF OneOperation
  <2>3. ASSUME ~mixed, NEW d \in Calls \ {c}, Busy(d)'
        PROVE  call'[d].op \in PageOps /\ ~InSession(d)' /\ me \in Orgs
    BY <1>5, <1>7, <2>2, <2>3 DEF InSession, PageOps, SessionOps
  <2>4. call'[c].op # "login" /\ \A d \in Calls : call'[d].op \in PageOps => call'[d].op # "login"
    BY <1>3, <1>5 DEF PageOps
  <2>5. \A d \in Calls : InSession(d)' => Busy(d)'
    BY DEF InSession
  <2> QED BY <1>4, <1>7, <2>1, <2>3, <2>4, <2>5 DEF OneOperation
<1>11. OneFamily'
  BY <1>3, <1>4, <1>5, <1>7 DEF OneFamily
<1>12. ShownShape'
  <2> SUFFICES ASSUME ~mixed PROVE ShownShape'
    BY <1>4 DEF ShownShape
  <2>1. \A d \in Calls \ {c} : ~Loading(d)'
    <3> SUFFICES ASSUME NEW d \in Calls \ {c}, Loading(d)' PROVE FALSE
      OBVIOUS
    <3>1. Busy(d) /\ call[d].op \notin PageOps
      BY <1>5, <1>7 DEF Loading, PageOps
    <3> QED BY <1>1, <3>1 DEF OneOperation
  <2>2. call'[c].at = "sent" /\ call'[c].acc.org = access'.org
    BY <1>3, <1>5
  <2> QED BY <1>4, <1>7, <2>1, <2>2 DEF ShownShape, Agrees
<1> QED BY <1>6, <1>8, <1>9, <1>10, <1>11, <1>12

LEMMA LoggedOutStep ==
  ASSUME SessionInv, NEW c \in Calls, LoggedOut(c) PROVE SessionInv' /\ ClientTypeOK'
<1> USE WebClientAssumption DEF SessionInv
<1>1. call[c].at = "ok" /\ call[c].op = "logout" /\ InSession(c) /\ Busy(c) /\ ~Carries(c)
  BY DEF LoggedOut, Carries, InSession, Busy, SessionOps
<1>2. call' = [call EXCEPT ![c] = NoCall] /\ cookie' = 0 /\ access' = Nothing /\ me' = Nobody
      /\ UNCHANGED <<token, issued, other, banner, lost, left, mixed>>
  BY DEF LoggedOut
<1>3. /\ call' \in [Calls -> Call] /\ call'[c] = NoCall
      /\ \A d \in Calls \ {c} : call'[d] = call[d]
  BY <1>2, NoCallType, OneCall
<1>4. ClientTypeOK'
  BY <1>2, <1>3 DEF ClientTypeOK
<1>5. ~Busy(c)' /\ ~Carries(c)'
      /\ \A d \in Calls \ {c} : Carries(d)' = Carries(d) /\ Busy(d)' = Busy(d)
  BY <1>3 DEF Carries, Busy, NoCall
<1>6. TokenShape' /\ CookieIsLive'
  BY <1>2 DEF TokenShape, CookieIsLive
<1>7. WayShape'
  <2>1. \A n : Fresh(n) => Fresh(n)' /\ n # 0
    BY <1>2 DEF Fresh, ClientTypeOK
  <2>2. other' # 0 => Fresh(other)' /\ other' # cookie'
    BY <1>2, <2>1 DEF WayShape
  <2>3. ASSUME NEW d \in Calls PROVE call'[d].tok <= issued' /\ (other' # 0 => call'[d].tok # other')
    BY <1>2, <1>3 DEF WayShape, NoCall, ClientTypeOK
  <2>4. ASSUME NEW d \in Calls, Carries(d)'
        PROVE  /\ Fresh(call[d].tok)' /\ call'[d].tok # cookie'
               /\ \A e \in Calls \ {d} : call'[e].tok # call'[d].tok
    <3>1. Carries(d) /\ d # c /\ call'[d] = call[d]
      BY <1>3, <1>5, <2>4
    <3>2. Fresh(call[d].tok) /\ \A e \in Calls \ {d} : call[e].tok # call[d].tok
      BY <3>1 DEF WayShape
    <3>3. Fresh(call[d].tok)' /\ call[d].tok # 0
      BY <1>2, <3>1, <3>2 DEF Fresh, ClientTypeOK
    <3> QED BY <1>2, <1>3, <3>1, <3>2, <3>3 DEF NoCall
  <2> QED BY <2>2, <2>3, <2>4 DEF WayShape
<1>8. OrgShape'
  BY <1>2, <1>3, <1>5 DEF OrgShape, NoCall
<1>9. ASSUME ~mixed, NEW d \in Calls, Busy(d)' PROVE call'[d].op \in PageOps
  BY <1>1, <1>3, <1>5, <1>9 DEF OneOperation
<1>10. OneOperation'
  BY <1>2, <1>9 DEF OneOperation, InSession, PageOps, SessionOps
<1>11. OneFamily' /\ ShownShape'
  BY <1>2, <1>9 DEF OneFamily, ShownShape, Loading, PageOps
<1> QED BY <1>4, <1>6, <1>7, <1>8, <1>10, <1>11

LEMMA LoadedStep ==
  ASSUME SessionInv, NEW c \in Calls, Loaded(c) PROVE SessionInv' /\ ClientTypeOK'
<1> USE WebClientAssumption DEF SessionInv
<1>1. call[c].at = "ok" /\ call[c].op \in {"me", "bootMe"} /\ InSession(c) /\ Busy(c)
      /\ ~Carries(c) /\ Loading(c)
  BY DEF Loaded, Carries, InSession, Busy, SessionOps, Loading
<1>2. call' = [call EXCEPT ![c] = NoCall] /\ me' = call[c].org /\ call[c].org \in Orgs
      /\ UNCHANGED <<token, issued, cookie, other, access, banner, lost, left, mixed>>
  BY <1>1 DEF Loaded, OrgShape
<1>3. /\ call' \in [Calls -> Call] /\ call'[c] = NoCall
      /\ \A d \in Calls \ {c} : call'[d] = call[d]
  BY <1>2, NoCallType, OneCall
<1>4. ClientTypeOK'
  BY <1>2, <1>3 DEF ClientTypeOK
<1>5. ~Busy(c)' /\ ~Carries(c)'
      /\ \A d \in Calls \ {c} : Carries(d)' = Carries(d) /\ Busy(d)' = Busy(d)
  BY <1>3 DEF Carries, Busy, NoCall
<1>6. TokenShape' /\ WayShape' /\ CookieIsLive'
  <2>1. \A d \in Calls : /\ call'[d].tok \in {0, cookie, call[d].tok}
                         /\ Carries(d)' => Carries(d) /\ call'[d].tok = call[d].tok
                         /\ Carries(d) => Carries(d)'
    BY <1>1, <1>3, <1>5 DEF NoCall
  <2>2. SameTokens
    BY <1>2 DEF SameTokens
  <2> QED BY <1>2, <1>3, <2>1, <2>2, TokensStay
<1>7. OrgShape'
  BY <1>2, <1>3, <1>5 DEF OrgShape, NoCall
<1>8. ASSUME ~mixed, NEW d \in Calls, Busy(d)'
      PROVE  Busy(d) /\ call'[d] = call[d] /\ call[d].op \in PageOps /\ me \in Orgs
  BY <1>1, <1>3, <1>5, <1>8 DEF OneOperation
<1>9. OneOperation'
  BY <1>2, <1>8 DEF OneOperation, InSession, PageOps, SessionOps
<1>10. OneFamily'
  BY <1>2, <1>5, <1>8 DEF OneFamily
<1>11. ShownShape'
  <2> SUFFICES ASSUME ~mixed PROVE ShownShape'
    BY <1>2 DEF ShownShape
  <2>1. \A d \in Calls : ~Loading(d)'
    BY <1>8 DEF Loading, PageOps
  <2>2. Agrees(call[c].org)
    BY <1>1 DEF ShownShape
  <2> QED BY <1>2, <2>1, <2>2 DEF ShownShape, Agrees
<1> QED BY <1>4, <1>6, <1>7, <1>9, <1>10, <1>11

-----------------------------------------------------------------------------
(* Steps that are no request of this tab. *)

LEMMA EndedFamily ==
  ASSUME ClientTypeOK, NEW n \in 0..issued, EndFamily(n), UNCHANGED issued
  PROVE  SameTokens /\ TokenType'
<1> USE WebClientAssumption
<1>1. \A m \in 1..issued : m \in Numbers
  BY DEF ClientTypeOK, Numbers
<1>2. CASE n = 0
  BY <1>2 DEF EndFamily, SameTokens, TokenType, ClientTypeOK
<1>3. CASE n # 0
  <2>1. token' = [m \in Numbers |->
                   IF token[m].fam = token[n].fam /\ token[m].state = "live"
                   THEN [token[m] EXCEPT !.state = "ended"] ELSE token[m]]
    BY <1>3 DEF EndFamily
  <2>2. ASSUME NEW m \in Numbers
        PROVE  /\ token'[m].org = token[m].org /\ token'[m].fam = token[m].fam
               /\ \/ token'[m].state = token[m].state
                  \/ token[m].state = "live" /\ token'[m].state = "ended"
               /\ token'[m] \in [org : Orgs \union {Nothing}, fam : 0..MaxTokens,
                                 state : {"free", "live", "rotated", "ended"}]
    <3>1. token[m] \in [org : Orgs \union {Nothing}, fam : 0..MaxTokens,
                        state : {"free", "live", "rotated", "ended"}]
      BY DEF ClientTypeOK
    <3> QED BY <2>1, <3>1
  <2>3. SameTokens
    BY <1>1, <2>2 DEF SameTokens
  <2>4. token' \in [Numbers -> [org : Orgs \union {Nothing}, fam : 0..MaxTokens,
                                state : {"free", "live", "rotated", "ended"}]]
    BY <2>1, <2>2
  <2> QED BY <2>2, <2>3, <2>4 DEF TokenType, ClientTypeOK
<1> QED BY <1>2, <1>3

\* A step that at most ends a family.
LEMMA IdleStep ==
  ASSUME SessionInv, SameTokens,
         UNCHANGED <<issued, cookie, other, access, me, banner, call, lost, mixed>>,
         ClientTypeOK'
  PROVE  SessionInv'
<1> USE WebClientAssumption DEF SessionInv
<1>1. \A d \in Calls : Carries(d)' = Carries(d) /\ Busy(d)' = Busy(d)
                       /\ InSession(d)' = InSession(d) /\ Loading(d)' = Loading(d)
  BY DEF Carries, Busy, InSession, Loading
<1>2. TokenShape' /\ WayShape' /\ CookieIsLive'
  BY <1>1, TokensStay DEF ClientTypeOK
<1>3. OrgShape'
  <2>1. \A d \in Calls : call[d].at = "ok" /\ call[d].op \in {"login", "switch"} =>
                           call[d].tok \in 1..issued
    BY DEF WayShape, Fresh, Carries
  <2> QED BY <1>1, <2>1 DEF OrgShape, SameTokens
<1>4. OneOperation'
  BY <1>1 DEF OneOperation
<1>5. cookie # 0 => token'[cookie].org = token[cookie].org /\ token'[cookie].fam = token[cookie].fam
  BY DEF SameTokens, ClientTypeOK
<1>6. OneFamily'
  <2>1. \A d \in Calls : call[d].tok # 0 => call[d].tok \in 1..issued
    BY CallFields DEF WayShape
  <2> QED BY <1>1, <1>5, <2>1 DEF OneFamily, SameTokens
<1>7. ShownShape'
  <2>1. \A o : Agrees(o) => Agrees(o)'
    BY <1>5 DEF Agrees
  <2> QED BY <1>1, <2>1 DEF ShownShape
<1> QED BY <1>2, <1>3, <1>4, <1>6, <1>7

LEMMA SessionEndsStep ==
  ASSUME SessionInv, SessionEnds PROVE SessionInv' /\ ClientTypeOK'
<1> USE WebClientAssumption
<1>1. cookie \in 0..issued /\ EndFamily(cookie) /\ left' \in 0..MaxEvents
      /\ UNCHANGED <<issued, cookie, other, access, me, banner, call, lost, mixed>>
  BY DEF SessionEnds, Event, SessionInv, ClientTypeOK
<1>2. SameTokens /\ TokenType'
  BY <1>1, EndedFamily DEF SessionInv
<1>3. ClientTypeOK'
  BY <1>1, <1>2 DEF SessionInv, ClientTypeOK, TokenType
<1> QED BY <1>1, <1>2, <1>3, IdleStep

LEMMA OtherRotatesStep ==
  ASSUME SessionInv, NEW o \in Mine, OtherRotates(o) PROVE SessionInv' /\ ClientTypeOK'
<1> USE WebClientAssumption DEF SessionInv
<1>0. issued \in Nat /\ cookie \in 0..issued
  BY DEF ClientTypeOK
<1>1. other = 0 /\ cookie \in 1..issued /\ token[cookie].state = "live" /\ Rotate(cookie, o)
      /\ other' = issued + 1 /\ left' \in 0..MaxEvents
      /\ UNCHANGED <<cookie, access, me, banner, call, lost, mixed>>
  BY <1>0 DEF OtherRotates, Live, Event, ClientTypeOK
<1>2. NewToken(cookie, o) /\ TokenShape' /\ TokenType'
  BY <1>1, RotateToken
<1>3. issued' = issued + 1 /\ issued' \in 1..issued' /\ other' = issued'
  BY <1>0, <1>1, <1>2 DEF NewToken
<1>4. ClientTypeOK'
  BY <1>0, <1>1, <1>2, <1>3 DEF ClientTypeOK, TokenType
<1>5. \A d \in Calls : Carries(d)' = Carries(d) /\ Busy(d)' = Busy(d)
                       /\ InSession(d)' = InSession(d) /\ Loading(d)' = Loading(d)
                       /\ call'[d] = call[d] /\ call[d].tok \in 0..issued
  BY <1>1, CallFields DEF Carries, Busy, InSession, Loading, WayShape
<1>6. WayShape'
  <2>1. other' # 0 => Fresh(other)' /\ other' # cookie'
    BY <1>0, <1>1, <1>2, <1>3 DEF Fresh, NewToken
  <2>2. ASSUME NEW d \in Calls PROVE call'[d].tok <= issued' /\ (other' # 0 => call'[d].tok # other')
    BY <1>0, <1>1, <1>3, <1>5
  <2>3. ASSUME NEW d \in Calls, Carries(d)'
        PROVE  /\ Fresh(call[d].tok)' /\ call'[d].tok # cookie'
               /\ \A e \in Calls \ {d} : call'[e].tok # call'[d].tok
    <3>1. Fresh(call[d].tok) /\ call[d].tok # cookie
          /\ \A e \in Calls \ {d} : call[e].tok # call[d].tok
      BY <1>5, <2>3 DEF WayShape
    <3>2. Fresh(call[d].tok)'
      BY <1>0, <1>2, <1>3, <1>5, <3>1 DEF Fresh, NewToken
    <3> QED BY <1>1, <1>5, <3>1, <3>2
  <2> QED BY <2>1, <2>2, <2>3 DEF WayShape
<1>7. CookieIsLive'
  BY <1>0, <1>1 DEF CookieIsLive, OnItsWay
<1>8. OrgShape'
  <2>1. \A d \in Calls : call[d].at = "ok" /\ call[d].op \in {"login", "switch"} =>
                           call[d].tok \in 1..issued
    BY DEF WayShape, Fresh, Carries
  <2> QED BY <1>2, <1>5, <2>1 DEF OrgShape, NewToken
<1>9. OneOperation'
  BY <1>1, <1>5 DEF OneOperation
<1>10. token'[cookie].org = token[cookie].org /\ token'[cookie].fam = token[cookie].fam
  BY <1>1, <1>2 DEF NewToken
<1>11. OneFamily'
  <2>1. \A d \in Calls : call[d].tok # 0 => call[d].tok \in 1..issued
    BY <1>5
  <2> QED BY <1>1, <1>2, <1>5, <1>10, <2>1 DEF OneFamily, NewToken
<1>12. ShownShape'
  <2>1. \A x : Agrees(x) => Agrees(x)'
    BY <1>1, <1>10 DEF Agrees
  <2> QED BY <1>1, <1>5, <2>1 DEF ShownShape
<1> QED BY <1>2, <1>4, <1>6, <1>7, <1>8, <1>9, <1>11, <1>12

LEMMA OtherReceivesStep ==
  ASSUME SessionInv, OtherReceives PROVE SessionInv' /\ ClientTypeOK'
<1> USE WebClientAssumption DEF SessionInv
<1>1. issued \in Nat /\ cookie \in 0..issued /\ other \in 1..issued /\ cookie' = other /\ other' = 0
      /\ UNCHANGED <<left, token, issued, access, me, banner, call, lost>>
  BY DEF OtherReceives, ClientTypeOK
<1>2. Fresh(other) /\ other # cookie
  BY <1>1 DEF WayShape
<1>3. ClientTypeOK'
  BY <1>1 DEF OtherReceives, ClientTypeOK
<1>4. ~mixed' => /\ ~mixed /\ cookie # 0 /\ cookie < other
                 /\ token[other].org = token[cookie].org /\ token[other].fam = token[cookie].fam
  <2>1. ~mixed' => /\ ~mixed /\ cookie # 0 /\ ~(other < cookie)
                   /\ token[other].org = token[cookie].org /\ token[other].fam = token[cookie].fam
    BY DEF OtherReceives, Overtaken
  <2>2. ~(other < cookie) => cookie < other
    BY <1>1, <1>2
  <2> QED BY <2>1, <2>2
<1>5. \A d \in Calls : Carries(d)' = Carries(d) /\ Busy(d)' = Busy(d)
                       /\ InSession(d)' = InSession(d) /\ Loading(d)' = Loading(d)
                       /\ call'[d] = call[d] /\ call[d].tok \in Nat
  BY <1>1, CallFields DEF Carries, Busy, InSession, Loading
<1>6. TokenShape' /\ CookieIsLive'
  BY <1>1, <1>2 DEF TokenShape, CookieIsLive, Fresh
<1>7. WayShape'
  BY <1>1, <1>5 DEF WayShape, Fresh
<1>8. OrgShape' /\ OneOperation'
  BY <1>1, <1>4, <1>5 DEF OrgShape, OneOperation
<1>9. OneFamily'
  BY <1>1, <1>4, <1>5 DEF OneFamily
<1>10. ShownShape'
  <2>1. ASSUME ~mixed', NEW o, Agrees(o) PROVE Agrees(o)'
    BY <1>1, <1>4, <2>1 DEF Agrees
  <2> QED BY <1>1, <1>4, <1>5, <2>1 DEF ShownShape
<1> QED BY <1>3, <1>6, <1>7, <1>8, <1>9, <1>10

LEMMA ReloadStep ==
  ASSUME SessionInv, Reload, left' \in 0..MaxEvents PROVE SessionInv' /\ ClientTypeOK'
<1> USE WebClientAssumption DEF SessionInv
<1>1. access' = Nothing /\ me' = Unknown /\ banner' = FALSE /\ mixed' = FALSE
      /\ lost' = (lost \/ \E c \in Calls : Carries(c)) /\ call' = [c \in Calls |-> NoCall]
      /\ UNCHANGED <<token, issued, cookie, other>>
  BY DEF Reload
<1>2. call' \in [Calls -> Call] /\ \A d \in Calls : call'[d] = NoCall
  BY <1>1, NoCallType
<1>3. lost' \in BOOLEAN
  BY <1>1
<1>4. ClientTypeOK'
  BY <1>1, <1>2, <1>3 DEF ClientTypeOK
<1>5. \A d \in Calls : ~Carries(d)' /\ ~Busy(d)' /\ call'[d].at = "idle" /\ call'[d].tok = 0
  BY <1>2 DEF Carries, Busy, NoCall
<1>6. TokenShape' /\ WayShape' /\ CookieIsLive'
  <2>1. SameTokens
    BY <1>1 DEF SameTokens
  <2> QED BY <1>1, <1>2, <1>5, <2>1, TokensStay
<1>7. OrgShape' /\ OneOperation' /\ OneFamily'
  BY <1>5 DEF OrgShape, OneOperation, OneFamily, InSession
<1>8. ShownShape'
  BY <1>1, <1>5 DEF ShownShape, Loading
<1> QED BY <1>4, <1>6, <1>7, <1>8

-----------------------------------------------------------------------------
(* Every step of the session. *)

LEMMA SendCall ==
  ASSUME ClientTypeOK, NEW c \in Calls, NEW op \in SessionOps \union PageOps,
         NEW o, o \in Orgs \/ o = Nothing, Send(c, op, o)
  PROVE  /\ ~Busy(c)
         /\ \E k \in Call : /\ call' = [call EXCEPT ![c] = k]
                            /\ k.op = op /\ k.at = "sent" /\ k.org = o /\ k.tok = cookie
<1> DEFINE k == [NoCall EXCEPT !.op = op, !.at = "sent", !.org = o, !.acc = access, !.tok = cookie]
<1>1. k \in Call /\ k.op = op /\ k.at = "sent" /\ k.org = o /\ k.tok = cookie
  <2>1. cookie \in 0..MaxTokens /\ access \in Access \union {Nothing}
    BY WebClientAssumption DEF ClientTypeOK
  <2> QED BY <2>1, NoCallType DEF Call, CallAt, NoCall
<1>2. ~Busy(c) /\ call' = [call EXCEPT ![c] = k]
  BY DEF Send, Busy
<1> HIDE DEF k
<1> QED BY <1>1, <1>2

LEMMA SendRefreshCall ==
  ASSUME ClientTypeOK, NEW c \in Calls, NEW op \in SessionOps \union PageOps, SendRefresh(c, op)
  PROVE  /\ ~Busy(c)
         /\ \E k \in Call : /\ call' = [call EXCEPT ![c] = k]
                            /\ k.op = op /\ k.at = "refreshing" /\ k.tok = cookie
<1> DEFINE k == [NoCall EXCEPT !.op = op, !.at = "refreshing", !.tok = cookie]
<1>1. k \in Call /\ k.op = op /\ k.at = "refreshing" /\ k.tok = cookie
  <2>1. cookie \in 0..MaxTokens
    BY WebClientAssumption DEF ClientTypeOK
  <2> QED BY <2>1, NoCallType DEF Call, CallAt, NoCall
<1>2. ~Busy(c) /\ call' = [call EXCEPT ![c] = k]
  BY DEF SendRefresh, Busy
<1> HIDE DEF k
<1> QED BY <1>1, <1>2

LEMMA AnsweredCall ==
  ASSUME ClientTypeOK, NEW c \in Calls, NEW answer \in CallAt, Answered(c, answer)
  PROVE  \E k \in Call : /\ call' = [call EXCEPT ![c] = k]
                         /\ k.op = call[c].op /\ k.at = answer /\ k.tok = call[c].tok
                         /\ k.org = call[c].org /\ k.acc = call[c].acc /\ k.ver = call[c].ver
<1> DEFINE k == [call[c] EXCEPT !.at = answer]
<1>1. call[c] \in Call
  BY CallFields
<1>2. /\ k \in Call /\ k.op = call[c].op /\ k.at = answer /\ k.tok = call[c].tok
      /\ k.org = call[c].org /\ k.acc = call[c].acc /\ k.ver = call[c].ver
  BY <1>1 DEF Call
<1>3. call' = [call EXCEPT ![c] = k]
  BY DEF Answered, ClientTypeOK
<1> HIDE DEF k
<1> QED BY <1>2, <1>3

\* Request c is answered, with nothing in the answer.
LEMMA AnsweredStep ==
  ASSUME SessionInv, NEW c \in Calls, Busy(c), ~Carries(c),
         NEW answer \in CallAt, Answered(c, answer),
         \/ answer \in {"unauthorized", "failed", "refused"}
         \/ answer = "ok" /\ call[c].op = "logout"
         \/ answer = "ok" /\ call[c].op = "enter",
         SameTokens, TokenType', left' \in 0..MaxEvents,
         UNCHANGED <<issued, cookie, other, access, me, banner, lost, mixed>>
  PROVE  SessionInv'
<1>1. PICK k \in Call : /\ call' = [call EXCEPT ![c] = k]
                        /\ k.op = call[c].op /\ k.at = answer /\ k.tok = call[c].tok
                        /\ k.org = call[c].org
  BY AnsweredCall DEF SessionInv
<1>2. call' \in [Calls -> Call]
  BY <1>1, OneCall DEF SessionInv
<1>3. ClientTypeOK'
  BY <1>2 DEF SessionInv, ClientTypeOK, TokenType
<1>4. k.op = "enter" => k.org \in Orgs
  BY <1>1 DEF SessionInv, OrgShape
<1> QED BY <1>1, <1>3, <1>4, AnswerStep

LEMMA SameSession ==
  ASSUME SessionInv, UNCHANGED <<token, issued>> PROVE SameTokens /\ TokenType'
  BY DEF SessionInv, SameTokens, TokenType, ClientTypeOK

\* A request of the page is sent.
LEMMA SendPage ==
  ASSUME SessionInv, NEW c \in Calls, NEW op \in PageOps, Send(c, op, Nothing), me \in Orgs,
         UNCHANGED <<left, sessionVars, lost, mixed>>
  PROVE  SessionInv'
<1>0. ClientTypeOK /\ Nothing \in Orgs \union {Nothing} /\ op \in SessionOps \union PageOps
  BY DEF SessionInv
<1>1. ~Busy(c)
  BY <1>0, SendCall
<1>2. PICK k \in Call : /\ call' = [call EXCEPT ![c] = k]
                        /\ k.op = op /\ k.at = "sent" /\ k.org = Nothing /\ k.tok = cookie
  BY <1>0, SendCall
<1>3. /\ call' \in [Calls -> Call] /\ call'[c] = k
      /\ \A d \in Calls \ {c} : call'[d] = call[d]
  BY <1>2, OneCall DEF SessionInv
<1>4. ClientTypeOK'
  BY <1>3 DEF SessionInv, ClientTypeOK, sessionVars
<1>5. UNCHANGED <<sessionVars, lost, mixed>>
  OBVIOUS
<1> QED BY <1>1, <1>2, <1>3, <1>4, <1>5, BeginPage

\* An operation of the session is sent.
LEMMA BeginsStep ==
  ASSUME SessionInv, NEW c \in Calls, Boot(c) \/ Login(c) \/ Leave(c) \/ Logout(c)
                                      \/ \E o \in Orgs : SwitchOrg(c, o) \/ Enter(c, o)
  PROVE  SessionInv'
<1> USE WebClientAssumption
<1>0. ClientTypeOK /\ Nothing \in Orgs \union {Nothing} /\ left \in 0..MaxEvents
  BY DEF SessionInv, ClientTypeOK
<1>1. /\ ~Busy(c) /\ UNCHANGED <<sessionVars, lost>> /\ left' \in 0..MaxEvents
      /\ \E k \in Call :
           /\ call' = [call EXCEPT ![c] = k] /\ k.tok = cookie /\ k.at \in {"sent", "refreshing"}
           /\ \/ k.op = "boot" /\ Boot(c)
              \/ k.op = "login" /\ Login(c)
              \/ k.op \in {"leave", "logout"} /\ me \in Orgs /\ Begins
              \/ k.op \in {"switch", "enter"} /\ k.org \in Orgs /\ me \in Orgs /\ Begins
  <2>1. CASE Boot(c)
    <3>1. SendRefresh(c, "boot") /\ "boot" \in SessionOps \union PageOps
      BY <2>1 DEF Boot, SessionOps
    <3>2. ~Busy(c) /\ \E k \in Call : /\ call' = [call EXCEPT ![c] = k] /\ k.tok = cookie
                                      /\ k.at = "refreshing" /\ k.op = "boot"
      BY <1>0, <3>1, SendRefreshCall
    <3>3. /\ UNCHANGED <<sessionVars, lost>> /\ left' \in 0..MaxEvents
      BY <1>0, <2>1 DEF Boot, Begins
    <3> QED BY <2>1, <3>2, <3>3
  <2>2. CASE Login(c)
    <3>1. Send(c, "login", Nothing) /\ "login" \in SessionOps \union PageOps
      BY <2>2 DEF Login, SessionOps
    <3>2. ~Busy(c) /\ \E k \in Call : /\ call' = [call EXCEPT ![c] = k] /\ k.tok = cookie
                                      /\ k.at = "sent" /\ k.op = "login"
      BY <1>0, <3>1, SendCall
    <3>3. /\ UNCHANGED <<sessionVars, lost>> /\ left' \in 0..MaxEvents
      BY <1>0, <2>2 DEF Login, Event
    <3> QED BY <2>2, <3>2, <3>3
  <2>3. CASE Leave(c)
    <3>1. SendRefresh(c, "leave") /\ "leave" \in SessionOps \union PageOps
      BY <2>3 DEF Leave, SessionOps
    <3>2. ~Busy(c) /\ \E k \in Call : /\ call' = [call EXCEPT ![c] = k] /\ k.tok = cookie
                                      /\ k.at = "refreshing" /\ k.op = "leave"
      BY <1>0, <3>1, SendRefreshCall
    <3>3. /\ UNCHANGED <<sessionVars, lost>> /\ left' \in 0..MaxEvents /\ me \in Orgs /\ Begins
      BY <1>0, <2>3 DEF Leave, Begins, Event
    <3> QED BY <2>3, <3>2, <3>3
  <2>4. CASE Logout(c)
    <3>1. Send(c, "logout", Nothing) /\ "logout" \in SessionOps \union PageOps
      BY <2>4 DEF Logout, SessionOps
    <3>2. ~Busy(c) /\ \E k \in Call : /\ call' = [call EXCEPT ![c] = k] /\ k.tok = cookie
                                      /\ k.at = "sent" /\ k.op = "logout"
      BY <1>0, <3>1, SendCall
    <3>3. /\ UNCHANGED <<sessionVars, lost>> /\ left' \in 0..MaxEvents /\ me \in Orgs /\ Begins
      BY <1>0, <2>4 DEF Logout, Begins, Event
    <3> QED BY <2>4, <3>2, <3>3
  <2>5. CASE \E o \in Orgs : SwitchOrg(c, o) \/ Enter(c, o)
    <3>1. PICK o \in Orgs : SwitchOrg(c, o) \/ Enter(c, o)
      BY <2>5
    <3>2. PICK op \in {"switch", "enter"} : Send(c, op, o)
      BY <3>1 DEF SwitchOrg, Enter
    <3>3. op \in SessionOps \union PageOps
      BY DEF SessionOps
    <3>4. ~Busy(c) /\ \E k \in Call : /\ call' = [call EXCEPT ![c] = k] /\ k.tok = cookie
                                      /\ k.at = "sent" /\ k.op = op /\ k.org = o
      BY <1>0, <3>2, <3>3, SendCall
    <3>5. UNCHANGED <<sessionVars, lost>> /\ left' \in 0..MaxEvents /\ me \in Orgs /\ Begins
      BY <1>0, <3>1 DEF SwitchOrg, Enter, Begins, Event
    <3> QED BY <3>4, <3>5
  <2> QED BY <2>1, <2>2, <2>3, <2>4, <2>5
<1>2. PICK k \in Call :
           /\ call' = [call EXCEPT ![c] = k] /\ k.tok = cookie /\ k.at \in {"sent", "refreshing"}
           /\ \/ k.op = "boot" /\ Boot(c)
              \/ k.op = "login" /\ Login(c)
              \/ k.op \in {"leave", "logout"} /\ me \in Orgs /\ Begins
              \/ k.op \in {"switch", "enter"} /\ k.org \in Orgs /\ me \in Orgs /\ Begins
  BY <1>1
<1>3. /\ call' \in [Calls -> Call] /\ call'[c] = k
      /\ \A d \in Calls \ {c} : call'[d] = call[d]
  BY <1>2, OneCall DEF SessionInv
<1>4. (mixed => mixed') /\ mixed' \in BOOLEAN
  BY <1>2 DEF Boot, Login, Begins, SessionInv, ClientTypeOK
<1>5. ClientTypeOK'
  BY <1>1, <1>3, <1>4 DEF SessionInv, ClientTypeOK, sessionVars
<1>6. \/ /\ k.op = "boot" /\ me = Unknown /\ \A d \in Calls : ~Busy(d)
      \/ /\ k.op = "login" /\ me = Nobody /\ \A d \in Calls : Busy(d) => mixed'
      \/ /\ k.op \in {"switch", "enter", "leave", "logout"} /\ me \in Orgs
         /\ k.op \in {"switch", "enter"} => k.org \in Orgs
         /\ \A d \in Calls : InSession(d) => mixed'
  <2>1. CASE k.op = "boot" /\ Boot(c)
    BY <2>1 DEF Boot, Busy, SessionInv, OneOperation
  <2>2. CASE k.op = "login" /\ Login(c)
    BY <2>2 DEF Login, Busy
  <2>3. CASE k.op \in {"leave", "logout", "switch", "enter"} /\ Begins
    <3>1. \A d \in Calls : InSession(d) => mixed'
      BY <2>3 DEF Begins, AtRest, InSession, Busy, SessionOps, PageOps
    <3> QED BY <1>2, <2>3, <3>1 DEF Boot, Login
  <2> QED BY <1>2, <2>1, <2>2, <2>3
<1> QED BY <1>1, <1>2, <1>3, <1>4, <1>5, <1>6, BeginSession

\* An answer is given by the server.
LEMMA ServeStep ==
  ASSUME SessionInv, NEW c \in Calls,
         Unauthorized(c) \/ Broken(c) \/ ServeRefresh(c) \/ ServeLogin(c) \/ ServeSwitch(c)
         \/ ServeEnter(c) \/ ServeLogout(c) \/ ServeMe(c)
  PROVE  SessionInv'
<1> USE WebClientAssumption
<1>0. issued \in Nat /\ call[c].tok \in 0..issued /\ ClientTypeOK /\ TokenShape
      /\ call[c] \in Call /\ left \in 0..MaxEvents
  BY CallFields DEF SessionInv, WayShape, ClientTypeOK
<1>1. CASE Unauthorized(c)
  BY <1>0, <1>1, AnsweredStep, SameSession
     DEF Unauthorized, Event, Busy, Carries, CallAt, sessionVars
<1>2. CASE Broken(c)
  BY <1>0, <1>2, AnsweredStep, SameSession DEF Broken, Event, Busy, Carries, CallAt, sessionVars
<1>3. CASE ServeEnter(c)
  BY <1>0, <1>3, AnsweredStep, SameSession
     DEF ServeEnter, Authorized, Busy, Carries, CallAt, sessionVars
<1>4. CASE ServeLogout(c)
  <2>1. SameTokens /\ TokenType'
    BY <1>0, <1>4, EndedFamily DEF ServeLogout
  <2> QED BY <1>0, <1>4, <2>1, AnsweredStep DEF ServeLogout, Busy, Carries, CallAt
<1>5. CASE ServeMe(c)
  <2>1. /\ call[c].at = "sent" /\ call[c].acc # Nothing /\ call[c].op \in {"me", "bootMe"}
        /\ UNCHANGED <<left, token, issued, cookie, other, access, me, banner, lost, mixed>>
    BY <1>5 DEF ServeMe, Authorized, sessionVars
  <2>2. call[c].acc.org \in Orgs /\ call \in [Calls -> Call]
    BY <1>0, <2>1 DEF Call, Access, ClientTypeOK
  <2>3. Busy(c) /\ ~Carries(c)
    BY <2>1 DEF Busy, Carries
  <2> DEFINE x == [call[c] EXCEPT !.at = "ok", !.org = call[c].acc.org]
             y == [call[c] EXCEPT !.at = "unauthorized"]
  <2>4. /\ x \in Call /\ x.op = call[c].op /\ x.tok = call[c].tok /\ x.at = "ok"
        /\ x.org = call[c].acc.org
        /\ y \in Call /\ y.op = call[c].op /\ y.tok = call[c].tok /\ y.at = "unauthorized"
    BY <1>0, <2>2 DEF Call, CallAt
  <2>5. call' = [call EXCEPT ![c] = x] \/ call' = [call EXCEPT ![c] = y]
    BY <1>5, <2>2 DEF ServeMe
  <2> HIDE DEF x, y
  <2>6. SameTokens
    BY <2>1, SameSession
  <2>7. CASE call' = [call EXCEPT ![c] = x]
    <3>1. ClientTypeOK'
      BY <1>0, <2>1, <2>4, <2>7, OneCall DEF ClientTypeOK
    <3> QED BY <2>1, <2>2, <2>3, <2>4, <2>6, <2>7, <3>1, AnswerStep
  <2>8. CASE call' = [call EXCEPT ![c] = y]
    <3>1. ClientTypeOK'
      BY <1>0, <2>1, <2>4, <2>8, OneCall DEF ClientTypeOK
    <3> QED BY <2>1, <2>2, <2>3, <2>4, <2>6, <2>8, <3>1, AnswerStep
  <2> QED BY <2>5, <2>7, <2>8
<1>6. CASE ServeRefresh(c)
  <2>1. /\ call[c].at = "refreshing" /\ Busy(c) /\ ~Carries(c)
        /\ UNCHANGED <<left, cookie, other, access, me, banner, lost, mixed>>
    BY <1>6 DEF ServeRefresh, Busy, Carries
  <2>2. CASE Live(call[c].tok)
    <3> DEFINE n == call[c].tok
               k == [call[c] EXCEPT !.at = "rotated", !.tok = issued + 1]
    <3>1. n \in 1..issued /\ token[n].state = "live" /\ token[n].org \in Orgs
      BY <1>0, <2>2 DEF Live, TokenShape
    <3>2. Rotate(n, token[n].org) /\ call' = [call EXCEPT ![c] = k]
      BY <1>0, <1>6, <2>2 DEF ServeRefresh, ClientTypeOK
    <3>3. NewToken(n, token[n].org) /\ TokenShape' /\ TokenType'
      BY <1>0, <3>1, <3>2, RotateToken
    <3>4. issued' = issued + 1 /\ issued + 1 \in 0..MaxTokens
      BY <3>3 DEF NewToken, Numbers
    <3>5. /\ k \in Call /\ k.op = call[c].op /\ k.at = "rotated" /\ k.tok = issued'
          /\ k.org = call[c].org
      BY <1>0, <3>4 DEF Call, CallAt
    <3> HIDE DEF k
    <3>6. ClientTypeOK'
      BY <1>0, <2>1, <3>2, <3>3, <3>4, <3>5, OneCall DEF ClientTypeOK, TokenType
    <3>7. n \in 0..issued /\ n # 0
      BY <1>0, <3>1
    <3> QED BY <2>1, <3>1, <3>2, <3>3, <3>5, <3>6, <3>7, CarryStep
  <2>3. CASE ~Live(call[c].tok)
    BY <1>0, <1>6, <2>1, <2>3, AnsweredStep, SameSession DEF ServeRefresh, CallAt
  <2> QED BY <2>2, <2>3
<1>7. CASE ServeSwitch(c)
  <2>1. /\ call[c].at = "sent" /\ call[c].op = "switch" /\ Busy(c) /\ ~Carries(c)
        /\ UNCHANGED <<left, cookie, other, access, me, banner, lost, mixed>>
    BY <1>7 DEF ServeSwitch, Authorized, Busy, Carries
  <2>2. CASE Live(call[c].tok)
    <3> DEFINE n == call[c].tok
               k == [call[c] EXCEPT !.at = "ok", !.tok = issued + 1]
    <3>1. n \in 1..issued /\ token[n].state = "live" /\ call[c].org \in Orgs
      BY <1>0, <2>1, <2>2 DEF Live, SessionInv, OrgShape
    <3>2. Rotate(n, call[c].org) /\ call' = [call EXCEPT ![c] = k]
      BY <1>0, <1>7, <2>2 DEF ServeSwitch, ClientTypeOK
    <3>3. NewToken(n, call[c].org) /\ TokenShape' /\ TokenType'
      BY <1>0, <3>1, <3>2, RotateToken
    <3>4. issued' = issued + 1 /\ issued + 1 \in 0..MaxTokens
      BY <3>3 DEF NewToken, Numbers
    <3>5. /\ k \in Call /\ k.op = call[c].op /\ k.at = "ok" /\ k.tok = issued'
          /\ k.org = call[c].org
      BY <1>0, <3>4 DEF Call, CallAt
    <3> HIDE DEF k
    <3>6. ClientTypeOK'
      BY <1>0, <2>1, <3>2, <3>3, <3>4, <3>5, OneCall DEF ClientTypeOK, TokenType
    <3>7. n \in 0..issued /\ n # 0
      BY <1>0, <3>1
    <3> QED BY <2>1, <3>1, <3>2, <3>3, <3>5, <3>6, <3>7, CarryStep
  <2>3. CASE ~Live(call[c].tok)
    BY <1>0, <1>7, <2>1, <2>3, AnsweredStep, SameSession DEF ServeSwitch, CallAt
  <2> QED BY <2>2, <2>3
<1>8. CASE ServeLogin(c)
  <2>1. /\ call[c].at = "sent" /\ call[c].op = "login" /\ Busy(c) /\ ~Carries(c)
        /\ UNCHANGED <<left, cookie, other, access, me, banner, lost, mixed>>
    BY <1>8 DEF ServeLogin, Busy, Carries
  <2>2. ASSUME NEW o \in Mine, Issue(o),
               call' = [call EXCEPT ![c].at = "ok", ![c].org = o, ![c].tok = issued + 1]
        PROVE  SessionInv'
    <3> DEFINE k == [call[c] EXCEPT !.at = "ok", !.org = o, !.tok = issued + 1]
    <3>1. o \in Orgs
      OBVIOUS
    <3>2. call' = [call EXCEPT ![c] = k]
      BY <1>0, <2>2 DEF ClientTypeOK
    <3>3. NewToken(0, o) /\ TokenShape' /\ TokenType'
      BY <1>0, <2>2, <3>1, IssueToken
    <3>4. issued' = issued + 1 /\ issued + 1 \in 0..MaxTokens
      BY <3>3 DEF NewToken, Numbers
    <3>5. /\ k \in Call /\ k.op = call[c].op /\ k.at = "ok" /\ k.tok = issued' /\ k.org = o
      BY <1>0, <3>1, <3>4 DEF Call, CallAt
    <3> HIDE DEF k
    <3>6. ClientTypeOK'
      BY <1>0, <2>1, <3>2, <3>3, <3>4, <3>5, OneCall DEF ClientTypeOK, TokenType
    <3>7. 0 \in 0..issued
      BY <1>0
    <3> QED BY <2>1, <3>1, <3>2, <3>3, <3>5, <3>6, <3>7, CarryStep
  <2>3. CASE Answered(c, "unauthorized") /\ UNCHANGED <<token, issued>>
    BY <1>0, <2>1, <2>3, AnsweredStep, SameSession DEF CallAt
  <2> QED BY <1>8, <2>2, <2>3 DEF ServeLogin
<1> QED BY <1>1, <1>2, <1>3, <1>4, <1>5, <1>6, <1>7, <1>8

\* A request of the session comes to nothing.
LEMMA FailStep ==
  ASSUME SessionInv, NEW c \in Calls, Refused(c) \/ Rejected(c) \/ Lost(c) PROVE SessionInv'
<1> USE WebClientAssumption
<1>1. /\ Busy(c) /\ call[c].op \in SessionOps /\ Fails(c)
      /\ access' \in {access, Nothing} /\ left' \in 0..MaxEvents
      /\ UNCHANGED <<token, issued, cookie, other>>
      /\ (Carries(c) \/ lost => lost') /\ lost' \in BOOLEAN
  <2>1. lost \in BOOLEAN /\ left \in 0..MaxEvents
    BY DEF SessionInv, ClientTypeOK
  <2>2. CASE Refused(c)
    BY <2>1, <2>2 DEF Refused, Busy, Carries
  <2>3. CASE Rejected(c)
    BY <2>1, <2>3 DEF Rejected, Busy, Carries
  <2>4. CASE Lost(c)
    <3>1. left' \in 0..MaxEvents
      BY <2>1, <2>4 DEF Lost, Event
    <3>2. lost' = (lost \/ Carries(c))
      BY <2>4 DEF Lost
    <3>3. lost' \in BOOLEAN /\ (Carries(c) \/ lost => lost')
      BY <3>2
    <3> QED BY <2>4, <3>1, <3>3 DEF Lost, Busy
  <2> QED BY <2>2, <2>3, <2>4
<1>2. /\ call' = [call EXCEPT ![c] = NoCall] /\ call' \in [Calls -> Call]
      /\ (mixed => mixed') /\ mixed' \in BOOLEAN /\ banner' \in BOOLEAN
      /\ me' \in Orgs \union {Nobody, Unknown}
  <2>1. call' = [call EXCEPT ![c] = NoCall]
    BY <1>1 DEF Fails
  <2> QED BY <1>1, <2>1, NoCallType, OneCall DEF Fails, SessionInv, ClientTypeOK
<1>3. ClientTypeOK'
  BY <1>1, <1>2 DEF SessionInv, ClientTypeOK
<1>4. \/ UNCHANGED <<me, banner>> /\ (Loading(c) => mixed' \/ me \notin Orgs)
      \/ call[c].op \in SessionOps /\ me' = Nobody
  <2>1. CASE call[c].op \in {"boot", "bootMe", "leave", "logout"}
    BY <1>1, <2>1 DEF Fails
  <2>2. CASE call[c].op \notin {"boot", "bootMe", "leave", "logout"}
    BY <1>1, <2>2 DEF Fails, Loading, SessionInv, ClientTypeOK
  <2> QED BY <2>1, <2>2
<1> QED BY <1>1, <1>2, <1>3, <1>4, EndStep

LEMMA ClientSession ==
  ASSUME SessionInv, NEW c \in Calls, ClientStep(c) PROVE SessionInv'
<1>1. CASE Boot(c) \/ Login(c) \/ Leave(c) \/ Logout(c)
           \/ \E o \in Orgs : SwitchOrg(c, o) \/ Enter(c, o)
  BY <1>1, BeginsStep
<1>2. CASE Unauthorized(c) \/ Broken(c) \/ ServeRefresh(c) \/ ServeLogin(c) \/ ServeSwitch(c)
           \/ ServeEnter(c) \/ ServeLogout(c) \/ ServeMe(c)
  BY <1>2, ServeStep
<1>3. CASE Refused(c) \/ Rejected(c) \/ Lost(c)
  BY <1>3, FailStep
<1>4. CASE RefreshFirst(c) \/ Refreshed(c) \/ Adopt(c) \/ Entered(c) \/ LoggedOut(c) \/ Loaded(c)
  BY <1>4, RefreshFirstStep, RefreshedStep, AdoptStep, EnteredStep, LoggedOutStep, LoadedStep
<1> QED BY <1>1, <1>2, <1>3, <1>4 DEF ClientStep

-----------------------------------------------------------------------------
(* Every step of the page, for the session. *)

\* A fetch begins in place of those under way.
LEMMA AgainStep ==
  ASSUME SessionInv, NEW c \in Calls, Again(c), UNCHANGED <<left, sessionVars, lost, mixed>>,
         (me \in Orgs /\ ~Busy(c)) \/ (call[c].op \in PageOps /\ call[c].at = "ok")
  PROVE  /\ SessionInv' /\ call' \in [Calls -> Call]
         /\ call'[c].op = "list" /\ call'[c].at = "sent"
         /\ \A d \in Calls \ {c} : \/ call'[d] = call[d] /\ call[d].op # "list"
                                   \/ call'[d] = call[d] /\ ~Busy(d)
                                   \/ /\ Busy(d) /\ call[d].op = "list"
                                      /\ call'[d] = [call[d] EXCEPT !.op = "ignored"]
<1> DEFINE k == [NoCall EXCEPT !.op = "list", !.at = "sent", !.acc = access, !.tok = cookie]
<1>0. ClientTypeOK /\ cookie \in 0..MaxTokens /\ access \in Access \union {Nothing}
  BY WebClientAssumption DEF SessionInv, ClientTypeOK
<1>1. k \in Call /\ k.op = "list" /\ k.at = "sent" /\ k.tok = cookie
  BY <1>0, NoCallType DEF Call, CallAt, NoCall, PageOps
<1>2. call' = [Abandon EXCEPT ![c] = k]
  BY DEF Again
<1> HIDE DEF k
<1>3. ASSUME NEW d \in Calls
      PROVE  /\ Abandon[d] \in Call
             /\ \/ Abandon[d] = call[d] /\ call[d].op # "list"
                \/ Abandon[d] = call[d] /\ ~Busy(d)
                \/ /\ Busy(d) /\ call[d].op = "list"
                   /\ Abandon[d] = [call[d] EXCEPT !.op = "ignored"]
  <2>1. call[d] \in Call
    BY <1>0, CallFields
  <2>2. CASE d \in Listing
    <3>1. Abandon[d] = [call[d] EXCEPT !.op = "ignored"] /\ Busy(d) /\ call[d].op = "list"
      BY <2>2 DEF Abandon, Listing, Busy
    <3> QED BY <2>1, <3>1 DEF Call, PageOps
  <2>3. CASE d \notin Listing
    <3>1. Abandon[d] = call[d] /\ (call[d].op # "list" \/ ~Busy(d))
      BY <2>3 DEF Abandon, Listing, Busy
    <3> QED BY <2>1, <3>1
  <2> QED BY <2>2, <2>3
<1>4. Abandon = [d \in Calls |-> Abandon[d]]
  BY DEF Abandon
<1>5. /\ call' \in [Calls -> Call] /\ call'[c] = k
      /\ \A d \in Calls \ {c} : call'[d] = Abandon[d]
  BY <1>1, <1>2, <1>3, <1>4
<1>6. \A d \in Calls \ {c} : \/ call'[d] = call[d]
                             \/ /\ call[d].op \in PageOps /\ Busy(d)
                                /\ call'[d] = [call[d] EXCEPT !.op = "ignored"]
  <2>1. "list" \in PageOps
    BY DEF PageOps
  <2> QED BY <1>3, <1>5, <2>1
<1>7. ClientTypeOK'
  BY <1>0, <1>5 DEF ClientTypeOK, sessionVars
<1>8. k.op \in PageOps /\ k.at \in {"sent", "refreshing"}
  BY <1>1 DEF PageOps
<1>9. UNCHANGED <<sessionVars, lost, mixed>>
  OBVIOUS
<1>10. SessionInv'
  BY <1>1, <1>5, <1>6, <1>7, <1>8, <1>9, BeginPage
<1> QED BY <1>1, <1>3, <1>5, <1>10

\* Request c of the page, or none, is over.
LEMMA OverStep ==
  ASSUME SessionInv, NEW c \in Calls, ~Busy(c) \/ call[c].op \in PageOps,
         call' = [call EXCEPT ![c] = NoCall],
         Carries(c) \/ lost => lost', lost' \in BOOLEAN, left' \in 0..MaxEvents,
         access' \in {access, Nothing}, UNCHANGED <<token, issued, cookie, other, me, banner, mixed>>
  PROVE  SessionInv' /\ call' \in [Calls -> Call]
<1>1. call' \in [Calls -> Call]
  BY NoCallType, OneCall DEF SessionInv
<1>2. ClientTypeOK'
  BY <1>1 DEF SessionInv, ClientTypeOK
<1>3. ~Loading(c)
  BY DEF Loading, PageOps
<1> QED BY <1>1, <1>2, <1>3, EndStep

\* A request of the page is served.
LEMMA ServedStep ==
  ASSUME SessionInv, NEW c \in Calls, Authorized(c), call[c].op \in PageOps, NEW v \in Nat,
         call' = [call EXCEPT ![c].at = "ok", ![c].org = call[c].acc.org, ![c].ver = v],
         UNCHANGED <<left, sessionVars, lost, mixed>>
  PROVE  /\ SessionInv' /\ call' \in [Calls -> Call] /\ call[c].acc.org \in Orgs
         /\ Busy(c) /\ call[c].at # "ok"
         /\ call'[c].op = call[c].op /\ call'[c].at = "ok"
         /\ call'[c].org = call[c].acc.org /\ call'[c].ver = v
         /\ \A d \in Calls \ {c} : call'[d] = call[d]
<1> DEFINE k == [call[c] EXCEPT !.at = "ok", !.org = call[c].acc.org, !.ver = v]
<1>1. call[c] \in Call /\ call[c].at = "sent" /\ call[c].acc # Nothing /\ ClientTypeOK
  BY CallFields DEF SessionInv, Authorized
<1>2. call[c].acc.org \in Orgs
  BY <1>1 DEF Call, Access
<1>3. /\ k \in Call /\ k.op = call[c].op /\ k.tok = call[c].tok /\ k.at = "ok"
      /\ k.org = call[c].acc.org /\ k.ver = v
  BY <1>1, <1>2 DEF Call, CallAt
<1>4. call' = [call EXCEPT ![c] = k]
  BY <1>1 DEF ClientTypeOK
<1> HIDE DEF k
<1>5. /\ call' \in [Calls -> Call] /\ call'[c] = k
      /\ \A d \in Calls \ {c} : call'[d] = call[d]
  BY <1>1, <1>3, <1>4, OneCall
<1>6. ClientTypeOK'
  BY <1>1, <1>5 DEF ClientTypeOK, sessionVars
<1>7. Busy(c) /\ ~Carries(c) /\ SameTokens
  BY <1>1 DEF Busy, Carries, SameTokens, sessionVars
<1>8. call[c].op \notin {"switch", "enter", "login", "me", "bootMe"}
  BY DEF PageOps
<1>9. UNCHANGED <<issued, cookie, other, access, me, banner, lost, mixed>>
  BY DEF sessionVars
<1>10. SessionInv'
  BY <1>2, <1>3, <1>4, <1>6, <1>7, <1>8, <1>9, AnswerStep
<1> QED BY <1>1, <1>2, <1>3, <1>5, <1>7, <1>10

-----------------------------------------------------------------------------
(* What holds of the page. *)

\* A step of the session leaves the requests of the page at what they are.
LEMMA ClientCalls ==
  ASSUME SessionInv, NEW c \in Calls, ClientStep(c), NEW d \in Calls,
         Busy(d)', call'[d].op \in PageOps
  PROVE  /\ Busy(d) /\ call'[d].op = call[d].op
         /\ call'[d].at = "ok" => call'[d] = call[d]
         /\ call[d].at = "ok" => call'[d].at = "ok"
<1>1. call \in [Calls -> Call]
  BY DEF SessionInv, ClientTypeOK
<1>2. CASE Boot(c) \/ Login(c) \/ Leave(c) \/ Logout(c)
           \/ \E o \in Orgs : SwitchOrg(c, o) \/ Enter(c, o)
  <2>1. \E op \in SessionOps : SendRefresh(c, op) \/ \E o \in Orgs \union {Nothing} : Send(c, op, o)
    BY <1>2 DEF Boot, Login, Leave, Logout, SwitchOrg, Enter, SessionOps
  <2>2. call'[c].op \in SessionOps
    BY <1>1, <2>1 DEF Send, SendRefresh, NoCall
  <2>3. \A e \in Calls \ {c} : call'[e] = call[e]
    BY <1>1, <2>1 DEF Send, SendRefresh
  <2>4. d # c
    BY <2>2 DEF PageOps, SessionOps
  <2> QED BY <2>3, <2>4 DEF Busy
<1>3. CASE Unauthorized(c) \/ Broken(c) \/ RefreshFirst(c)
  BY <1>1, <1>3 DEF Unauthorized, Broken, RefreshFirst, Answered, Busy, Call
<1>4. CASE ServeRefresh(c) \/ ServeLogin(c) \/ ServeSwitch(c)
  <2>1. call[c] \in Call
    BY <1>1
  <2>2. \E k : /\ call' = [call EXCEPT ![c] = k] /\ k.op = call[c].op
               /\ \/ k.at # "ok" /\ call[c].at = "refreshing"
                  \/ call[c].op \in {"login", "switch"}
    <3>1. CASE Answered(c, "refused") /\ call[c].at = "refreshing"
      BY <1>1, <2>1, <3>1, AnsweredCall DEF CallAt, SessionInv
    <3>2. CASE Answered(c, "unauthorized") /\ call[c].op \in {"login", "switch"}
      BY <1>1, <2>1, <3>2, AnsweredCall DEF CallAt, SessionInv
    <3>3. CASE call' = [call EXCEPT ![c].at = "rotated", ![c].tok = issued + 1] /\ call[c].at = "refreshing"
      <4> DEFINE k == [call[c] EXCEPT !.at = "rotated", !.tok = issued + 1]
      <4>1. k.op = call[c].op /\ k.at = "rotated"
        BY <2>1 DEF Call
      <4>2. call' = [call EXCEPT ![c] = k]
        BY <1>1, <3>3
      <4> HIDE DEF k
      <4> QED BY <3>3, <4>1, <4>2
    <3>4. CASE call' = [call EXCEPT ![c].at = "ok", ![c].tok = issued + 1] /\ call[c].op = "switch"
      <4> DEFINE k == [call[c] EXCEPT !.at = "ok", !.tok = issued + 1]
      <4>1. k.op = call[c].op
        BY <2>1 DEF Call
      <4>2. call' = [call EXCEPT ![c] = k]
        BY <1>1, <3>4
      <4> HIDE DEF k
      <4> QED BY <3>4, <4>1, <4>2
    <3>5. ASSUME NEW o \in Mine, call[c].op = "login",
                 call' = [call EXCEPT ![c].at = "ok", ![c].org = o, ![c].tok = issued + 1]
          PROVE  \E k : call' = [call EXCEPT ![c] = k] /\ k.op = call[c].op /\ call[c].op = "login"
      <4> DEFINE k == [call[c] EXCEPT !.at = "ok", !.org = o, !.tok = issued + 1]
      <4>1. k.op = call[c].op
        BY <2>1 DEF Call
      <4>2. call' = [call EXCEPT ![c] = k]
        BY <1>1, <3>5
      <4> HIDE DEF k
      <4> QED BY <3>5, <4>1, <4>2
    <3>6. CASE ServeRefresh(c)
      BY <3>1, <3>3, <3>6 DEF ServeRefresh
    <3>7. CASE ServeSwitch(c)
      BY <3>2, <3>4, <3>7 DEF ServeSwitch
    <3>8. CASE ServeLogin(c)
      BY <3>2, <3>5, <3>8 DEF ServeLogin
    <3> QED BY <1>4, <3>6, <3>7, <3>8
  <2>3. /\ call'[c].op = call[c].op
        /\ (call'[c].at # "ok" /\ call[c].at = "refreshing") \/ call[c].op \in {"login", "switch"}
        /\ \A e \in Calls \ {c} : call'[e] = call[e]
    BY <1>1, <2>2
  <2> QED BY <2>3 DEF Busy, PageOps
<1>5. CASE ServeEnter(c) \/ ServeLogout(c) \/ ServeMe(c)
  BY <1>1, <1>5 DEF ServeEnter, ServeLogout, ServeMe, Authorized, Answered, Busy, PageOps, Call
<1>6. CASE Refused(c) \/ Rejected(c) \/ Lost(c) \/ LoggedOut(c) \/ Loaded(c)
  BY <1>1, <1>6 DEF Refused, Rejected, Lost, LoggedOut, Loaded, Fails, NoCall, Busy
<1>7. CASE Refreshed(c)
  BY <1>1, <1>7 DEF Refreshed, NoCall, Busy, PageOps, Call
<1>8. CASE Adopt(c) \/ Entered(c)
  BY <1>1, <1>8 DEF Adopt, Entered, NoCall, Busy, PageOps
<1> QED BY <1>2, <1>3, <1>4, <1>5, <1>6, <1>7, <1>8 DEF ClientStep

Query == [org : Orgs \union {Nothing}, ver : Nat,
          at : {"idle", "fetch", "retry", "fresh", "error"}, failures : 0..1]

LEMMA QueryAt ==
  ASSUME NEW q \in Query, NEW at \in {"idle", "fetch", "retry", "fresh", "error"}, NEW f \in 0..1
  PROVE  [q EXCEPT !.at = at, !.failures = f] \in Query /\ [q EXCEPT !.at = at, !.failures = f].at = at
  BY DEF Query

PageTypeOK ==
  /\ inbox \in [Orgs -> Nat]
  /\ room \in Orgs \union {"off", "closed"}
  /\ news \in Nat
  /\ query \in Query
  /\ heard \in [org : Orgs \union {Nothing}, ver : Nat, early : BOOLEAN]
  /\ draft \in {"empty", "text", "sending"}
  /\ posted \in [times : Nat, unsure : BOOLEAN]

PageOK == PageTypeOK /\ PageInv

\* A step of the session leaves the page as it is.
LEMMA ClientPage ==
  ASSUME SessionInv, PageOK, UNCHANGED pageVars,
         \/ \E c \in Calls : ClientStep(c)
         \/ UNCHANGED call
  PROVE  PageOK'
<1> USE DEF pageVars
<1>1. PageTypeOK' /\ HeardIsShown' /\ PostedOnce'
  BY DEF PageOK, PageInv, PageTypeOK, HeardIsShown, PostedOnce
<1>2. ASSUME NEW d \in Calls, Busy(d)', call'[d].op \in PageOps
      PROVE  /\ Busy(d) /\ call'[d].op = call[d].op
             /\ call'[d].at = "ok" => call'[d] = call[d]
             /\ call[d].at = "ok" => call'[d].at = "ok"
  BY <1>2, ClientCalls DEF Busy
<1>3. \A d \in Calls : call'[d].at = "ok" => Busy(d)'
  BY DEF Busy
<1>4. NewsShape'
  BY <1>2, <1>3 DEF PageOK, PageInv, NewsShape, PageOps
<1>5. FetchShape'
  BY <1>2, <1>3 DEF PageOK, PageInv, FetchShape, PageOps
<1>6. PostShape'
  <2>1. \A d \in Calls : PostingNow(d)' => PostingNow(d) /\ (call'[d].at # "ok" => call[d].at # "ok")
    BY <1>2 DEF PostingNow, Busy, PageOps
  <2> QED BY <2>1 DEF PageOK, PageInv, PostShape
<1>7. ListShape'
  <2>1. \A d \in Calls : ListingNow(d)' => ListingNow(d)
    BY <1>2 DEF ListingNow, Busy, PageOps
  <2> QED BY <2>1 DEF PageOK, PageInv, ListShape
<1> QED BY <1>1, <1>4, <1>5, <1>6, <1>7 DEF PageOK, PageInv

\* Request c begins, and is not one that posts.
LEMMA SendKeeps ==
  ASSUME SessionInv, PageOK, NEW c \in Calls, NEW op \in PageOps \ {"post"}, Send(c, op, Nothing),
         UNCHANGED <<inbox, room, news, draft, posted>>, PageTypeOK', HeardIsShown',
         \/ op # "list" /\ UNCHANGED <<heard, query>>
         \/ /\ query.at \in {"idle", "retry"} /\ query'.at = "fetch"
            /\ heard'.org = heard.org /\ heard'.ver = heard.ver
  PROVE  PageOK'
<1>1. /\ call'[c].op = op /\ call'[c].at = "sent"
      /\ \A d \in Calls \ {c} : call'[d] = call[d]
  BY DEF Send, NoCall, SessionInv, ClientTypeOK
<1>2. NewsShape' /\ PostShape' /\ PostedOnce'
  BY <1>1 DEF PageOK, PageInv, NewsShape, PostShape, PostingNow, Busy, PostedOnce
<1>3. FetchShape' /\ ListShape'
  BY <1>1 DEF PageOK, PageInv, FetchShape, ListShape, ListingNow, Busy
<1> QED BY <1>2, <1>3 DEF PageOK, PageInv

\* Request c is over.
LEMMA OverKeeps ==
  ASSUME SessionInv, PageOK, NEW c \in Calls, call' = [call EXCEPT ![c] = NoCall],
         UNCHANGED <<inbox, room, news, heard, posted>>, PageTypeOK', HeardIsShown',
         draft' = draft \/ (draft' = "empty" /\ PostingNow(c)),
         query' = query \/ ListingNow(c)
  PROVE  PageOK'
<1>1. ~Busy(c)' /\ \A d \in Calls \ {c} : call'[d] = call[d]
  BY DEF NoCall, Busy, SessionInv, ClientTypeOK
<1>2. NewsShape' /\ FetchShape' /\ PostShape' /\ PostedOnce'
  BY <1>1 DEF PageOK, PageInv, NewsShape, FetchShape, PostShape, PostingNow, Busy, PostedOnce
<1>3. ListShape'
  BY <1>1 DEF PageOK, PageInv, ListShape, ListingNow, Busy
<1> QED BY <1>2, <1>3 DEF PageOK, PageInv

\* A change is heard of, at version v of organization o: it is fetched, unless the
\* first fetch is to come or under way.
LEMMA LearnKeeps ==
  ASSUME SessionInv, PageOK, NEW c \in Calls, NEW o \in Orgs, NEW v \in Nat, v <= inbox[o],
         Invalidate(c), Learn(o, v), news' \in {news, 0},
         UNCHANGED <<inbox, room, draft, posted>>,
         UNCHANGED <<left, sessionVars, lost, mixed>>,
         (me \in Orgs /\ ~Busy(c)) \/ (call[c].op = "act" /\ call[c].at = "ok")
  PROVE  SessionInv' /\ PageOK'
<1> USE DEF PageOK, PageInv
<1>0. ClientTypeOK /\ Nothing \notin Orgs
  BY WebClientAssumption DEF SessionInv
<1>1. /\ heard' = [org |-> o, ver |-> v, early |-> query.org = Nothing /\ query.at = "fetch"]
      /\ Again(c) \/ (NotAgain(c) /\ query' = query /\ query.org = Nothing)
  BY DEF Learn, Invalidate, NotAgain
<1>2. SessionInv' /\ call' \in [Calls -> Call]
  <2>1. CASE Again(c)
    BY <2>1, AgainStep DEF PageOps
  <2>2. CASE NotAgain(c)
    <3>1. /\ Carries(c) \/ lost => lost'
          /\ lost' \in BOOLEAN /\ left' \in 0..MaxEvents /\ access' = access
          /\ UNCHANGED <<token, issued, cookie, other, me, banner, mixed>>
      BY <1>0 DEF Carries, Busy, sessionVars, ClientTypeOK, PageOps
    <3>2. ~Busy(c) \/ call[c].op \in PageOps
      BY DEF PageOps
    <3>3. call' = [call EXCEPT ![c] = NoCall]
      BY <2>2 DEF NotAgain
    <3>4. UNCHANGED <<token, issued, cookie, other, me, banner, mixed>> /\ lost' \in BOOLEAN
          /\ (Carries(c) \/ lost => lost') /\ left' \in 0..MaxEvents /\ access' \in {access, Nothing}
      BY <3>1
    <3> HIDE DEF PageOK, PageInv
    <3> QED BY <3>2, <3>3, <3>4, OverStep
  <2> QED BY <1>1, <2>1, <2>2
<1>3. CASE Again(c)
  <2>1. /\ call'[c].op = "list" /\ call'[c].at = "sent"
        /\ \A d \in Calls \ {c} : \/ call'[d] = call[d] /\ call[d].op # "list"
                                  \/ call'[d] = call[d] /\ ~Busy(d)
                                  \/ call[d].op = "list" /\ call'[d] = [call[d] EXCEPT !.op = "ignored"]
    BY <1>3, AgainStep DEF PageOps
  <2>2. \A d \in Calls : call[d] \in Call
    BY <1>0, CallFields
  <2>3. \A d \in Calls \ {c} : /\ ~ListingNow(d)'
                               /\ PostingNow(d)' => call'[d] = call[d]
                               /\ call'[d].at = "ok" => call'[d].op # "list"
                               /\ call'[d].op \in {"post", "act"} => call'[d] = call[d]
    BY <2>1, <2>2 DEF Busy, Call, ListingNow, PostingNow
  <2>4. query' = [query EXCEPT !.at = "fetch", !.failures = 0]
    BY <1>3 DEF Again
  <2>5. query' \in Query /\ query'.at = "fetch"
    <3>1. query \in Query /\ 0 \in 0..1 /\ "fetch" \in {"idle", "fetch", "retry", "fresh", "error"}
      BY DEF PageTypeOK
    <3> QED BY <2>4, <3>1, QueryAt
  <2>6. PageTypeOK'
    BY <1>1, <2>5 DEF PageTypeOK
  <2>7. HeardIsShown' /\ FetchShape' /\ ListShape'
    BY <2>1, <2>3, <2>5 DEF HeardIsShown, FetchShape, ListShape, ListingNow
  <2>8. NewsShape'
    BY <1>0, <1>1, <2>1, <2>3 DEF NewsShape
  <2>9. PostShape' /\ PostedOnce'
    <3>1. \A d \in Calls : PostingNow(d)' => d # c /\ call'[d] = call[d] /\ PostingNow(d)
      BY <2>1, <2>3 DEF PostingNow, Busy
    <3> QED BY <3>1 DEF PostShape, PostedOnce
  <2> QED BY <1>2, <2>6, <2>7, <2>8, <2>9
<1>4. CASE NotAgain(c) /\ query' = query /\ query.org = Nothing
  <2>1. ~Busy(c)' /\ call'[c].at = "idle" /\ \A d \in Calls \ {c} : call'[d] = call[d]
    BY <1>0, <1>4 DEF NotAgain, NoCall, Busy, ClientTypeOK
  <2>2. PageTypeOK'
    BY <1>1, <1>4 DEF PageTypeOK
  <2>3. HeardIsShown'
    BY <1>0, <1>1, <1>4 DEF HeardIsShown
  <2>4. ListShape'
    BY <1>4, <2>1 DEF ListShape, ListingNow, Busy
  <2>5. FetchShape'
    <3>1. ASSUME NEW d \in Calls, call'[d].at = "ok", call'[d].op = "list" PROVE heard'.early
      <4>1. ListingNow(d)
        BY <2>1, <3>1 DEF ListingNow, Busy
      <4> QED BY <1>1, <1>4, <4>1 DEF ListShape
    <3> QED BY <3>1 DEF FetchShape
  <2>6. NewsShape'
    BY <1>0, <1>1, <2>1 DEF NewsShape
  <2>7. PostShape' /\ PostedOnce'
    BY <2>1 DEF PostShape, PostedOnce, PostingNow, Busy
  <2> QED BY <1>2, <2>2, <2>3, <2>4, <2>5, <2>6, <2>7
<1> QED BY <1>1, <1>3, <1>4

\* A request that changes the inbox is served.
LEMMA ServeKeeps ==
  ASSUME SessionInv, PageOK, NEW c \in Calls, NEW told \in BOOLEAN, Authorized(c), Serve(c, told),
         UNCHANGED <<left, sessionVars, lost, mixed, room, query, heard, draft>>,
         \/ call[c].op = "act" /\ UNCHANGED posted
         \/ call[c].op = "post" /\ posted' = [posted EXCEPT !.times = @ + 1]
  PROVE  SessionInv' /\ PageOK'
<1> USE DEF PageOK, PageInv
<1> DEFINE o == call[c].acc.org
<1>1. call[c] \in Call /\ call[c].acc # Nothing /\ o \in Orgs /\ call[c].op \in PageOps
  BY CallFields DEF SessionInv, Authorized, Call, Access, PageOps
<1>2. /\ inbox' \in [Orgs -> Nat] /\ \A x \in Orgs : inbox[x] <= inbox'[x]
      /\ inbox'[o] \in Nat
  BY <1>1, DashboardAssumption DEF Serve, Stored, PageTypeOK
<1>3. SessionInv'
      /\ Busy(c) /\ call[c].at # "ok"
      /\ call'[c].op = call[c].op /\ call'[c].at = "ok" /\ call'[c].org = o /\ call'[c].ver = inbox'[o]
      /\ \A d \in Calls \ {c} : call'[d] = call[d]
  <2>1. call' = [call EXCEPT ![c].at = "ok", ![c].org = call[c].acc.org, ![c].ver = inbox'[o]]
    BY DEF Serve
  <2> QED BY <1>1, <1>2, <2>1, ServedStep
<1>4. news' = news \/ (room = o /\ news' = inbox'[o])
  BY DEF Serve, Emit
<1>5. PageTypeOK'
  BY <1>1, <1>2, <1>4 DEF PageTypeOK
<1>6. NewsShape'
  <2>1. news' # 0 => room' \in Orgs /\ news' <= inbox'[room']
    BY <1>1, <1>2, <1>4 DEF NewsShape, PageTypeOK
  <2>2. heard.org \in Orgs => heard.ver <= inbox'[heard.org]
    BY <1>2 DEF NewsShape, PageTypeOK
  <2>3. ASSUME NEW d \in Calls, call'[d].at = "ok", call'[d].op \in {"post", "act"}
        PROVE  call'[d].ver <= inbox'[call'[d].org]
    <3>1. CASE d = c
      BY <1>2, <1>3, <3>1
    <3>2. CASE d # c
      <4>1. call'[d] = call[d] /\ call[d].ver <= inbox[call[d].org] /\ call[d].ver \in Nat
        BY <1>3, <2>3, <3>2, CallFields DEF NewsShape, SessionInv
      <4>2. call[d].org \in Orgs
        BY <2>3, <4>1 DEF SessionInv, OrgShape
      <4>3. inbox[call[d].org] \in Nat /\ inbox'[call[d].org] \in Nat
        BY <1>2, <4>2 DEF PageTypeOK
      <4> QED BY <1>2, <4>1, <4>2, <4>3
    <3> QED BY <3>1, <3>2
  <2> QED BY <2>1, <2>2, <2>3 DEF NewsShape
<1>7. FetchShape' /\ ListShape' /\ HeardIsShown'
  <2>1. call[c].op # "list" /\ \A d \in Calls : ListingNow(d)' => ListingNow(d)
    BY <1>3 DEF ListingNow, Busy
  <2> QED BY <1>3, <2>1 DEF FetchShape, ListShape, HeardIsShown
<1>8. PostShape'
  <2>1. \A d \in Calls : PostingNow(d)' = PostingNow(d)
    BY <1>3 DEF PostingNow, Busy
  <2>2. CASE call[c].op = "act"
    BY <1>3, <2>1, <2>2 DEF PostShape, PostingNow
  <2>3. CASE call[c].op = "post"
    <3>1. PostingNow(c) /\ draft = "sending"
      BY <1>3, <2>3 DEF PostShape, PostingNow
    <3> QED BY <1>3, <2>1, <3>1 DEF PostShape
  <2> QED BY <2>2, <2>3
<1>9. PostedOnce'
  <2>1. CASE UNCHANGED posted
    BY <2>1 DEF PostedOnce
  <2>2. CASE call[c].op = "post" /\ posted' = [posted EXCEPT !.times = @ + 1]
    <3>1. posted.times = 0 \/ posted.unsure
      BY <1>3, <2>2 DEF PostShape, PostingNow
    <3> QED BY <2>2, <3>1 DEF PostedOnce, PageTypeOK
  <2> QED BY <2>1, <2>2
<1> QED BY <1>3, <1>5, <1>6, <1>7, <1>8, <1>9

\* A message is stored, and the answer is an error.
LEMMA StoreKeeps ==
  ASSUME SessionInv, PageOK, NEW c \in Calls, StorePost(c)
  PROVE  SessionInv' /\ PageOK'
<1> USE DEF PageOK, PageInv
<1> DEFINE o == call[c].acc.org
<1>0. ClientTypeOK /\ left \in 0..MaxEvents
  BY DEF SessionInv, ClientTypeOK
<1>1. /\ call[c].at = "sent" /\ call[c].op = "post" /\ Answered(c, "failed")
      /\ posted.times < 2 /\ posted' = [times |-> posted.times + 1, unsure |-> TRUE]
      /\ Stored(o) /\ Event /\ UNCHANGED <<sessionVars, lost, mixed>>
      /\ UNCHANGED <<room, news, query, heard, draft>>
  BY DEF StorePost, Authorized
<1>2. SessionInv'
  BY <1>0, <1>1, WebClientAssumption, AnsweredStep, SameSession
    DEF Event, Busy, Carries, CallAt, sessionVars, PageOps
<1>3. o \in Orgs
  BY <1>0, CallFields DEF StorePost, Authorized, Access
<1>4. /\ inbox' \in [Orgs -> Nat]
      /\ \A x \in Orgs : inbox[x] <= inbox'[x] /\ inbox[x] \in Nat /\ inbox'[x] \in Nat
  BY <1>1, <1>3, DashboardAssumption DEF Stored, PageTypeOK
<1>5. /\ call'[c].op = "post" /\ call'[c].at = "failed" /\ \A d \in Calls \ {c} : call'[d] = call[d]
      /\ PostingNow(c) /\ call[c].at # "ok"
  BY <1>0, <1>1, CallFields DEF Answered, ClientTypeOK, Call, PostingNow, Busy
<1>6. PageTypeOK'
  BY <1>1, <1>4 DEF PageTypeOK
<1>7. NewsShape'
  <2>1. \A d \in Calls : call[d].at = "ok" /\ call[d].op \in {"post", "act"} =>
                           call[d].org \in Orgs /\ call[d].ver \in Nat
    BY <1>0, CallFields DEF SessionInv, OrgShape
  <2> QED BY <1>1, <1>4, <1>5, <2>1 DEF NewsShape, PageTypeOK
<1>8. FetchShape' /\ ListShape' /\ HeardIsShown'
  <2>1. \A d \in Calls : ListingNow(d)' => ListingNow(d)
    BY <1>5 DEF ListingNow, Busy
  <2> QED BY <1>1, <1>5, <2>1 DEF FetchShape, ListShape, HeardIsShown
<1>9. PostShape' /\ PostedOnce'
  <2>1. \A d \in Calls : PostingNow(d)' => PostingNow(d)
    BY <1>5 DEF PostingNow, Busy
  <2>2. posted'.unsure
    BY <1>1
  <2> QED BY <1>1, <2>1, <2>2 DEF PostShape, PostedOnce
<1> QED BY <1>2, <1>6, <1>7, <1>8, <1>9

-----------------------------------------------------------------------------
(* Every step of the page. *)

LEMMA PageKeeps ==
  ASSUME SessionInv, PageOK, NEW c \in Calls, PageStep(c) PROVE SessionInv' /\ PageOK'
<1> USE WebClientAssumption
<1>0. ClientTypeOK /\ PageTypeOK /\ "list" \in PageOps \ {"post"} /\ "act" \in PageOps \ {"post"}
      /\ "post" \in PageOps /\ left \in 0..MaxEvents /\ lost \in BOOLEAN
  BY DEF SessionInv, PageOK, PageOps, ClientTypeOK
<1>1. CASE Fetch(c)
  <2>1. SessionInv'
    BY <1>0, <1>1, SendPage DEF Fetch, OnPage
  <2>2. PageTypeOK' /\ HeardIsShown'
    BY <1>0, <1>1 DEF Fetch, PageTypeOK, Query, HeardIsShown
  <2>3. query'.at = "fetch" /\ heard'.org = heard.org /\ heard'.ver = heard.ver
    BY <1>0, <1>1 DEF Fetch, PageTypeOK, Query
  <2> QED BY <1>0, <1>1, <2>1, <2>2, <2>3, SendKeeps DEF Fetch
<1>2. CASE ServeList(c)
  <2> DEFINE o == call[c].acc.org
  <2>1. /\ Authorized(c) /\ call[c].op \in PageOps /\ call[c].op \in {"list", "ignored"}
        /\ UNCHANGED <<left, sessionVars, lost, mixed>> /\ UNCHANGED pageVars
        /\ call' = [call EXCEPT ![c].at = "ok", ![c].org = call[c].acc.org, ![c].ver = inbox[o]]
    BY <1>2 DEF ServeList, PageOps, Rows
  <2>2. inbox[o] \in Nat /\ o \in Orgs
    BY <1>0, <2>1, CallFields DEF PageTypeOK, Authorized, Access
  <2>3. /\ SessionInv' /\ call'[c].op = call[c].op /\ call'[c].at = "ok" /\ Busy(c)
        /\ call'[c].org = o /\ call'[c].ver = inbox[o]
        /\ \A d \in Calls \ {c} : call'[d] = call[d]
    BY <2>1, <2>2, ServedStep
  <2>4. PageTypeOK' /\ HeardIsShown' /\ PostedOnce'
    BY <1>0, <2>1 DEF PageOK, PageInv, pageVars, PageTypeOK, HeardIsShown, PostedOnce
  <2>5. NewsShape'
    BY <2>1, <2>3 DEF PageOK, PageInv, pageVars, NewsShape
  <2>6. FetchShape'
    <3>1. o = heard.org => heard.ver <= inbox[o] /\ heard.ver \in Nat
      BY <1>0, <2>2 DEF PageOK, PageInv, NewsShape, PageTypeOK
    <3> QED BY <2>1, <2>2, <2>3, <3>1 DEF PageOK, PageInv, pageVars, FetchShape
  <2>7. PostShape'
    <3>1. \A d \in Calls : PostingNow(d)' => PostingNow(d) /\ call'[d] = call[d]
      BY <2>1, <2>3 DEF PostingNow, Busy
    <3> QED BY <2>1, <3>1 DEF PageOK, PageInv, pageVars, PostShape
  <2>8. ListShape'
    <3>1. \A d \in Calls : ListingNow(d)' => ListingNow(d)
      BY <2>3 DEF ListingNow, Busy
    <3> QED BY <2>1, <3>1 DEF PageOK, PageInv, pageVars, ListShape
  <2> QED BY <2>3, <2>4, <2>5, <2>6, <2>7, <2>8 DEF PageOK, PageInv
<1>3. CASE Show(c)
  <2>1. /\ call[c].at = "ok" /\ call[c].op = "list" /\ call' = [call EXCEPT ![c] = NoCall]
        /\ query' = [org |-> call[c].org, ver |-> call[c].ver, at |-> "fresh", failures |-> 0]
        /\ UNCHANGED <<inbox, room, news, heard, draft, posted>>
        /\ UNCHANGED <<left, token, issued, cookie, other, access, me, banner, lost, mixed>>
    BY <1>3 DEF Show, sessionVars
  <2>2. SessionInv'
    BY <1>0, <2>1, OverStep DEF Carries, PageOps
  <2>3. PageTypeOK' /\ HeardIsShown'
    BY <1>0, <2>1, CallFields DEF PageTypeOK, Query, HeardIsShown, PageOK, PageInv, FetchShape
  <2>4. ListingNow(c)
    BY <2>1 DEF ListingNow, Busy
  <2> QED BY <2>1, <2>2, <2>3, <2>4, OverKeeps
<1>4. CASE Hear(c)
  <2>1. /\ news \in Nat /\ room \in Orgs /\ news <= inbox[room] /\ me \in Orgs /\ ~Busy(c)
        /\ Invalidate(c) /\ Learn(room, news) /\ news' = 0
        /\ UNCHANGED <<inbox, room, draft, posted>>
        /\ UNCHANGED <<left, sessionVars, lost, mixed>>
    BY <1>0, <1>4 DEF Hear, OnPage, Busy, PageOK, PageInv, NewsShape, PageTypeOK
  <2> QED BY <2>1, LearnKeeps
<1>5. CASE Acted(c)
  <2> DEFINE o == call[c].org
             v == call[c].ver
  <2>1. /\ call[c].at = "ok" /\ call[c].op = "act" /\ Invalidate(c) /\ Learn(o, v)
        /\ UNCHANGED <<inbox, room, draft, posted>> /\ UNCHANGED news
        /\ UNCHANGED <<left, sessionVars, lost, mixed>>
    BY <1>5 DEF Acted
  <2>2. o \in Orgs /\ v \in Nat /\ v <= inbox[o]
    BY <1>0, <2>1, CallFields DEF SessionInv, OrgShape, PageOK, PageInv, NewsShape
  <2> QED BY <2>1, <2>2, LearnKeeps
<1>6. CASE Dropped(c)
  <2>1. /\ call[c].at = "ok" /\ call[c].op = "ignored" /\ call' = [call EXCEPT ![c] = NoCall]
        /\ UNCHANGED pageVars
        /\ UNCHANGED <<left, token, issued, cookie, other, access, me, banner, lost, mixed>>
    BY <1>6 DEF Dropped, sessionVars
  <2>2. SessionInv'
    BY <1>0, <2>1, OverStep DEF Carries, PageOps
  <2>3. PageTypeOK' /\ HeardIsShown'
    BY <1>0, <2>1 DEF PageTypeOK, HeardIsShown, PageOK, PageInv, pageVars
  <2> QED BY <2>1, <2>2, <2>3, OverKeeps DEF pageVars
<1>7. CASE Submit(c)
  <2>1. SessionInv'
    BY <1>0, <1>7, SendPage DEF Submit, OnPage
  <2>2. /\ call'[c].op = "post" /\ call'[c].at = "sent" /\ \A d \in Calls \ {c} : call'[d] = call[d]
        /\ draft = "text" /\ draft' = "sending" /\ UNCHANGED <<inbox, room, news, query, heard, posted>>
    BY <1>0, <1>7 DEF Submit, Send, NoCall, ClientTypeOK
  <2>3. PageTypeOK' /\ HeardIsShown' /\ PostedOnce' /\ NewsShape' /\ FetchShape'
    BY <1>0, <2>2 DEF PageOK, PageInv, PageTypeOK, HeardIsShown, PostedOnce, NewsShape, FetchShape
  <2>4. PostShape'
    <3>1. \A d \in Calls : ~PostingNow(d)
      BY <2>2 DEF PageOK, PageInv, PostShape
    <3> QED BY <2>2, <3>1 DEF PageOK, PageInv, PostShape, PostingNow, Busy
  <2>5. ListShape'
    <3>1. \A d \in Calls : ListingNow(d)' => ListingNow(d)
      BY <2>2 DEF ListingNow, Busy
    <3> QED BY <2>2, <3>1 DEF PageOK, PageInv, ListShape
  <2> QED BY <2>1, <2>3, <2>4, <2>5 DEF PageOK, PageInv
<1>8. CASE ServePost(c)
  <2>1. TRUE \in BOOLEAN
    OBVIOUS
  <2> QED BY <1>8, <2>1, ServeKeeps DEF ServePost
<1>9. CASE ServeAct(c)
  BY <1>9, ServeKeeps DEF ServeAct
<1>10. CASE Act(c)
  <2>1. SessionInv'
    BY <1>0, <1>10, SendPage DEF Act, OnPage
  <2>2. PageTypeOK' /\ HeardIsShown'
    BY <1>0, <1>10 DEF Act, PageTypeOK, HeardIsShown, pageVars, PageOK, PageInv
  <2> QED BY <1>0, <1>10, <2>1, <2>2, SendKeeps DEF Act, pageVars
<1>11. CASE PageRefused(c) \/ PageRejected(c) \/ PageLost(c)
  <2>1. /\ call[c].op \in PageOps /\ Busy(c) /\ Given(c) /\ access' \in {access, Nothing}
        /\ left' \in 0..MaxEvents /\ (Carries(c) \/ lost => lost') /\ lost' \in BOOLEAN
    <3>1. CASE PageRefused(c)
      BY <1>0, <3>1 DEF PageRefused, Busy, Carries
    <3>2. CASE PageRejected(c)
      BY <1>0, <3>2 DEF PageRejected, Busy, Carries
    <3>3. CASE PageLost(c)
      <4>1. lost' = (lost \/ Carries(c))
        BY <3>3 DEF PageLost
      <4>2. lost' \in BOOLEAN /\ (Carries(c) \/ lost => lost')
        BY <4>1
      <4>3. left' \in 0..MaxEvents
        BY <1>0, <3>3 DEF PageLost, Event
      <4> QED BY <3>3, <4>2, <4>3 DEF PageLost, Busy
    <3> QED BY <1>11, <3>1, <3>2, <3>3
  <2>2. /\ call' = [call EXCEPT ![c] = NoCall]
        /\ UNCHANGED <<token, issued, cookie, other, me, banner, mixed>>
        /\ UNCHANGED <<inbox, room, news, heard>>
        /\ draft' = IF call[c].op = "post" THEN "text" ELSE draft
        /\ query' = query \/ (query' \in Query /\ query'.at # "fresh")
    <3>1. query' = query \/ query' = [query EXCEPT !.at = "retry", !.failures = 1]
          \/ query' = [query EXCEPT !.at = "error", !.failures = 0]
      BY <2>1 DEF Given, Unshown
    <3>2. query' = query \/ (query' \in Query /\ query'.at # "fresh")
      <4>1. query \in Query /\ 0 \in 0..1 /\ 1 \in 0..1
            /\ {"retry", "error"} \subseteq {"idle", "fetch", "retry", "fresh", "error"}
        BY <1>0 DEF PageTypeOK
      <4>2. CASE query' = query
        BY <4>2
      <4>3. CASE query' = [query EXCEPT !.at = "retry", !.failures = 1]
        BY <4>1, <4>3, QueryAt
      <4>4. CASE query' = [query EXCEPT !.at = "error", !.failures = 0]
        BY <4>1, <4>4, QueryAt
      <4> QED BY <3>1, <4>2, <4>3, <4>4
    <3> QED BY <2>1, <3>2 DEF Given
  <2>3. SessionInv'
    BY <2>1, <2>2, OverStep
  <2>4. /\ posted' \in [times : Nat, unsure : BOOLEAN]
        /\ posted'.times = posted.times /\ (posted.unsure => posted'.unsure)
        /\ call[c].op = "post" /\ call[c].at = "ok" => posted'.unsure
        /\ call[c].op # "post" => posted' = posted
    <3>1. CASE PageRefused(c) \/ PageRejected(c)
      BY <1>0, <3>1 DEF PageRefused, PageRejected, PageTypeOK
    <3>2. CASE PageLost(c)
      <4>1. posted \in [times : Nat, unsure : BOOLEAN]
        BY <1>0 DEF PageTypeOK
      <4>2. posted' = [posted EXCEPT !.unsure = @ \/ (call[c].op = "post" /\ call[c].at = "ok")]
        BY <3>2 DEF PageLost
      <4> QED BY <4>1, <4>2
    <3> QED BY <1>11, <3>1, <3>2
  <2>5. PageTypeOK' /\ HeardIsShown' /\ PostedOnce'
    BY <1>0, <2>2, <2>4 DEF PageOK, PageInv, PageTypeOK, HeardIsShown, PostedOnce
  <2>6. ~Busy(c)' /\ \A d \in Calls \ {c} : call'[d] = call[d]
    BY <1>0, <2>2 DEF NoCall, Busy, ClientTypeOK
  <2>7. NewsShape' /\ FetchShape'
    BY <2>2, <2>6 DEF PageOK, PageInv, NewsShape, FetchShape, Busy
  <2>8. ListShape'
    <3>1. \A d \in Calls : ListingNow(d)' => d # c /\ ListingNow(d)
      BY <2>6 DEF ListingNow, Busy
    <3>2. query' = query \/ ListingNow(c)
      BY <2>1 DEF Given, ListingNow
    <3> QED BY <3>1, <3>2 DEF PageOK, PageInv, ListShape
  <2>9. PostShape'
    <3>1. \A d \in Calls : PostingNow(d)' => d # c /\ PostingNow(d) /\ call'[d] = call[d]
      BY <2>6 DEF PostingNow, Busy
    <3>2. CASE call[c].op = "post"
      <4>1. PostingNow(c)
        BY <2>1, <3>2 DEF PostingNow
      <4>2. \A d \in Calls : ~PostingNow(d)'
        BY <3>1, <4>1 DEF PageOK, PageInv, PostShape
      <4>3. posted'.times = 0 \/ posted'.unsure
        BY <2>4, <3>2, <4>1 DEF PageOK, PageInv, PostShape
      <4> QED BY <2>2, <3>2, <4>2, <4>3 DEF PostShape
    <3>3. CASE call[c].op # "post"
      BY <2>2, <2>4, <3>1, <3>3 DEF PageOK, PageInv, PostShape
    <3> QED BY <3>2, <3>3
  <2> QED BY <2>3, <2>5, <2>7, <2>8, <2>9 DEF PageOK, PageInv
<1>12. CASE Sent(c)
  <2>1. /\ call[c].at = "ok" /\ call[c].op = "post" /\ call' = [call EXCEPT ![c] = NoCall]
        /\ draft' = "empty" /\ UNCHANGED <<inbox, room, news, query, heard, posted>>
        /\ UNCHANGED <<left, token, issued, cookie, other, access, me, banner, lost, mixed>>
    BY <1>12 DEF Sent, sessionVars
  <2>2. SessionInv'
    BY <1>0, <2>1, OverStep DEF Carries, PageOps
  <2>3. PageTypeOK' /\ HeardIsShown'
    BY <1>0, <2>1 DEF PageTypeOK, HeardIsShown, PageOK, PageInv
  <2>4. PostingNow(c)
    BY <2>1 DEF PostingNow, Busy
  <2> QED BY <2>1, <2>2, <2>3, <2>4, OverKeeps
<1>13. CASE StorePost(c)
  BY <1>13, StoreKeeps
<1> QED BY <1>1, <1>2, <1>3, <1>4, <1>5, <1>6, <1>7, <1>8, <1>9, <1>10, <1>11, <1>12, <1>13
     DEF PageStep

-----------------------------------------------------------------------------
(* The inductive invariant and what follows from it. *)

LEMMA TypeSplit == TabTypeOK <=> ClientTypeOK /\ PageTypeOK
  BY DEF TabTypeOK, PageTypeOK, Query

LEMMA TabBeginning == TabInit => TabInv
<1> SUFFICES ASSUME TabInit PROVE TabInv
  OBVIOUS
<1> USE WebClientAssumption, DashboardAssumption
<1>1. PICK o \in Mine, there \in BOOLEAN :
        /\ token = [n \in Numbers |->
             IF n = 1 /\ there THEN [org |-> o, fam |-> 1, state |-> "live"]
             ELSE [org |-> Nothing, fam |-> 0, state |-> "free"]]
        /\ issued = IF there THEN 1 ELSE 0
  BY DEF TabInit, ClientInit
<1>2. /\ cookie = issued /\ other = 0 /\ access = Nothing /\ me = Unknown /\ banner = FALSE
      /\ call = [c \in Calls |-> NoCall] /\ lost = FALSE /\ mixed = FALSE /\ left = MaxEvents
      /\ inbox = [x \in Orgs |-> 0] /\ room = "off" /\ news = 0
      /\ query = NoQuery /\ heard = Unheard
      /\ draft = "empty" /\ posted = [times |-> 0, unsure |-> FALSE]
  BY DEF TabInit, ClientInit
<1>3. o \in Orgs /\ 1 \in Numbers /\ issued \in 0..1 /\ Nothing \notin Orgs
  BY <1>1 DEF Numbers
<1>4. /\ call \in [Calls -> Call]
      /\ \A c \in Calls : ~Busy(c) /\ ~Carries(c) /\ call[c].at = "idle" /\ call[c].tok = 0
  BY <1>2, NoCallType DEF Busy, Carries, NoCall
<1>5. /\ token \in [Numbers -> [org : Orgs \union {Nothing}, fam : 0..MaxTokens,
                                state : {"free", "live", "rotated", "ended"}]]
      /\ \A n \in Numbers : (token[n].state = "free") = (n > issued)
      /\ \A n \in 1..issued : n = 1 /\ token[n].org = o /\ token[n].fam = 1 /\ token[n].state = "live"
  <2>1. CASE there
    <3>1. issued = 1 /\ token = [n \in Numbers |->
             IF n = 1 THEN [org |-> o, fam |-> 1, state |-> "live"]
             ELSE [org |-> Nothing, fam |-> 0, state |-> "free"]]
      BY <1>1, <2>1
    <3> QED BY <1>3, <3>1 DEF Numbers
  <2>2. CASE ~there
    <3>1. issued = 0 /\ token = [n \in Numbers |-> [org |-> Nothing, fam |-> 0, state |-> "free"]]
      BY <1>1, <2>2
    <3> QED BY <3>1 DEF Numbers
  <2> QED BY <2>1, <2>2
<1>6. ClientTypeOK
  <2>1. issued \in 0..MaxTokens /\ cookie \in 0..issued /\ other \in 0..issued /\ left \in 0..MaxEvents
    BY <1>2, <1>3 DEF Numbers
  <2> QED BY <1>2, <1>4, <1>5, <2>1 DEF ClientTypeOK
<1>7. PageTypeOK
  <2>1. NoQuery \in Query
    BY DEF NoQuery, Query
  <2> QED BY <1>2, <2>1 DEF PageTypeOK, Unheard
<1>8. TokenShape /\ CookieIsLive
  BY <1>2, <1>3, <1>5 DEF TokenShape, CookieIsLive
<1>9. WayShape
  BY <1>2, <1>3, <1>4 DEF WayShape
<1>10. OrgShape /\ OneOperation /\ OneFamily /\ ShownShape
  BY <1>2, <1>4 DEF OrgShape, OneOperation, OneFamily, ShownShape, InSession, Loading
<1>11. NewsShape /\ FetchShape /\ ListShape /\ HeardIsShown /\ PostShape /\ PostedOnce
  BY <1>2, <1>3, <1>4 DEF NewsShape, FetchShape, ListShape, ListingNow, HeardIsShown, PostShape,
    PostedOnce, PostingNow, NoQuery, Unheard
<1> QED BY <1>6, <1>7, <1>8, <1>9, <1>10, <1>11, TypeSplit DEF TabInv, SessionInv, PageInv

LEMMA TabInductive == TabInv /\ [TabNext]_tabVars => TabInv'
<1> SUFFICES ASSUME TabInv, [TabNext]_tabVars PROVE SessionInv' /\ PageOK'
  BY TypeSplit DEF TabInv, PageOK, SessionInv, TabTypeOK, PageTypeOK, ClientTypeOK, Query
<1>0. SessionInv /\ PageOK /\ ClientTypeOK /\ PageTypeOK
  BY TypeSplit DEF TabInv, PageOK
<1>1. CASE UNCHANGED tabVars
  <2>1. UNCHANGED clientVars /\ UNCHANGED pageVars
    BY <1>1 DEF tabVars
  <2>2. ClientTypeOK' /\ SameTokens
    BY <1>0, <2>1 DEF clientVars, sessionVars, ClientTypeOK, SameTokens
  <2>3. SessionInv'
    BY <1>0, <2>1, <2>2, IdleStep DEF clientVars, sessionVars
  <2> QED BY <1>0, <2>1, <2>3, ClientPage DEF clientVars
<1>2. ASSUME NEW c \in Calls, ClientStep(c), UNCHANGED pageVars PROVE SessionInv' /\ PageOK'
  BY <1>0, <1>2, ClientSession, ClientPage
<1>3. ASSUME NEW c \in Calls, PageStep(c) PROVE SessionInv' /\ PageOK'
  BY <1>0, <1>3, PageKeeps
<1>4. CASE Elsewhere /\ UNCHANGED pageVars
  <2>1. SessionInv'
    BY <1>0, <1>4, OtherRotatesStep, OtherReceivesStep, SessionEndsStep DEF Elsewhere
  <2>2. UNCHANGED call
    BY <1>4 DEF Elsewhere, OtherRotates, OtherReceives, SessionEnds
  <2> QED BY <1>0, <1>4, <2>1, <2>2, ClientPage
<1>5. ASSUME UNCHANGED <<issued, cookie, other, access, me, banner, call, lost, mixed>>,
             UNCHANGED token, left' \in 0..MaxEvents
      PROVE  SessionInv'
  <2>1. ClientTypeOK' /\ SameTokens
    BY <1>0, <1>5 DEF ClientTypeOK, SameTokens
  <2> QED BY <1>0, <1>5, <2>1, IdleStep
<1>6. left \in 0..MaxEvents
  BY <1>0 DEF ClientTypeOK
<1> USE DEF PageOK, PageInv
<1>7. ASSUME NEW o \in Orgs, Change(o) PROVE SessionInv' /\ PageOK'
  <2>1. SessionInv'
    BY <1>5, <1>6, <1>7 DEF Change, clientVars, sessionVars
  <2>2. /\ inbox' \in [Orgs -> Nat]
        /\ \A x \in Orgs : inbox[x] <= inbox'[x] /\ inbox[x] \in Nat /\ inbox'[x] \in Nat
        /\ news' = news \/ (room = o /\ news' = inbox'[o])
        /\ UNCHANGED <<call, room, query, heard, draft, posted>>
    <3>1. inbox \in [Orgs -> Nat] /\ inbox' = [inbox EXCEPT ![o] = @ + 1]
      BY <1>0, <1>7 DEF Change, PageTypeOK
    <3>2. inbox' \in [Orgs -> Nat] /\ \A x \in Orgs : inbox[x] <= inbox'[x] /\ inbox[x] \in Nat
      BY <3>1
    <3> QED BY <1>7, <3>2 DEF Change, Emit, clientVars
  <2>3. PageTypeOK'
    BY <1>0, <2>2 DEF PageTypeOK
  <2>4. NewsShape'
    <3>1. \A d \in Calls : call[d].at = "ok" /\ call[d].op \in {"post", "act"} =>
                             call[d].org \in Orgs /\ call[d].ver \in Nat
      BY <1>0, CallFields DEF SessionInv, OrgShape
    <3> QED BY <1>0, <2>2, <3>1 DEF NewsShape, PageTypeOK
  <2>5. FetchShape' /\ ListShape' /\ HeardIsShown' /\ PostShape' /\ PostedOnce'
    BY <1>0, <2>2 DEF FetchShape, ListShape, ListingNow, HeardIsShown, PostShape, PostedOnce,
                      PostingNow, Busy
  <2> QED BY <2>1, <2>3, <2>4, <2>5
<1>8. CASE Connect
  <2>1. SessionInv'
    BY <1>5, <1>6, <1>8 DEF Connect, clientVars, sessionVars
  <2>2. room' \in Orgs \union {"off", "closed"} /\ news = 0
        /\ UNCHANGED <<call, inbox, news, query, heard, draft, posted>>
    BY <1>0, <1>8, DashboardAssumption
       DEF Connect, clientVars, NewsShape, ClientTypeOK, Access, PageTypeOK
  <2>3. /\ PageTypeOK' /\ NewsShape' /\ FetchShape' /\ ListShape' /\ HeardIsShown'
        /\ PostShape' /\ PostedOnce'
    BY <1>0, <2>2 DEF PageTypeOK, NewsShape, FetchShape, ListShape, ListingNow, HeardIsShown,
                      PostShape, PostedOnce, PostingNow, Busy
  <2> QED BY <2>1, <2>3
<1>9. CASE Disconnect
  <2>1. SessionInv'
    <3>1. left' \in 0..MaxEvents
      BY <1>6, <1>9, WebClientAssumption DEF Disconnect, Event
    <3> QED BY <1>5, <1>9, <3>1 DEF Disconnect, sessionVars
  <2>2. room' = "off" /\ news' = 0 /\ UNCHANGED <<call, inbox, query, heard, draft, posted>>
    BY <1>9 DEF Disconnect
  <2>3. /\ PageTypeOK' /\ NewsShape' /\ FetchShape' /\ ListShape' /\ HeardIsShown'
        /\ PostShape' /\ PostedOnce'
    BY <1>0, <2>2 DEF PageTypeOK, NewsShape, FetchShape, ListShape, ListingNow, HeardIsShown,
                      PostShape, PostedOnce, PostingNow, Busy
  <2> QED BY <2>1, <2>3
<1>10. CASE Type
  <2>1. SessionInv'
    BY <1>5, <1>6, <1>10 DEF Type, clientVars, sessionVars
  <2>2. draft = "empty" /\ draft' = "text" /\ posted' = [times |-> 0, unsure |-> FALSE]
        /\ UNCHANGED <<call, inbox, room, news, query, heard>>
    BY <1>10 DEF Type, clientVars
  <2>3. PageTypeOK' /\ NewsShape' /\ FetchShape' /\ ListShape' /\ HeardIsShown' /\ PostedOnce'
    BY <1>0, <2>2 DEF PageTypeOK, NewsShape, FetchShape, ListShape, ListingNow, Busy,
                      HeardIsShown, PostedOnce
  <2>4. PostShape'
    BY <1>0, <2>2 DEF PostShape, PostingNow, Busy
  <2> QED BY <2>1, <2>3, <2>4
<1>11. CASE PageReload
  <2>1. left' \in 0..MaxEvents /\ Reload
    BY <1>6, <1>11, WebClientAssumption DEF PageReload, Event
  <2>2. SessionInv'
    BY <1>0, <2>1, ReloadStep
  <2>3. /\ room' = "off" /\ news' = 0 /\ query' = NoQuery /\ heard' = Unheard
        /\ draft' = "empty" /\ posted' = [times |-> 0, unsure |-> FALSE] /\ inbox' = inbox
    BY <1>11 DEF PageReload
  <2>4. \A d \in Calls : call'[d].at = "idle" /\ ~Busy(d)'
    BY <2>1 DEF Reload, NoCall, Busy
  <2>5. PageTypeOK'
    <3>1. NoQuery \in Query
      BY DEF NoQuery, Query
    <3> QED BY <1>0, <2>3, <3>1 DEF PageTypeOK, Unheard
  <2>6. NewsShape' /\ FetchShape' /\ ListShape' /\ HeardIsShown' /\ PostShape' /\ PostedOnce'
    BY <2>3, <2>4, WebClientAssumption
       DEF NewsShape, FetchShape, ListShape, ListingNow, HeardIsShown, PostShape, PostedOnce,
           PostingNow, NoQuery, Unheard
  <2> QED BY <2>2, <2>5, <2>6
<1> QED BY <1>1, <1>2, <1>3, <1>4, <1>7, <1>8, <1>9, <1>10, <1>11 DEF TabNext

THEOREM TabInvariance == TabSpec => []TabInv
<1> QED BY TabBeginning, TabInductive, PTL DEF TabSpec

\* The variables of the tab, of the browser's tokens and of the page hold what
\* they are meant to (lib/api.ts, lib/auth-context.tsx, the inbox page).
THEOREM TabTypeCorrect == TabSpec => []TabTypeOK
<1>1. TabInv => TabTypeOK
  BY DEF TabInv
<1> QED BY <1>1, TabInvariance, PTL

\* A user is not logged out by requests of his own: however many of them are
\* answered 401 and refresh the session, the cookie is a token that can be used,
\* or its successor is on its way or was lost (tryRefresh of lib/api.ts).
THEOREM CookieTheorem == TabSpec => []CookieIsLive
<1>1. TabInv => CookieIsLive
  BY DEF TabInv, SessionInv
<1> QED BY <1>1, TabInvariance, PTL

\* A tab that was not mixed up acts for the organization that it shows
\* (request, switchOrg and loadMe: the access token is replaced before the
\* profile is).
THEOREM ShownTheorem == TabSpec => []ActsForShown
<1>1. ASSUME TabInv PROVE ActsForShown
  <2> SUFFICES ASSUME AtRest, access # Nothing, me \in Orgs, ~mixed PROVE access.org = me
    BY DEF ActsForShown
  <2>1. \A c \in Calls : ~Loading(c)
    BY DEF AtRest, Loading, Busy, PageOps
  <2> QED BY <1>1, <2>1 DEF TabInv, SessionInv, ShownShape, Agrees
<1> QED BY <1>1, TabInvariance, PTL

\* A change that the list was invalidated for is shown once the query has settled,
\* unless it was heard during the first fetch, which React Query lets stand
\* (invalidate, setStatus, setMode and the tags of the inbox page).
THEOREM HeardTheorem == TabSpec => []HeardIsShown
<1>1. TabInv => HeardIsShown
  BY DEF TabInv, PageInv
<1> QED BY <1>1, TabInvariance, PTL

\* A text is stored a second time only when the composer was not told of the first:
\* the answer was lost, or the queue failed after the row was committed (submit of
\* the inbox page, the repetition in request of lib/api.ts, MessagingService.enqueue).
THEOREM PostedTheorem == TabSpec => []PostedOnce
<1>1. TabInv => PostedOnce
  BY DEF TabInv, PageInv
<1> QED BY <1>1, TabInvariance, PTL

=============================================================================
