------------------------------ MODULE Delivery ------------------------------
(***************************************************************************)
(* What outbound messaging promises for each message, whatever the number  *)
(* of attempts, crashes and retries behind it: a queued message may be     *)
(* handed to Instagram several times, but only while it is queued and      *)
(* never more often than the retry policy allows; it is confirmed only     *)
(* after Instagram accepted it; and its outcome, once recorded, is final.  *)
(***************************************************************************)
EXTENDS Naturals

CONSTANTS
  Messages,    (* the outbound messages                                    *)
  MaxHandOffs  (* how often one message may be handed to Instagram         *)

VARIABLES
  status,      (* status[m]: the recorded state of message m               *)
  handOffs     (* handOffs[m]: the set of accepted executions of m         *)

vars == <<status, handOffs>>

Status == {"absent", "queued", "sent", "failed"}

TypeOK ==
  /\ status \in [Messages -> Status]
  /\ handOffs \in [Messages -> SUBSET (1..MaxHandOffs)]

Init ==
  /\ status = [m \in Messages |-> "absent"]
  /\ handOffs = [m \in Messages |-> {}]

Submit(m) ==
  /\ status[m] = "absent"
  /\ status' = [status EXCEPT ![m] = "queued"]
  /\ UNCHANGED handOffs

HandOff(m) ==
  /\ status[m] = "queued"
  /\ \E n \in (1..MaxHandOffs) \ handOffs[m] :
       handOffs' = [handOffs EXCEPT ![m] = @ \union {n}]
  /\ UNCHANGED status

Confirm(m) ==
  /\ status[m] = "queued"
  /\ handOffs[m] # {}
  /\ status' = [status EXCEPT ![m] = "sent"]
  /\ UNCHANGED handOffs

GiveUp(m) ==
  /\ status[m] = "queued"
  /\ status' = [status EXCEPT ![m] = "failed"]
  /\ UNCHANGED handOffs

Next == \E m \in Messages : Submit(m) \/ HandOff(m) \/ Confirm(m) \/ GiveUp(m)

Spec == Init /\ [][Next]_vars
=============================================================================
