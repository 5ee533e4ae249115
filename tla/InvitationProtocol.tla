------------------------- MODULE InvitationProtocol -------------------------
(***************************************************************************)
(* What an invitation promises its two sides, without journals, queues,    *)
(* relays and crashes: the status each of them shows (invitation.rs,       *)
(* InvitationStatus), and which status of the other side a change of it    *)
(* rests on.  Nothing else may ever change what a side shows, so no replay *)
(* or reordering revives an invitation or turns an answer into another.    *)
(* Exchange implements this specification.                                 *)
(***************************************************************************)
CONSTANT Invitations

VARIABLES
  sender,     \* sender[i]: what the side that made the offer shows of i
  recipient   \* recipient[i]: what the side it was made to shows of i

Answers == {"InvitationAccepted", "InvitationRejected"}

Init ==
  /\ sender = [i \in Invitations |-> "Unknown"]
  /\ recipient = [i \in Invitations |-> "Unknown"]

SenderMoves(i, from, to) ==
  /\ sender[i] = from
  /\ sender' = [sender EXCEPT ![i] = to]
  /\ UNCHANGED recipient

RecipientMoves(i, from, to) ==
  /\ recipient[i] = from
  /\ recipient' = [recipient EXCEPT ![i] = to]
  /\ UNCHANGED sender

Make(i) == SenderMoves(i, "Unknown", "Pending")

Receive(i) == sender[i] # "Unknown" /\ RecipientMoves(i, "Unknown", "Pending")

Answer(i) == \E answer \in Answers : RecipientMoves(i, "Pending", answer)

LearnAcceptance(i) ==
  /\ recipient[i] = "InvitationAccepted"
  /\ SenderMoves(i, "Pending", "InvitationAccepted")

\* A recipient that has accepted may still send a rejection it decided on before
\* (hivra_reject_invitation does not look), and the sender may hear that first.
LearnRejection(i) ==
  /\ recipient[i] \in Answers
  /\ SenderMoves(i, "Pending", "InvitationRejected")

Revoke(i) == SenderMoves(i, "Pending", "InvitationExpired")

\* The sender's word is final over an acceptance it had not recorded.
LearnRevoke(i) ==
  /\ sender[i] = "InvitationExpired"
  /\ \E from \in {"Pending", "InvitationAccepted"} :
       RecipientMoves(i, from, "InvitationExpired")

Next ==
  \E i \in Invitations :
    \/ Make(i) \/ Receive(i) \/ Answer(i)
    \/ LearnAcceptance(i) \/ LearnRejection(i)
    \/ Revoke(i) \/ LearnRevoke(i)

Spec == Init /\ [][Next]_<<sender, recipient>>

\* The pairs the two sides may show: a recipient knows of nothing that was not
\* sent and calls revoked only what was revoked; a sender counts as answered only
\* what was answered, and as accepted only what is accepted still.
SidesAgree ==
  \A i \in Invitations :
    /\ sender[i] = "Unknown" => recipient[i] = "Unknown"
    /\ sender[i] = "InvitationAccepted" => recipient[i] = "InvitationAccepted"
    /\ sender[i] = "InvitationRejected" => recipient[i] \in Answers
    /\ recipient[i] = "InvitationExpired" => sender[i] = "InvitationExpired"
=============================================================================
