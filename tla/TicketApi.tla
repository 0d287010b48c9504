----------------------------- MODULE TicketApi ------------------------------
(* The handlers of comments, attachments and ticket creation on one        *)
(* server, with the failures and the deletion of the ticket they share.    *)
EXTENDS Comments, Attachments, TicketCreation

vars == <<serverVars, commentVars, attachmentVars, creationVars>>

TicketApiTypeOK ==
    /\ call \in [Request -> Call]
    /\ response \in [Request -> Response]
    /\ \A r \in Request : pc[r] = "done" <=> response[r] # "none"
    /\ failures \in 0 .. MaxFailures
    /\ ticketIsDeleted \in BOOLEAN
    /\ CommentsTypeOK
    /\ AttachmentsTypeOK
    /\ CreationTypeOK

Init == ServerInit /\ CommentsInit /\ AttachmentsInit /\ CreationInit

(* The next call of the handler of a request returns.                      *)
Handle(r) ==
    \/ HandleComment(r) /\ UNCHANGED <<attachmentVars, creationVars>>
    \/ HandleAttachment(r) /\ UNCHANGED <<commentVars, creationVars>>
    \/ HandleCreation(r) /\ UNCHANGED <<commentVars, attachmentVars>>

(* It fails.                                                               *)
Fault(r) ==
    \/ CommentFault(r) /\ UNCHANGED <<attachmentVars, creationVars>>
    \/ AttachmentCutShort(r) /\ UNCHANGED <<commentVars, creationVars>>
    \/ CreationFault(r) /\ UNCHANGED <<commentVars, attachmentVars>>

Environment ==
    \/ TicketIsRemoved /\ UNCHANGED <<commentVars, attachmentVars, creationVars>>
    \/ OthersChange /\ UNCHANGED <<commentVars, attachmentVars>>

Next == Environment \/ \E r \in Request : Handle(r) \/ Fault(r)

Spec == Init /\ [][Next]_vars

(* Node runs every handler whose call has returned, and the database       *)
(* answers.                                                                *)
FairSpec == Spec /\ \A r \in Request : WF_vars(Handle(r))

(* Every request is answered: no refusal, timeout or failure leaves a row  *)
(* lock behind that another request waits for.                             *)
EveryRequestAnswered == \A r \in Request : <>(pc[r] = "done")
=============================================================================
