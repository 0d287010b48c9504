-------------------------- MODULE TicketApiProofs ---------------------------
(* Theorems about TicketApi, for every set of requests, texts, users and   *)
(* files and every bound.  The argument has a part for each component,     *)
(* which the steps of the other components leave alone.                    *)
EXTENDS TicketApi, FiniteSetTheorems, WellFoundedInduction, TLAPS

Pc ==
    {"idle", "done", "auditing", "inserting", "locking", "writing", "clearing",
     "mentioning", "finding", "hiding", "handling", "saving", "unlinking",
     "deleting", "counting", "auditingAssignment", "importing", "auditingRow"}

(* A handler is only ever at a step of its own operation, and answers once.*)
PcOK ==
    /\ call \in [Request -> Call]
    /\ pc \in [Request -> Pc]
    /\ response \in [Request -> Response]
    /\ \A r \in Request :
           /\ pc[r] = "done" <=> response[r] # "none"
           /\ pc[r] = "inserting" => Op(r) = "createComment"
           /\ pc[r] \in {"locking", "writing", "clearing"} => Op(r) = "editComment"
           /\ pc[r] = "mentioning" => Op(r) \in {"createComment", "editComment"}
           /\ pc[r] \in {"finding", "hiding"} => Op(r) = "removeComment"
           /\ pc[r] \in {"handling", "saving"} => Op(r) = "upload"
           /\ pc[r] \in {"unlinking", "deleting"} => Op(r) = "removeAttachment"
           /\ pc[r] \in {"counting", "auditingAssignment"} => Op(r) = "createTicket"
           /\ pc[r] \in {"importing", "auditingRow"} => Op(r) = "importTickets"

-----------------------------------------------------------------------------
(* The steps of each component, with what they leave alone.                *)
CommentStep(r) ==
    (HandleComment(r) \/ CommentFault(r)) /\ UNCHANGED <<attachmentVars, creationVars>>

AttachmentStep(r) ==
    (HandleAttachment(r) \/ AttachmentCutShort(r)) /\ UNCHANGED <<commentVars, creationVars>>

CreationStep(r) ==
    (HandleCreation(r) \/ CreationFault(r)) /\ UNCHANGED <<commentVars, attachmentVars>>

(* Every step is one of a handler, or the environment's.                   *)
LEMMA NextCases ==
    ASSUME [Next]_vars
    PROVE  \/ \E r \in Request : CommentStep(r)
           \/ \E r \in Request : AttachmentStep(r)
           \/ \E r \in Request : CreationStep(r)
           \/ Environment
           \/ UNCHANGED vars
  BY DEF Next, Handle, Fault, CommentStep, AttachmentStep, CreationStep

(* A handler moves its own request only, to a step of the same operation.  *)
Moves(r, ops) ==
    /\ Op(r) \in ops
    /\ call' = call
    /\ \E step \in Pc : pc' = [pc EXCEPT ![r] = step]
    /\ \A s \in Request \ {r} : response'[s] = response[s]

LEMMA CommentMoves ==
    ASSUME PcOK, NEW r \in Request, CommentStep(r)
    PROVE  Moves(r, CommentOp) /\ PcOK'
  <1>1. CASE ValidateTicket(r)
    BY <1>1 DEF ValidateTicket, Received, Unless404, GoTo, Answer, NoFailure, Moves, Pc, PcOK, Response, Op, CommentOp
  <1>2. CASE InsertComment(r)
    BY <1>2 DEF InsertComment, GoTo, NoFailure, Moves, Pc, PcOK, Response, Op, CommentOp
  <1>3. CASE AuthorUnknown(r)
    BY <1>3 DEF AuthorUnknown, Answer, NoFailure, Moves, Pc, PcOK, Response, Op, CommentOp
  <1>4. CASE LockComment(r)
    BY <1>4 DEF LockComment, Unless404, GoTo, Answer, NoFailure, Moves, Pc, PcOK, Response, Op, CommentOp
  <1>5. CASE LockTimeout(r)
    BY <1>5 DEF LockTimeout, Answer, NoFailure, Moves, Pc, PcOK, Response, Op, CommentOp
  <1>6. CASE CommitContent(r)
    BY <1>6 DEF CommitContent, GoTo, NoFailure, Moves, Pc, PcOK, Response, Op, CommentOp
  <1>7. CASE ClearMentions(r)
    BY <1>7 DEF ClearMentions, GoTo, NoFailure, Moves, Pc, PcOK, Response, Op, CommentOp
  <1>8. CASE SaveMention(r) \/ LoseMention(r)
    BY <1>8 DEF SaveMention, LoseMention, serverVars, Fails, NoFailure, Moves, Pc, PcOK, Response, Op, CommentOp
  <1>9. CASE EndMentions(r)
    BY <1>9 DEF EndMentions, GoTo, NoFailure, Moves, Pc, PcOK, Response, Op, CommentOp
  <1>10. CASE FindComment(r)
    BY <1>10 DEF FindComment, Unless404, GoTo, Answer, NoFailure, Moves, Pc, PcOK, Response, Op, CommentOp
  <1>11. CASE HideComment(r)
    BY <1>11 DEF HideComment, GoTo, NoFailure, Moves, Pc, PcOK, Response, Op, CommentOp
  <1>12. CASE AuditComment(r)
    BY <1>12 DEF AuditComment, Audit, Answer, NoFailure, Moves, Pc, PcOK, Response, Op, CommentOp
  <1>13. CASE CommentCutShort(r)
    BY <1>13 DEF CommentCutShort, CutShort, Fails, Answer, Moves, Pc, PcOK, Response, Op, CommentOp
  <1> QED
    BY <1>1, <1>2, <1>3, <1>4, <1>5, <1>6, <1>7, <1>8, <1>9, <1>10, <1>11, <1>12, <1>13
       DEF CommentStep, HandleComment, CommentFault

LEMMA AttachmentMoves ==
    ASSUME PcOK, NEW r \in Request, AttachmentStep(r)
    PROVE  Moves(r, AttachmentOp) /\ PcOK'
  <1>1. CASE ReceiveFile(r) \/ RefuseFile(r) \/ RefuseTicketId(r)
    BY <1>1 DEF ReceiveFile, RefuseFile, RefuseTicketId, Received, GoTo, Answer, NoFailure,
                Moves, Pc, PcOK, Response, Op, AttachmentOp
  <1>2. CASE RefuseSize(r) \/ RefuseDeletedTicket(r)
    BY <1>2 DEF RefuseSize, RefuseDeletedTicket, RefuseUpload, DeleteFile, DeleteFileFails, Answer,
                NoFailure, Fails, Moves, Pc, PcOK, Response, Op, AttachmentOp
  <1>3. CASE FindTicket(r) \/ SaveAttachment(r)
    BY <1>3 DEF FindTicket, SaveAttachment, GoTo, NoFailure, Moves, Pc, PcOK, Response, Op, AttachmentOp
  <1>4. CASE FindAttachment(r)
    BY <1>4 DEF FindAttachment, Received, Unless404, GoTo, Answer, NoFailure, Moves, Pc, PcOK, Response, Op, AttachmentOp
  <1>5. CASE UnlinkFile(r) \/ DeleteAttachment(r)
    BY <1>5 DEF UnlinkFile, DeleteAttachment, DeleteFile, DeleteFileFails, GoTo, NoFailure, Fails,
                Moves, Pc, PcOK, Response, Op, AttachmentOp
  <1>6. CASE AuditAttachment(r) \/ AttachmentCutShort(r)
    BY <1>6 DEF AuditAttachment, AttachmentCutShort, Audit, CutShort, Answer, NoFailure, Fails,
                Moves, Pc, PcOK, Response, Op, AttachmentOp
  <1> QED
    BY <1>1, <1>2, <1>3, <1>4, <1>5, <1>6 DEF AttachmentStep, HandleAttachment

LEMMA CreationMoves ==
    ASSUME PcOK, NEW r \in Request, CreationStep(r)
    PROVE  Moves(r, CreationOp) /\ PcOK'
  <1>1. CASE ListDevelopers(r) \/ CountOpen(r)
    BY <1>1 DEF ListDevelopers, CountOpen, Received, GoTo, NoFailure, serverVars, Moves, Pc, PcOK, Response, Op, CreationOp
  <1>2. CASE InsertTicket(r) \/ AssigneeUnknown(r)
    BY <1>2 DEF InsertTicket, AssigneeUnknown, MayInsert, GoTo, Answer, NoFailure, Moves, Pc, PcOK, Response, Op, CreationOp
  <1>3. CASE AuditCreate(r) \/ AuditAutoAssign(r)
    BY <1>3 DEF AuditCreate, AuditAutoAssign, GoTo, Answer, NoFailure, Moves, Pc, PcOK, Response, Op, CreationOp
  <1>4. CASE ParseCsv(r) \/ EndImport(r)
    BY <1>4 DEF ParseCsv, EndImport, Received, GoTo, Answer, NoFailure, Moves, Pc, PcOK, Response, Op, CreationOp
  <1>5. CASE RejectRow(r) \/ InsertRow(r) \/ AuditRow(r)
    BY <1>5 DEF RejectRow, InsertRow, AuditRow, AtRow, CollectError, GoTo, NoFailure, Moves, Pc, PcOK, Response, Op, CreationOp
  <1>6. CASE InsertRowFails(r) \/ AuditRowFails(r)
    BY <1>6 DEF InsertRowFails, AuditRowFails, AtRow, CollectError, GoTo, Fails, Moves, Pc, PcOK, Response, Op, CreationOp
  <1>7. CASE CreationCutShort(r)
    BY <1>7 DEF CreationCutShort, CutShort, Fails, Answer, Moves, Pc, PcOK, Response, Op, CreationOp
  <1> QED
    BY <1>1, <1>2, <1>3, <1>4, <1>5, <1>6, <1>7 DEF CreationStep, HandleCreation, CreationFault

LEMMA EnvironmentMoves ==
    ASSUME Environment
    PROVE  UNCHANGED <<call, pc, response, commentVars, attachmentVars>>
  BY DEF Environment, TicketIsRemoved, OthersChange, serverVars

LEMMA PcInit == Init => PcOK
  BY DEF Init, ServerInit, PcOK, Pc, Response

LEMMA PcStep ==
    ASSUME PcOK, [Next]_vars
    PROVE  PcOK'
  <1>1. CASE Environment \/ UNCHANGED vars
    BY <1>1, EnvironmentMoves DEF PcOK, Op, vars, serverVars
  <1> QED
    BY <1>1, NextCases, CommentMoves, AttachmentMoves, CreationMoves

LEMMA OpsDiffer ==
    /\ CommentOp \cap AttachmentOp = {}
    /\ CommentOp \cap CreationOp = {}
    /\ AttachmentOp \cap CreationOp = {}
  BY DEF CommentOp, AttachmentOp, CreationOp

(* What a component sees of a step that is not its own.                    *)
Still(ops) ==
    /\ call' = call
    /\ \A r \in Request : Op(r) \in ops => pc'[r] = pc[r] /\ response'[r] = response[r]

LEMMA MovesStill ==
    ASSUME NEW ops, NEW others, ops \cap others = {}, PcOK, NEW r \in Request, Moves(r, others)
    PROVE  Still(ops)
  BY DEF Moves, Still, PcOK

LEMMA ForeignToComments ==
    ASSUME PcOK, [Next]_vars, ~\E r \in Request : CommentStep(r)
    PROVE  UNCHANGED commentVars /\ Still(CommentOp)
  <1>1. CASE Environment \/ UNCHANGED vars
    BY <1>1, EnvironmentMoves DEF Still, vars, serverVars
  <1>2. ASSUME NEW r \in Request, AttachmentStep(r) \/ CreationStep(r)
        PROVE  UNCHANGED commentVars /\ Still(CommentOp)
    BY <1>2, AttachmentMoves, CreationMoves, MovesStill, OpsDiffer DEF AttachmentStep, CreationStep
  <1> QED
    BY <1>1, <1>2, NextCases

LEMMA ForeignToCreation ==
    ASSUME PcOK, [Next]_vars, ~\E r \in Request : CreationStep(r)
    PROVE  /\ OthersChange \/ UNCHANGED creationVars
           /\ Still(CreationOp)
  <1>1. CASE Environment \/ UNCHANGED vars
    BY <1>1, EnvironmentMoves DEF Environment, Still, vars, serverVars
  <1>2. ASSUME NEW r \in Request, CommentStep(r) \/ AttachmentStep(r)
        PROVE  UNCHANGED creationVars /\ Still(CreationOp)
    BY <1>2, CommentMoves, AttachmentMoves, MovesStill, OpsDiffer DEF CommentStep, AttachmentStep
  <1> QED
    BY <1>1, <1>2, NextCases

LEMMA ForeignToAttachments ==
    ASSUME PcOK, [Next]_vars, ~\E r \in Request : AttachmentStep(r)
    PROVE  UNCHANGED attachmentVars /\ Still(AttachmentOp)
  <1>1. CASE Environment \/ UNCHANGED vars
    BY <1>1, EnvironmentMoves DEF Still, vars, serverVars
  <1>2. ASSUME NEW r \in Request, CommentStep(r) \/ CreationStep(r)
        PROVE  UNCHANGED attachmentVars /\ Still(AttachmentOp)
    BY <1>2, CommentMoves, CreationMoves, MovesStill, OpsDiffer DEF CommentStep, CreationStep
  <1> QED
    BY <1>1, <1>2, NextCases

-----------------------------------------------------------------------------
(* The files.  A file that is on the disk without a row, or the other way  *)
(* round, and not one of the strays, is in the hands of a request between  *)
(* its two calls; and nobody removes a file before the request that        *)
(* uploads it has saved its row.                                           *)
Attached(f) ==
    \/ f = OldFile
    \/ f \in Request /\ Op(f) = "upload" /\ pc[f] \in {"auditing", "done"}

DiskInv ==
    /\ \A f \in attachments : Attached(f)
    /\ \A r \in Request : pc[r] \in {"unlinking", "deleting"} => Attached(TargetFile(r))
    /\ \A r \in Request : pc[r] \in {"handling", "saving"} => r \in uploads
    /\ \A f \in (uploads \cup attachments) \ strays :
           (f \in uploads <=> f \in attachments)
               \/ \E r \in Request : pc[r] \in HalfDone /\ TargetFile(r) = f

LEMMA DiskInit == Init => DiskInv
  <1> SUFFICES ASSUME Init PROVE DiskInv
    OBVIOUS
  <1>1. /\ \A r \in Request : pc[r] = "idle"
        /\ uploads = {OldFile} /\ attachments = {OldFile}
    BY DEF Init, ServerInit, AttachmentsInit
  <1> QED
    BY <1>1 DEF DiskInv, Attached

LEMMA DiskStill ==
    ASSUME PcOK, DiskInv, UNCHANGED attachmentVars, Still(AttachmentOp), PcOK'
    PROVE  DiskInv'
  <1>1. \A r \in Request : Op(r)' = Op(r)
    BY DEF Still, Op
  <1>2. \A r \in Request : pc'[r] \in HalfDone \cup {"unlinking"} <=> pc[r] \in HalfDone \cup {"unlinking"}
    BY <1>1 DEF Still, PcOK, AttachmentOp, HalfDone
  <1>3. \A r \in Request : pc'[r] \in HalfDone \cup {"unlinking"} => pc'[r] = pc[r]
    BY <1>1 DEF Still, PcOK, AttachmentOp, HalfDone
  <1>4. \A r \in Request : TargetFile(r)' = TargetFile(r)
    BY <1>1 DEF Still, TargetFile
  <1>5. \A f : Attached(f) => Attached(f)'
    BY DEF Still, Attached, AttachmentOp, Op
  <1> QED
    BY <1>1, <1>2, <1>3, <1>4, <1>5 DEF DiskInv, attachmentVars, HalfDone

LEMMA DiskStep ==
    ASSUME PcOK, DiskInv, NEW r \in Request, AttachmentStep(r)
    PROVE  DiskInv'
  <1> DEFINE f == TargetFile(r)
  <1> USE DEF DiskInv
  <1>0. /\ pc \in [Request -> Pc] /\ call' = call
        /\ \A s \in Request \ {r} : pc'[s] = pc[s]
        /\ \A s \in Request : Op(s)' = Op(s) /\ TargetFile(s)' = TargetFile(s)
    BY AttachmentMoves DEF Moves, PcOK, Op, TargetFile
  (* Leaving the last steps of an upload does not make it unattached.      *)
  <1>a. ASSUME pc'[r] \in {"auditing", "done"} \/ pc[r] \notin {"auditing", "done"}
        PROVE  \A g : Attached(g) => Attached(g)'
    BY <1>0, <1>a DEF Attached, Op
  <1>1. CASE ReceiveFile(r)
    <2>1. r \in uploads' /\ pc'[r] = "handling" /\ pc[r] = "idle" /\ f = r
      BY <1>1, <1>0 DEF ReceiveFile, Received, GoTo, TargetFile
    <2> QED
      BY <1>1, <2>1, <1>0, <1>a DEF ReceiveFile, HalfDone
  <1>2. CASE RefuseFile(r)
    BY <1>2, <1>0, <1>a DEF RefuseFile, Received, Answer, attachmentVars, HalfDone
  <1>3. CASE RefuseTicketId(r)
    <2>1. pc'[r] = "done" /\ pc[r] = "handling" /\ f = r /\ strays' = strays \cup {r}
      BY <1>3, <1>0 DEF RefuseTicketId, Answer, TargetFile, PcOK
    <2> QED
      BY <1>3, <2>1, <1>0, <1>a DEF RefuseTicketId, HalfDone
  <1>4. CASE RefuseSize(r) \/ RefuseDeletedTicket(r)
    <2>1. pc'[r] = "done" /\ pc[r] = "handling" /\ f = r /\ attachments' = attachments
      BY <1>4, <1>0 DEF RefuseSize, RefuseDeletedTicket, RefuseUpload, Answer, TargetFile, PcOK
    <2>2. \/ uploads' = uploads \ {r} /\ strays' = strays
          \/ uploads' = uploads /\ strays' = strays \cup {r}
      BY <1>4 DEF RefuseSize, RefuseDeletedTicket, RefuseUpload, DeleteFile, DeleteFileFails
    <2>3. ~Attached(r)
      BY <2>1, AttachmentsAssumption DEF Attached
    <2> QED
      BY <2>1, <2>2, <2>3, <1>0, <1>a DEF HalfDone
  <1>5. CASE FindTicket(r)
    <2>1. pc'[r] = "saving" /\ pc[r] = "handling" /\ f = r /\ UNCHANGED attachmentVars
      BY <1>5, <1>0 DEF FindTicket, GoTo, TargetFile, PcOK
    <2> QED
      BY <2>1, <1>0, <1>a DEF attachmentVars, HalfDone
  <1>6. CASE SaveAttachment(r)
    <2>1. /\ pc'[r] = "auditing" /\ pc[r] = "saving" /\ Op(r) = "upload" /\ f = r
          /\ attachments' = attachments \cup {r} /\ UNCHANGED <<uploads, strays>>
      BY <1>6, <1>0 DEF SaveAttachment, GoTo, TargetFile, PcOK
    <2>2. Attached(r)'
      BY <2>1, <1>0 DEF Attached
    <2> QED
      BY <2>1, <2>2, <1>0, <1>a DEF HalfDone
  <1>7. CASE FindAttachment(r)
    <2>1. /\ pc[r] = "idle" /\ pc'[r] \in {"unlinking", "done"} /\ UNCHANGED attachmentVars
          /\ pc'[r] = "unlinking" => f \in attachments
      BY <1>7, <1>0 DEF FindAttachment, Received, Unless404, GoTo, Answer
    <2> QED
      BY <2>1, <1>0, <1>a DEF attachmentVars, HalfDone
  <1>8. CASE UnlinkFile(r)
    <2>1. /\ pc[r] = "unlinking" /\ pc'[r] = "deleting" /\ UNCHANGED <<attachments, strays>>
          /\ uploads' = uploads \ {f} \/ uploads' = uploads
      BY <1>8, <1>0 DEF UnlinkFile, DeleteFile, DeleteFileFails, GoTo
    <2>2. Attached(f)
      BY <2>1
    <2>3. \A s \in Request : pc'[s] \in {"handling", "saving"} => s # f
      BY <2>1, <2>2, <1>0, AttachmentsAssumption DEF Attached
    <2> QED
      BY <2>1, <2>2, <2>3, <1>0, <1>a DEF HalfDone
  <1>9. CASE DeleteAttachment(r)
    <2>1. /\ pc[r] = "deleting" /\ pc'[r] = "auditing" /\ uploads' = uploads
          /\ attachments' = attachments \ {f}
          /\ f \in strays' <=> f \in uploads
          /\ \A g : g # f => (g \in strays' <=> g \in strays)
      BY <1>9, <1>0 DEF DeleteAttachment, GoTo
    <2> QED
      BY <2>1, <1>0, <1>a DEF HalfDone
  <1>10. CASE AuditAttachment(r)
    <2>1. pc[r] = "auditing" /\ pc'[r] = "done" /\ UNCHANGED attachmentVars
      BY <1>10, <1>0 DEF AuditAttachment, Audit, Answer
    <2> QED
      BY <2>1, <1>0, <1>a DEF attachmentVars, HalfDone
  <1>11. CASE AttachmentCutShort(r)
    <2>1. /\ pc'[r] = "done" /\ UNCHANGED <<uploads, attachments>>
          /\ strays \subseteq strays'
          /\ pc[r] \in HalfDone => f \in strays' \/ (f \in uploads <=> f \in attachments)
      BY <1>11, <1>0 DEF AttachmentCutShort, CutShort, Answer
    <2> QED
      BY <2>1, <1>0, <1>a DEF HalfDone
  <1> QED
    BY <1>1, <1>2, <1>3, <1>4, <1>5, <1>6, <1>7, <1>8, <1>9, <1>10, <1>11
       DEF AttachmentStep, HandleAttachment

LEMMA DiskHolds == PcOK /\ DiskInv => DiskMatchesTable
  <1> SUFFICES ASSUME PcOK, DiskInv, NEW f \in File, f \notin strays,
                      \A r \in Request : ~WorksOn(r, f)
               PROVE  f \in uploads <=> f \in attachments
    BY DEF DiskMatchesTable
  <1> QED
    BY DEF DiskInv, PcOK, WorksOn, InFlight, HalfDone, AttachmentOp

(* Once no request works on a file, it is on the disk exactly if a row     *)
(* names it, unless a failure or an early refusal set them apart.          *)
THEOREM FilesMatchRows == Spec => []DiskMatchesTable
  <1>1. Init => PcOK /\ DiskInv
    BY PcInit, DiskInit
  <1>2. PcOK /\ DiskInv /\ [Next]_vars => PcOK' /\ DiskInv'
    BY PcStep, DiskStep, DiskStill, ForeignToAttachments
  <1> QED
    BY <1>1, <1>2, DiskHolds, PTL DEF Spec

-----------------------------------------------------------------------------
(* The mentions.  Nobody but the one request that is writing the mentions  *)
(* of a comment comes between its content and them, unless the comment is  *)
(* one of the unsynced.                                                    *)
InSyncBut(c, who, later) ==
    /\ who \subseteq UNION {Matches[n] : n \in Names[content[c]]}
    /\ \A n \in Names[content[c]] \ later : Matches[n] # {} => Matches[n] \cap who # {}

Settling(c) ==
    /\ \A r, s \in Mentioning(c) : r = s
    /\ Mentioning(c) = {} => InSync(c, MentionsOf(c))
    /\ \A r \in Mentioning(c) :
           /\ content[c] = call[r].content
           /\ pc[r] = "mentioning" =>
                  unread[r] \subseteq Names[content[c]] /\ InSyncBut(c, MentionsOf(c), unread[r])

MentionInv ==
    /\ CommentsTypeOK
    /\ \A r \in Request :
           Op(r) = "createComment" /\ pc[r] \in {"idle", "inserting"} => content[r] = Absent
    /\ \A r \in Request :
           pc[r] \in {"writing", "clearing", "mentioning"} => content[Target(r)] # Absent
    /\ \A c \in Comment \ unsynced : content[c] # Absent => Settling(c)

LEMMA CommentTypes ==
    ASSUME PcOK, NEW r \in Request, Op(r) \in CommentOp
    PROVE  /\ Target(r) \in Comment
           /\ Op(r) # "removeComment" =>
                  /\ call[r].content \in Content
                  /\ Names[call[r].content] \in SUBSET Username
  BY CommentsAssumption DEF PcOK, Op, Target, Comment, CommentOp

LEMMA MentionInit == Init => MentionInv
  <1> SUFFICES ASSUME Init PROVE MentionInv
    OBVIOUS
  <1>1. /\ \A r \in Request : pc[r] = "idle"
        /\ \A c \in Request : content[c] = Absent
        /\ content[OldComment] = OldContent
        /\ InSync(OldComment, MentionsOf(OldComment))
        /\ content \in [Comment -> Content \cup {Absent}]
    <2>1. PICK who \in SUBSET User : InSync(OldComment, who) /\ mentions = {OldComment} \X who
      BY DEF Init, CommentsInit
    <2>2. MentionsOf(OldComment) = who
      BY <2>1 DEF MentionsOf
    <2> QED
      BY <2>1, <2>2, CommentsAssumption DEF Init, ServerInit, CommentsInit, Comment
  <1>2. CommentsTypeOK
    BY <1>1, CommentsAssumption DEF Init, CommentsInit, CommentsTypeOK, Comment
  <1>3. \A c : Mentioning(c) = {}
    BY <1>1 DEF Mentioning
  <1> QED
    BY <1>1, <1>2, <1>3 DEF MentionInv, Settling, Comment

LEMMA MentionStill ==
    ASSUME PcOK, MentionInv, UNCHANGED commentVars, Still(CommentOp), PcOK'
    PROVE  MentionInv'
  <1>1. \A r \in Request : Op(r)' = Op(r) /\ Target(r)' = Target(r) /\ call'[r] = call[r]
    BY DEF Still, Op, Target
  <1>2. \A r \in Request : pc'[r] \in {"inserting", "writing", "clearing", "mentioning"}
                               \/ pc[r] \in {"inserting", "writing", "clearing", "mentioning"}
                               \/ Op(r) = "createComment" => pc'[r] = pc[r]
    BY <1>1 DEF Still, PcOK, CommentOp
  <1>3. \A c \in Comment : Mentioning(c)' = Mentioning(c)
    BY <1>1, <1>2 DEF Mentioning
  <1>4. ASSUME NEW c \in Comment, Settling(c)
        PROVE  Settling(c)'
    BY <1>1, <1>2, <1>3, <1>4 DEF Settling, InSync, InSyncBut, MentionsOf, Mentioning, commentVars
  <1>5. CommentsTypeOK'
    BY DEF MentionInv, CommentsTypeOK, commentVars
  <1> QED
    BY <1>1, <1>2, <1>4, <1>5 DEF MentionInv, commentVars

LEMMA CommentTypeStep ==
    ASSUME PcOK, MentionInv, NEW r \in Request, CommentStep(r)
    PROVE  CommentsTypeOK'
  <1> USE DEF CommentsTypeOK, MentionInv
  <1>0. Op(r) \in CommentOp /\ Target(r) \in Comment
    BY CommentMoves, CommentTypes DEF Moves
  <1>1. CASE ValidateTicket(r) \/ AuthorUnknown(r) \/ LockTimeout(r) \/ EndMentions(r)
             \/ FindComment(r) \/ AuditComment(r)
    <2>1. UNCHANGED commentVars
      BY <1>1 DEF ValidateTicket, AuthorUnknown, LockTimeout, EndMentions, FindComment, AuditComment
    <2> QED
      BY <2>1 DEF commentVars
  <1>2. CASE InsertComment(r)
    <2>1. call[r].content \in Content /\ Names[call[r].content] \in SUBSET Username /\ r \in Comment
      BY <1>2, CommentTypes DEF InsertComment, CommentOp, Comment
    <2> QED
      BY <1>2, <2>1, CommentsAssumption DEF InsertComment
  <1>3. CASE LockComment(r)
    BY <1>3, <1>0 DEF LockComment
  <1>4. CASE CommitContent(r)
    <2>1. call[r].content \in Content
      BY <1>4, <1>0, CommentTypes DEF CommitContent, PcOK
    <2> QED
      BY <1>4, <1>0, <2>1, CommentsAssumption DEF CommitContent
  <1>5. CASE ClearMentions(r)
    <2>1. Names[call[r].content] \in SUBSET Username
      BY <1>5, <1>0, CommentTypes DEF ClearMentions, PcOK
    <2> QED
      BY <1>5, <2>1 DEF ClearMentions
  <1>6. CASE SaveMention(r)
    <2>1. PICK n \in unread[r] :
              /\ unread' = [unread EXCEPT ![r] = @ \ {n}]
              /\ \/ mentions' = mentions
                 \/ \E u \in Matches[n] : mentions' = mentions \cup {<<Target(r), u>>}
      BY <1>6 DEF SaveMention
    <2>2. n \in Username /\ Matches[n] \subseteq User
      BY <2>1, CommentsAssumption
    <2>3. content[Target(r)] # Absent
      BY <1>6 DEF SaveMention
    <2> QED
      BY <1>6, <1>0, <2>1, <2>2, <2>3 DEF SaveMention
  <1>7. CASE LoseMention(r)
    BY <1>7, <1>0 DEF LoseMention
  <1>8. CASE HideComment(r)
    BY <1>8, <1>0 DEF HideComment
  <1>9. CASE CommentCutShort(r)
    BY <1>9, <1>0 DEF CommentCutShort, ReleaseLock
  <1> QED
    BY <1>1, <1>2, <1>3, <1>4, <1>5, <1>6, <1>7, <1>8, <1>9
       DEF CommentStep, HandleComment, CommentFault

LEMMA MentionStep ==
    ASSUME PcOK, MentionInv, NEW r \in Request, CommentStep(r)
    PROVE  MentionInv'
  <1> PICK c \in Comment : c = Target(r)
    BY CommentMoves, CommentTypes DEF Moves
  <1>0. /\ pc \in [Request -> Pc] /\ call' = call
        /\ \A s \in Request \ {r} : pc'[s] = pc[s]
        /\ \A s \in Request : Op(s)' = Op(s) /\ Target(s)' = Target(s)
        /\ Op(r) \in CommentOp
    BY CommentMoves, CommentTypes DEF Moves, PcOK, Op, Target
  <1>T. CommentsTypeOK'
    BY CommentTypeStep
  (* The comments that the request is not about.                           *)
  <1>O. ASSUME \A d \in Comment \ {c} : content'[d] = content[d],
               \A m : m[1] # c => (m \in mentions' <=> m \in mentions),
               \A s \in Request \ {r} : unread'[s] = unread[s],
               NEW d \in Comment \ {c}, Settling(d)
        PROVE  Settling(d)'
    <2>1. Mentioning(d)' = Mentioning(d) /\ r \notin Mentioning(d)
      BY <1>0 DEF Mentioning
    <2>2. MentionsOf(d)' = MentionsOf(d) /\ content'[d] = content[d]
      BY <1>O DEF MentionsOf
    <2> QED
      BY <1>0, <1>O, <2>1, <2>2 DEF Settling, InSync, InSyncBut, Mentioning
  (* Its own, when it is neither about to write mentions nor was.          *)
  <1>Q. ASSUME UNCHANGED <<content, mentions, unread, unsynced>>,
               pc[r] \notin {"clearing", "mentioning"}, pc'[r] \notin {"clearing", "mentioning"},
               pc'[r] \in {"idle", "inserting"} => pc[r] \in {"idle", "inserting"},
               pc'[r] = "writing" => content[c] # Absent
        PROVE  MentionInv'
    <2>1. ASSUME NEW d \in Comment, Settling(d)
          PROVE  Settling(d)'
      <3>1. Mentioning(d)' = Mentioning(d) /\ r \notin Mentioning(d)
        BY <1>0, <1>Q DEF Mentioning
      <3>2. MentionsOf(d)' = MentionsOf(d) /\ content'[d] = content[d] /\ unread' = unread
        BY <1>Q DEF MentionsOf
      <3> QED
        BY <1>0, <2>1, <3>1, <3>2 DEF Settling, InSync, InSyncBut, Mentioning
    <2> QED
      BY <1>0, <1>T, <1>Q, <2>1 DEF MentionInv
  <1>1. CASE ValidateTicket(r) \/ AuthorUnknown(r) \/ LockTimeout(r) \/ FindComment(r) \/ AuditComment(r)
    <2>1. UNCHANGED commentVars
      BY <1>1 DEF ValidateTicket, AuthorUnknown, LockTimeout, FindComment, AuditComment
    <2>2. /\ pc[r] \notin {"clearing", "mentioning"}
          /\ pc'[r] \in {"inserting", "locking", "finding", "hiding", "done"}
          /\ pc'[r] = "inserting" => pc[r] = "idle"
      BY <1>0, <1>1 DEF ValidateTicket, AuthorUnknown, LockTimeout, FindComment, AuditComment,
                        Received, Unless404, GoTo, Answer, Audit, CommentOp
    <2> QED
      BY <1>Q, <2>1, <2>2 DEF commentVars
  <1>2. CASE LockComment(r)
    BY <1>Q, <1>0, <1>2 DEF LockComment, Unless404, GoTo, Answer, FindsComment
  <1>3. CASE HideComment(r)
    BY <1>Q, <1>0, <1>3 DEF HideComment, GoTo
  <1>4. CASE InsertComment(r)
    <2>1. /\ pc[r] = "inserting" /\ pc'[r] = "mentioning" /\ Op(r) = "createComment" /\ c = r
          /\ content' = [content EXCEPT ![r] = call[r].content]
          /\ unread' = [unread EXCEPT ![r] = Names[call[r].content]]
          /\ UNCHANGED <<mentions, unsynced>>
      BY <1>0, <1>4 DEF InsertComment, GoTo, Target
    <2>2. content[c] = Absent /\ Mentioning(c) = {} /\ MentionsOf(c) = {}
      BY <2>1 DEF MentionInv, CommentsTypeOK, Mentioning, MentionsOf
    <2>3. content'[c] = call'[r].content /\ content'[c] # Absent /\ unread'[r] = Names[content'[c]]
      BY <1>0, <2>1, CommentTypes, CommentsAssumption DEF MentionInv, CommentsTypeOK
    <2>4. Mentioning(c)' = {r}
      BY <1>0, <2>1, <2>2 DEF Mentioning
    <2>5. MentionsOf(c)' = {}
      BY <2>1, <2>2 DEF MentionsOf
    <2>6. Settling(c)'
      BY <2>3, <2>4, <2>5 DEF Settling, InSyncBut
    <2>7. \A d \in Comment \ {c} : content'[d] = content[d]
      BY <2>1 DEF MentionInv, CommentsTypeOK
    <2>8. \A s \in Request \ {r} : unread'[s] = unread[s]
      BY <2>1 DEF MentionInv, CommentsTypeOK
    <2>9. \A d \in Comment \ {c} : Settling(d) => Settling(d)'
      BY <1>O, <2>1, <2>7, <2>8
    <2>10. \A d \in Comment \ unsynced' : content'[d] # Absent => Settling(d)'
      BY <2>1, <2>6, <2>7, <2>9 DEF MentionInv
    <2>11. \A s \in Request : Op(s)' = "createComment" /\ pc'[s] \in {"idle", "inserting"} =>
               content'[s] = Absent
      <3>1. ASSUME NEW s \in Request, Op(s)' = "createComment", pc'[s] \in {"idle", "inserting"}
            PROVE  content'[s] = Absent
        <4>1. s # r /\ pc[s] = pc'[s] /\ Op(s) = "createComment"
          BY <1>0, <2>1, <3>1
        <4>2. content[s] = Absent
          BY <3>1, <4>1 DEF MentionInv
        <4> QED
          BY <2>1, <2>7, <4>1, <4>2 DEF Comment
      <3> QED
        BY <3>1
    <2>12. \A s \in Request : pc'[s] \in {"writing", "clearing", "mentioning"} =>
               content'[Target(s)'] # Absent
      <3>1. ASSUME NEW s \in Request, pc'[s] \in {"writing", "clearing", "mentioning"}
            PROVE  content'[Target(s)'] # Absent
        <4>1. CASE s = r
          BY <1>0, <2>1, <2>3, <4>1
        <4>2. CASE s # r
          <5>1. pc[s] = pc'[s] /\ Op(s) \in CommentOp /\ Target(s)' = Target(s)
            BY <1>0, <3>1, <4>2 DEF PcOK, CommentOp
          <5>2. content[Target(s)] # Absent /\ Target(s) \in Comment
            BY <3>1, <5>1, CommentTypes DEF MentionInv
          <5> QED
            BY <2>2, <2>7, <5>1, <5>2
        <4> QED
          BY <4>1, <4>2
      <3> QED
        BY <3>1
    <2> QED
      BY <1>T, <2>10, <2>11, <2>12 DEF MentionInv
  <1>5. CASE CommitContent(r)
    <2>1. /\ pc[r] = "writing" /\ pc'[r] = "clearing" /\ Op(r) = "editComment"
          /\ content' = [content EXCEPT ![c] = call[r].content]
          /\ unsynced' = IF Mentioning(c) # {} THEN unsynced \cup {c} ELSE unsynced \ {c}
          /\ UNCHANGED <<mentions, unread>>
      BY <1>0, <1>5 DEF CommitContent, GoTo, PcOK
    <2>2. content'[c] = call'[r].content /\ content'[c] # Absent
      BY <1>0, <2>1, CommentTypes, CommentsAssumption DEF MentionInv, CommentsTypeOK
    <2>3. content[c] # Absent
      BY <2>1 DEF MentionInv
    <2>4. ASSUME Mentioning(c) = {}
          PROVE  Settling(c)'
      <3>1. Mentioning(c)' = {r}
        BY <1>0, <2>1, <2>4 DEF Mentioning
      <3> QED
        BY <2>1, <2>2, <3>1 DEF Settling
    <2>5. \A d \in Comment \ {c} : content'[d] = content[d]
      BY <2>1 DEF MentionInv, CommentsTypeOK
    <2>6. \A d \in Comment \ {c} : d \notin unsynced' => d \notin unsynced
      BY <2>1
    <2>7. c \notin unsynced' => Mentioning(c) = {}
      BY <2>1
    <2> QED
      BY <1>0, <1>T, <1>O, <2>1, <2>2, <2>3, <2>4, <2>5, <2>6, <2>7 DEF MentionInv
  <1>6. CASE ClearMentions(r)
    <2>1. /\ pc[r] = "clearing" /\ pc'[r] = "mentioning"
          /\ mentions' = {m \in mentions : m[1] # c}
          /\ unread' = [unread EXCEPT ![r] = Names[call[r].content]]
          /\ UNCHANGED <<content, unsynced>>
      BY <1>0, <1>6 DEF ClearMentions, GoTo
    <2>2. Mentioning(c)' = Mentioning(c) /\ r \in Mentioning(c)
      BY <1>0, <2>1 DEF Mentioning
    <2>3. MentionsOf(c)' = {}
      BY <2>1 DEF MentionsOf
    <2>4. unread'[r] = Names[call[r].content] /\ \A s \in Request \ {r} : unread'[s] = unread[s]
      BY <2>1 DEF MentionInv, CommentsTypeOK
    <2>5. Settling(c) => Settling(c)'
      BY <1>0, <2>1, <2>2, <2>3, <2>4 DEF Settling, InSyncBut
    <2> QED
      BY <1>0, <1>T, <1>O, <2>1, <2>4, <2>5 DEF MentionInv
  <1>7. CASE SaveMention(r)
    <2>1. PICK n \in unread[r] :
              /\ unread' = [unread EXCEPT ![r] = @ \ {n}]
              /\ IF Matches[n] = {} THEN UNCHANGED mentions
                 ELSE \E u \in Matches[n] : mentions' = mentions \cup {<<c, u>>}
      BY <1>7 DEF SaveMention
    <2>2. /\ pc[r] = "mentioning" /\ pc'[r] = "mentioning" /\ UNCHANGED <<content, unsynced>>
          /\ unread'[r] = unread[r] \ {n}
          /\ \A s \in Request \ {r} : unread'[s] = unread[s]
      BY <1>7, <2>1 DEF SaveMention, serverVars, MentionInv, CommentsTypeOK
    <2>3. Mentioning(c)' = Mentioning(c) /\ r \in Mentioning(c)
      BY <1>0, <2>2 DEF Mentioning
    <2>4. /\ MentionsOf(c) \subseteq MentionsOf(c)'
          /\ MentionsOf(c)' \subseteq MentionsOf(c) \cup Matches[n]
          /\ Matches[n] # {} => Matches[n] \cap MentionsOf(c)' # {}
      <3>1. n \in Username
        BY <2>1 DEF MentionInv, CommentsTypeOK
      <3>2. Matches[n] \subseteq User
        BY <3>1, CommentsAssumption
      <3> QED
        BY <2>1, <3>2 DEF MentionsOf
    <2>5. ASSUME Settling(c)
          PROVE  Settling(c)'
      <3>1. \A s \in Mentioning(c) : s = r
        BY <2>3, <2>5 DEF Settling
      <3>2. /\ content[c] = call[r].content /\ unread[r] \subseteq Names[content[c]]
            /\ InSyncBut(c, MentionsOf(c), unread[r])
        BY <2>2, <2>3, <2>5 DEF Settling
      <3>3. /\ MentionsOf(c)' \subseteq UNION {Matches[x] : x \in Names[content[c]]}
            /\ \A x \in Names[content[c]] \ unread'[r] :
                   Matches[x] # {} => Matches[x] \cap MentionsOf(c)' # {}
        BY <2>1, <2>2, <2>4, <3>2 DEF InSyncBut
      <3>4. unread'[r] \subseteq Names[content'[c]] /\ content'[c] = call'[r].content
        BY <1>0, <2>2, <3>2
      <3> QED
        BY <1>0, <2>2, <2>3, <3>1, <3>3, <3>4 DEF Settling, InSyncBut
    <2>6. \A m : m[1] # c => (m \in mentions' <=> m \in mentions)
      BY <2>1
    <2> QED
      BY <1>0, <1>T, <1>O, <2>2, <2>5, <2>6 DEF MentionInv
  <1>8. CASE LoseMention(r)
    <2>1. /\ pc' = pc /\ UNCHANGED <<content, mentions>>
          /\ unsynced' = unsynced \cup {c}
          /\ \A s \in Request \ {r} : unread'[s] = unread[s]
      BY <1>8 DEF LoseMention, MentionInv, CommentsTypeOK
    <2> QED
      BY <1>0, <1>T, <1>O, <2>1 DEF MentionInv
  <1>9. CASE EndMentions(r)
    <2>1. pc[r] = "mentioning" /\ pc'[r] = "auditing" /\ unread[r] = {} /\ UNCHANGED commentVars
      BY <1>0, <1>9 DEF EndMentions, GoTo
    <2>2. Mentioning(c)' = Mentioning(c) \ {r} /\ r \in Mentioning(c)
      BY <1>0, <2>1 DEF Mentioning
    <2>3. ASSUME Settling(c)
          PROVE  Settling(c)'
      <3>1. Mentioning(c)' = {} /\ InSyncBut(c, MentionsOf(c), {})
        BY <2>1, <2>2, <2>3 DEF Settling
      <3>2. InSync(c, MentionsOf(c))
        BY <3>1 DEF InSync, InSyncBut
      <3>3. InSync(c, MentionsOf(c))'
        BY <2>1, <3>2 DEF InSync, MentionsOf, commentVars
      <3> QED
        BY <3>1, <3>3 DEF Settling
    <2> QED
      BY <1>0, <1>T, <1>O, <2>1, <2>3 DEF MentionInv, commentVars
  <1>10. CASE CommentCutShort(r)
    <2>1. /\ pc'[r] = "done" /\ UNCHANGED <<content, mentions>>
          /\ unsynced' = IF pc[r] \in {"clearing", "mentioning"} THEN unsynced \cup {c} ELSE unsynced
          /\ \A s \in Request \ {r} : unread'[s] = unread[s]
      BY <1>0, <1>10 DEF CommentCutShort, CutShort, Answer, MentionInv, CommentsTypeOK
    <2>2. ASSUME pc[r] \notin {"clearing", "mentioning"}, Settling(c)
          PROVE  Settling(c)'
      <3>1. Mentioning(c)' = Mentioning(c) /\ r \notin Mentioning(c)
        BY <1>0, <2>1, <2>2 DEF Mentioning
      <3>2. MentionsOf(c)' = MentionsOf(c) /\ content'[c] = content[c]
        BY <2>1 DEF MentionsOf
      <3> QED
        BY <1>0, <2>1, <2>2, <3>1, <3>2 DEF Settling, InSync, InSyncBut, Mentioning
    <2> QED
      BY <1>0, <1>T, <1>O, <2>1, <2>2 DEF MentionInv
  <1> QED
    BY <1>1, <1>2, <1>3, <1>4, <1>5, <1>6, <1>7, <1>8, <1>9, <1>10
       DEF CommentStep, HandleComment, CommentFault

(* Without patterns, whoever matches a name is called by it.               *)
LEMMA InSyncNames ==
    ASSUME NEW c \in Comment, content[c] \in Content, NEW who \in SUBSET User, InSync(c, who)
    PROVE  MentionsTheNamed(c, who)
  <1>1. \A n \in Names[content[c]] :
            Known[n] \subseteq Matches[n] /\ (~IsPattern(n) => Known[n] = Matches[n])
    BY CommentsAssumption DEF Username, IsPattern
  <1>2. ASSUME NEW u \in who
        PROVE  \E n \in Names[content[c]] : u \in Known[n] \/ (IsPattern(n) /\ u \in Matches[n])
    <2>1. PICK n \in Names[content[c]] : u \in Matches[n]
      BY DEF InSync
    <2> QED
      BY <1>1, <2>1
  <1>3. ASSUME NEW n \in Names[content[c]], ~IsPattern(n), Known[n] # {}
        PROVE  Known[n] \cap who # {}
    BY <1>1, <1>3 DEF InSync
  <1> QED
    BY <1>2, <1>3 DEF MentionsTheNamed

LEMMA MentionsHold == MentionInv => MentionsMatchContent
  <1> SUFFICES ASSUME MentionInv, NEW c \in Comment, content[c] # Absent,
                      Mentioning(c) = {}, c \notin unsynced
               PROVE  MentionsTheNamed(c, MentionsOf(c))
    BY DEF MentionsMatchContent
  <1>1. content[c] \in Content /\ InSync(c, MentionsOf(c))
    BY DEF MentionInv, CommentsTypeOK, Settling
  <1>2. MentionsOf(c) \in SUBSET User
    BY DEF MentionsOf
  <1> QED
    BY <1>1, <1>2, InSyncNames

LEMMA MentionsAlways == Spec => [](PcOK /\ MentionInv)
  <1>1. Init => PcOK /\ MentionInv
    BY PcInit, MentionInit
  <1>2. PcOK /\ MentionInv /\ [Next]_vars => PcOK' /\ MentionInv'
    BY PcStep, MentionStep, MentionStill, ForeignToComments
  <1> QED
    BY <1>1, <1>2, PTL DEF Spec

(* At rest, a comment mentions those whom its content names, unless        *)
(* writers of its mentions overlapped or one was cut short or lost a save; *)
(* and nobody else, unless a name was taken for a pattern.                 *)
THEOREM MentionsFollowContent == Spec => []MentionsMatchContent
  BY MentionsAlways, MentionsHold, PTL

-----------------------------------------------------------------------------
(* The import.  Of the rows before the next, each is counted once, and the *)
(* rows inserted are those that did not fail, the ones that lack an audit  *)
(* entry, and the one whose entry is being written.                        *)
Failed(r) ==
    {i \in DOMAIN Rows(r) :
        \E k \in DOMAIN report[r].errors : report[r].errors[k] = RowNumber(i)}

ErrorsInOrder(r) ==
    /\ \A k \in DOMAIN report[r].errors : report[r].errors[k] < RowNumber(nextRow[r])
    /\ \A k \in 2 .. Len(report[r].errors) : report[r].errors[k - 1] < report[r].errors[k]

Pending(r) == IF pc[r] = "auditingRow" THEN {nextRow[r]} ELSE {}

Accounted(r) ==
    /\ report[r].created + report[r].failed + 1 = nextRow[r]
    /\ IsFiniteSet(Failed(r)) /\ report[r].failed = Cardinality(Failed(r))
    /\ ErrorsInOrder(r)
    /\ Inserted(r) = (1 .. nextRow[r] - 1 \ Failed(r)) \cup unaudited[r] \cup Pending(r)
    /\ Pending(r) \subseteq DOMAIN Rows(r)

ImportOK(r) ==
    /\ nextRow[r] \in 1 .. Len(Rows(r)) + 1
    /\ unaudited[r] \subseteq Inserted(r)
    /\ pc[r] # "done" \/ response[r] = "200" => Accounted(r)
    /\ response[r] = "200" => nextRow[r] = Len(Rows(r)) + 1

Report == [created : Nat, failed : Nat, errors : Seq(Nat)]

ImportInv ==
    /\ report \in [Request -> Report]
    /\ nextRow \in [Request -> Nat]
    /\ unaudited \in [Request -> SUBSET Nat]
    /\ \A r \in Request : Op(r) = "importTickets" => ImportOK(r)

LEMMA RowsType ==
    ASSUME PcOK, NEW r \in Request, Op(r) = "importTickets"
    PROVE  Rows(r) \in Seq(CsvRow)
  BY CreationAssumption DEF PcOK, Op, Rows

LEMMA ImportInit == Init => ImportInv
  <1> SUFFICES ASSUME Init PROVE ImportInv
    OBVIOUS
  <1>1. /\ report = [r \in Request |-> NoReport] /\ nextRow = [r \in Request |-> 1]
        /\ unaudited = [r \in Request |-> {}] /\ assignees = {}
        /\ pc = [r \in Request |-> "idle"] /\ response = [r \in Request |-> "none"]
    BY DEF Init, ServerInit, CreationInit
  <1>2. NoReport \in Report /\ NoReport.errors = <<>> /\ Len(NoReport.errors) = 0
    BY DEF NoReport, Report
  <1>3. ASSUME NEW r \in Request, Op(r) = "importTickets"
        PROVE  ImportOK(r)
    <2>1. Failed(r) = {} /\ Inserted(r) = {} /\ Pending(r) = {} /\ nextRow[r] = 1
      BY <1>1, <1>2 DEF Failed, Inserted, Pending
    <2>2. Rows(r) \in Seq(CsvRow)
      BY <1>3, RowsType, PcInit
    <2>3. ErrorsInOrder(r)
      BY <1>1, <1>2 DEF ErrorsInOrder
    <2>4. Accounted(r)
      BY <1>1, <2>1, <2>3, FS_EmptySet DEF Accounted, NoReport
    <2> QED
      BY <1>1, <2>1, <2>2, <2>4 DEF ImportOK
  <1> QED
    BY <1>1, <1>2, <1>3 DEF ImportInv

(* What is known of an import stays so as long as nothing of it moves.     *)
LEMMA ImportOKStays ==
    ASSUME NEW r, ImportOK(r), call' = call, pc'[r] = pc[r], response'[r] = response[r],
           report'[r] = report[r], nextRow'[r] = nextRow[r], unaudited'[r] = unaudited[r],
           Inserted(r)' = Inserted(r)
    PROVE  ImportOK(r)'
  BY DEF ImportOK, Accounted, ErrorsInOrder, Failed, Pending, Rows

LEMMA ImportStill ==
    ASSUME PcOK, ImportInv, OthersChange \/ UNCHANGED creationVars, Still(CreationOp)
    PROVE  ImportInv'
  <1>1. UNCHANGED <<report, nextRow, unaudited, assignees>>
    BY DEF OthersChange, creationVars, importVars
  <1>2. \A r \in Request : Op(r)' = Op(r) /\ Inserted(r)' = Inserted(r)
    BY <1>1 DEF Still, Op, Inserted
  <1>3. \A r \in Request : Op(r) = "importTickets" =>
            pc'[r] = pc[r] /\ response'[r] = response[r] /\ call' = call
    BY DEF Still, CreationOp
  <1> QED
    BY <1>1, <1>2, <1>3, ImportOKStays DEF ImportInv

(* One more error, for the row that the import has come to.                *)
LEMMA ErrorCollected ==
    ASSUME PcOK, ImportInv, NEW r \in Request, Op(r) = "importTickets", pc[r] # "done",
           call' = call, nextRow[r] <= Len(Rows(r)), CollectError(r)
    PROVE  /\ report' \in [Request -> Report] /\ nextRow' \in [Request -> Nat]
           /\ nextRow'[r] = nextRow[r] + 1 /\ pc'[r] = "importing"
           /\ report'[r].created + report'[r].failed + 1 = nextRow'[r]
           /\ Failed(r)' = Failed(r) \cup {nextRow[r]}
           /\ IsFiniteSet(Failed(r))' /\ report'[r].failed = Cardinality(Failed(r))'
           /\ ErrorsInOrder(r)'
  <1>1. PICK errors \in Seq(Nat) : errors = report[r].errors
    BY DEF ImportInv, Report
  <1>2. PICK i \in Nat : i = nextRow[r]
    BY DEF ImportInv
  <1>3. /\ Rows(r) \in Seq(CsvRow) /\ Rows(r)' = Rows(r)
        /\ i \in DOMAIN Rows(r) /\ Accounted(r)
    BY <1>2, RowsType DEF ImportInv, ImportOK, Rows
  <1>4. report[r] \in Report /\ report[r].failed \in Nat /\ report[r].created \in Nat
    BY DEF ImportInv, Report
  <1>5. PICK longer \in Seq(Nat) :
            /\ longer = Append(errors, i + 1)
            /\ Len(longer) = Len(errors) + 1 /\ Len(errors) \in Nat
            /\ DOMAIN errors = 1 .. Len(errors) /\ DOMAIN longer = 1 .. Len(errors) + 1
            /\ \A k \in 1 .. Len(errors) : longer[k] = errors[k]
            /\ longer[Len(errors) + 1] = i + 1
    <2>1. PICK x \in Nat : x = i + 1
      OBVIOUS
    <2>2. Append(errors, x) \in Seq(Nat) /\ Len(Append(errors, x)) = Len(errors) + 1
      OBVIOUS
    <2>3. \A k \in 1 .. Len(errors) : Append(errors, x)[k] = errors[k]
      OBVIOUS
    <2>4. Append(errors, x)[Len(errors) + 1] = x
      OBVIOUS
    <2>5. /\ DOMAIN errors = 1 .. Len(errors) /\ Len(errors) \in Nat
          /\ DOMAIN Append(errors, x) = 1 .. Len(errors) + 1
      OBVIOUS
    <2> QED
      BY <2>1, <2>2, <2>3, <2>4, <2>5, Zenon
  <1>6. /\ report'[r].created = report[r].created /\ report'[r].failed = report[r].failed + 1
        /\ report'[r].errors = longer
        /\ report' \in [Request -> Report]
    <2>1. report' = [report EXCEPT ![r] = [created |-> report[r].created,
                                           failed |-> report[r].failed + 1, errors |-> longer]]
      BY <1>1, <1>2, <1>5 DEF CollectError, RowNumber
    <2>2. [created |-> report[r].created, failed |-> report[r].failed + 1, errors |-> longer] \in Report
      BY <1>4 DEF Report
    <2> QED
      BY <2>1, <2>2 DEF ImportInv
  <1>7. nextRow' = [nextRow EXCEPT ![r] = i + 1] /\ pc'[r] = "importing"
    BY <1>2 DEF CollectError, GoTo, PcOK
  <1>8. /\ Len(report'[r].errors) = Len(errors) + 1
        /\ DOMAIN report'[r].errors = DOMAIN errors \cup {Len(errors) + 1}
        /\ \A k \in DOMAIN errors : report'[r].errors[k] = errors[k]
        /\ report'[r].errors[Len(errors) + 1] = i + 1
    BY <1>5, <1>6
  <1>9. Failed(r)' = Failed(r) \cup {i}
    <2>1. ASSUME NEW j \in DOMAIN Rows(r)
          PROVE  (\E k \in DOMAIN report'[r].errors : report'[r].errors[k] = j + 1)
                     <=> (\E k \in DOMAIN errors : errors[k] = j + 1) \/ i + 1 = j + 1
      BY <1>8, Zenon
    <2>2. \A j \in DOMAIN Rows(r) : i + 1 = j + 1 <=> j = i
      BY <1>3
    <2>3. /\ Failed(r) = {j \in DOMAIN Rows(r) : \E k \in DOMAIN errors : errors[k] = j + 1}
          /\ Failed(r)' = {j \in DOMAIN Rows(r) :
                               \E k \in DOMAIN report'[r].errors : report'[r].errors[k] = j + 1}
      BY <1>1, <1>3 DEF Failed, RowNumber
    <2> QED
      BY <1>3, <2>1, <2>2, <2>3
  <1>10. i \notin Failed(r)
    BY <1>1, <1>2, <1>3 DEF Accounted, ErrorsInOrder, Failed, RowNumber
  <1>11. IsFiniteSet(Failed(r))' /\ Cardinality(Failed(r))' = Cardinality(Failed(r)) + 1
    <2>1. IsFiniteSet(Failed(r))
      BY <1>3 DEF Accounted
    <2>2. /\ IsFiniteSet(Failed(r) \cup {i})
          /\ Cardinality(Failed(r) \cup {i}) = Cardinality(Failed(r)) + 1
      BY <1>10, <2>1, FS_AddElement
    <2> QED
      BY <1>9, <2>2, Zenon
  <1>12. ErrorsInOrder(r)'
    <2>1. \A k \in DOMAIN errors : errors[k] < i + 1
      BY <1>1, <1>2, <1>3 DEF Accounted, ErrorsInOrder, RowNumber
    <2>2. \A k \in 2 .. Len(errors) : errors[k - 1] < errors[k]
      BY <1>1, <1>3 DEF Accounted, ErrorsInOrder
    <2>3. nextRow'[r] = i + 1
      BY <1>7 DEF ImportInv
    <2>4. \A k \in DOMAIN report'[r].errors : report'[r].errors[k] < nextRow'[r] + 1
      BY <1>8, <2>1, <2>3
    <2>5. \A k \in 2 .. Len(report'[r].errors) : report'[r].errors[k - 1] < report'[r].errors[k]
      <3>1. TAKE k \in 2 .. Len(report'[r].errors)
      <3>2. k \in 2 .. Len(errors) + 1 /\ k - 1 \in 1 .. Len(errors)
        BY <1>5, <1>8
      <3>3. CASE k = Len(errors) + 1
        BY <1>5, <1>6, <2>1, <3>2, <3>3
      <3>4. CASE k \in 2 .. Len(errors)
        BY <1>5, <1>6, <2>2, <3>2, <3>4
      <3> QED
        BY <1>5, <3>2, <3>3, <3>4
    <2> QED
      BY <2>4, <2>5 DEF ErrorsInOrder, RowNumber
  <1>13. nextRow' \in [Request -> Nat] /\ nextRow'[r] = i + 1
    BY <1>7 DEF ImportInv
  <1>14. report'[r].created + report'[r].failed + 1 = i + 1
    <2>1. report[r].created + report[r].failed + 1 = nextRow[r]
      BY <1>3, Zenon DEF Accounted
    <2>2. PICK c \in Nat, f \in Nat : c = report[r].created /\ f = report[r].failed
      BY <1>4, Zenon
    <2>3. report'[r].created = c /\ report'[r].failed = f + 1
      BY <1>6, <2>2, Zenon
    <2>4. c + f + 1 = i
      BY <1>2, <2>1, <2>2, Zenon
    <2>5. c + (f + 1) + 1 = i + 1
      BY <2>4
    <2> QED
      BY <2>3, <2>5, Zenon
  <1>15. report'[r].failed = Cardinality(Failed(r))'
    <2>1. report[r].failed = Cardinality(Failed(r))
      BY <1>3 DEF Accounted
    <2> QED
      BY <1>6, <1>11, <2>1, Zenon
  <1> QED
    BY <1>2, <1>6, <1>7, <1>9, <1>11, <1>12, <1>13, <1>14, <1>15

LEMMA InsertAdds ==
    ASSUME NEW r, NEW row, NEW assigneeId, NEW done, Insert(r, row, assigneeId, done)
    PROVE  /\ Inserted(r)' = Inserted(r) \cup {row}
           /\ \A s : s # r => Inserted(s)' = Inserted(s)
  <1>1. assignees' = assignees \cup {[request |-> r, row |-> row, assigneeId |-> assigneeId]}
    BY DEF Insert
  <1>2. PICK new : new = [request |-> r, row |-> row, assigneeId |-> assigneeId]
    OBVIOUS
  <1>3. new.request = r /\ new.row = row /\ assignees' = assignees \cup {new}
    BY <1>1, <1>2
  <1> QED
    BY <1>3 DEF Inserted

(* A row that is reported as failed, and what becomes of the others.       *)
LEMMA RowFails ==
    ASSUME PcOK, ImportInv, NEW r \in Request, Op(r) = "importTickets", pc[r] # "done",
           call' = call, nextRow[r] <= Len(Rows(r)), CollectError(r), UNCHANGED assignees,
           response'[r] = "none",
           \/ pc[r] # "auditingRow" /\ unaudited'[r] = unaudited[r]
           \/ pc[r] = "auditingRow" /\ unaudited'[r] = unaudited[r] \cup {nextRow[r]}
    PROVE  ImportOK(r)'
  <1>1. PICK n \in Nat : n = nextRow[r]
    BY DEF ImportInv
  <1>2. /\ Accounted(r) /\ unaudited[r] \subseteq Inserted(r) /\ n \in 1 .. Len(Rows(r))
        /\ Rows(r)' = Rows(r) /\ Inserted(r)' = Inserted(r) /\ Len(Rows(r)) \in Nat
    BY <1>1, RowsType DEF ImportInv, ImportOK, Rows, Inserted
  <1>3. /\ nextRow'[r] = n + 1 /\ Failed(r)' = Failed(r) \cup {n} /\ Pending(r)' = {}
        /\ report'[r].created + report'[r].failed + 1 = nextRow'[r]
        /\ IsFiniteSet(Failed(r))' /\ report'[r].failed = Cardinality(Failed(r))'
        /\ ErrorsInOrder(r)'
    BY <1>1, ErrorCollected DEF Pending
  <1>4. Inserted(r) = (1 .. n - 1 \ Failed(r)) \cup unaudited[r] \cup Pending(r)
    BY <1>1, <1>2 DEF Accounted
  <1>5. Pending(r) = IF pc[r] = "auditingRow" THEN {n} ELSE {}
    BY <1>1 DEF Pending
  <1>6. Inserted(r) = (1 .. n \ (Failed(r) \cup {n})) \cup unaudited'[r] /\ unaudited'[r] \subseteq Inserted(r)
    <2>1. 1 .. n - 1 = 1 .. n \ {n}
      BY <1>2
    <2> QED
      BY <1>1, <1>2, <1>4, <1>5, <2>1
  <1>7. Accounted(r)'
    <2>1. n + 1 - 1 = n
      OBVIOUS
    <2> QED
      BY <1>2, <1>3, <1>6, <2>1 DEF Accounted
  <1>8. nextRow'[r] \in 1 .. Len(Rows(r)) + 1
    BY <1>2, <1>3
  <1> QED
    BY <1>2, <1>6, <1>7, <1>8 DEF ImportOK

LEMMA ImportStep ==
    ASSUME PcOK, ImportInv, NEW r \in Request, CreationStep(r)
    PROVE  ImportInv'
  <1>0. /\ call' = call
        /\ \A s \in Request \ {r} : pc'[s] = pc[s] /\ response'[s] = response[s]
        /\ \A s \in Request : Op(s)' = Op(s)
        /\ pc'[r] \in Pc /\ (pc'[r] = "done" <=> response'[r] # "none")
    BY CreationMoves DEF Moves, PcOK, Op
  (* The other imports.                                                    *)
  <1>O. ASSUME \A s \in Request \ {r} :
                   /\ report'[s] = report[s] /\ nextRow'[s] = nextRow[s]
                   /\ unaudited'[s] = unaudited[s] /\ Inserted(s)' = Inserted(s),
               NEW s \in Request \ {r}, Op(s) = "importTickets"
        PROVE  ImportOK(s)'
    BY <1>0, <1>O, ImportOKStays DEF ImportInv
  <1>1. CASE Op(r) # "importTickets"
    <2>1. UNCHANGED importVars /\ \A s \in Request \ {r} : Inserted(s)' = Inserted(s)
      <3>1. CASE InsertTicket(r)
        BY <3>1, InsertAdds DEF InsertTicket
      <3>2. CASE ListDevelopers(r) \/ CountOpen(r) \/ AssigneeUnknown(r) \/ AuditCreate(r)
                   \/ AuditAutoAssign(r) \/ CreationCutShort(r)
        BY <3>2 DEF ListDevelopers, CountOpen, AssigneeUnknown, AuditCreate, AuditAutoAssign,
                    CreationCutShort, creationVars, Inserted
      <3> QED
        BY <1>1, <3>1, <3>2 DEF CreationStep, HandleCreation, CreationFault, ParseCsv, Received,
           RejectRow, InsertRow, AuditRow, EndImport, InsertRowFails, AuditRowFails, AtRow, PcOK
    <2> QED
      BY <1>0, <1>1, <1>O, <2>1 DEF ImportInv, importVars
  <1>2. CASE ParseCsv(r) \/ EndImport(r) \/ CreationCutShort(r)
    <2>1. UNCHANGED creationVars /\ Inserted(r)' = Inserted(r) /\ \A s \in Request : Inserted(s)' = Inserted(s)
      BY <1>2 DEF ParseCsv, EndImport, CreationCutShort, creationVars, Inserted
    <2>2. ASSUME Op(r) = "importTickets"
          PROVE  ImportOK(r)'
      <3>1. /\ ImportOK(r) /\ Rows(r)' = Rows(r) /\ Len(Rows(r)) \in Nat
            /\ UNCHANGED <<report, nextRow, unaudited>>
        BY <1>0, <2>1, <2>2, RowsType DEF ImportInv, Rows, creationVars, importVars
      <3>2. \/ pc[r] # "done" /\ pc[r] # "auditingRow" /\ pc'[r] = "importing" /\ response'[r] = "none"
            \/ pc'[r] = "done" /\ response'[r] # "200"
            \/ /\ pc[r] = "importing" /\ nextRow[r] > Len(Rows(r))
               /\ pc'[r] = "done" /\ response'[r] = "200"
        BY <1>0, <1>2 DEF ParseCsv, EndImport, CreationCutShort, CutShort, Received, GoTo, Answer, PcOK
      <3>3. Accounted(r) /\ Pending(r) = {} /\ Pending(r)' = {} => Accounted(r)'
        BY <2>1, <3>1 DEF Accounted, ErrorsInOrder, Failed
      <3>4. nextRow[r] > Len(Rows(r)) => nextRow[r] = Len(Rows(r)) + 1
        BY <3>1 DEF ImportOK
      <3> QED
        BY <2>1, <3>1, <3>2, <3>3, <3>4 DEF ImportOK, Pending
    <2> QED
      BY <1>0, <1>O, <2>1, <2>2 DEF ImportInv, creationVars, importVars
  <1>3. CASE RejectRow(r) \/ InsertRowFails(r) \/ AuditRowFails(r)
    <2>1. /\ pc[r] \in {"importing", "auditingRow"} /\ Op(r) = "importTickets"
          /\ CollectError(r) /\ UNCHANGED assignees
          /\ IF pc[r] = "auditingRow"
             THEN unaudited' = [unaudited EXCEPT ![r] = @ \cup {nextRow[r]}]
             ELSE unaudited' = unaudited
      BY <1>3 DEF RejectRow, InsertRowFails, AuditRowFails, AtRow, PcOK
    <2>2. nextRow[r] <= Len(Rows(r))
      <3>1. pc[r] = "auditingRow" => nextRow[r] \in DOMAIN Rows(r)
        BY <2>1 DEF ImportInv, ImportOK, Accounted, Pending
      <3>2. DOMAIN Rows(r) = 1 .. Len(Rows(r)) /\ Len(Rows(r)) \in Nat
        BY <2>1, RowsType
      <3> QED
        BY <1>3, <3>1, <3>2 DEF RejectRow, InsertRowFails, AuditRowFails, AtRow
    <2>3. /\ report' \in [Request -> Report] /\ nextRow' \in [Request -> Nat]
          /\ pc'[r] = "importing"
      BY <1>0, <2>1, <2>2, ErrorCollected
    <2>4. /\ unaudited' \in [Request -> SUBSET Nat]
          /\ pc[r] = "auditingRow" => unaudited'[r] = unaudited[r] \cup {nextRow[r]}
          /\ pc[r] # "auditingRow" => unaudited'[r] = unaudited[r]
      BY <2>1 DEF ImportInv
    <2>5. ImportOK(r)'
      BY <1>0, <2>1, <2>2, <2>3, <2>4, RowFails
    <2>6. \A s \in Request \ {r} :
              /\ report'[s] = report[s] /\ nextRow'[s] = nextRow[s]
              /\ unaudited'[s] = unaudited[s] /\ Inserted(s)' = Inserted(s)
      BY <2>1 DEF CollectError, ImportInv, Inserted
    <2> QED
      BY <1>0, <1>O, <2>3, <2>4, <2>5, <2>6 DEF ImportInv
  <1>4. CASE InsertRow(r)
    <2>1. /\ pc[r] = "importing" /\ pc'[r] = "auditingRow" /\ response'[r] = "none"
          /\ Op(r) = "importTickets"
          /\ nextRow[r] <= Len(Rows(r)) /\ UNCHANGED <<report, nextRow, unaudited>>
      BY <1>0, <1>4 DEF InsertRow, AtRow, GoTo, importVars, PcOK
    <2>2. /\ Inserted(r)' = Inserted(r) \cup {nextRow[r]}
          /\ \A s \in Request \ {r} : Inserted(s)' = Inserted(s)
      BY <1>4, InsertAdds DEF InsertRow
    <2>3. /\ ImportOK(r) /\ Accounted(r) /\ Rows(r)' = Rows(r)
          /\ nextRow[r] \in DOMAIN Rows(r)
      <3>1. ImportOK(r) /\ Accounted(r) /\ Rows(r)' = Rows(r)
        BY <1>0, <2>1 DEF ImportInv, ImportOK, Rows
      <3>2. DOMAIN Rows(r) = 1 .. Len(Rows(r)) /\ Len(Rows(r)) \in Nat
        BY <2>1, RowsType
      <3> QED
        BY <2>1, <3>1, <3>2 DEF ImportOK
    <2>4. Pending(r) = {} /\ Pending(r)' = {nextRow[r]}
      BY <2>1 DEF Pending
    <2>5. Failed(r)' = Failed(r)
      BY <2>1, <2>3 DEF Failed
    <2>6. ErrorsInOrder(r)'
      BY <2>1, <2>3 DEF Accounted, ErrorsInOrder
    <2>7. Accounted(r)'
      BY <2>1, <2>2, <2>3, <2>4, <2>5, <2>6, Zenon DEF Accounted
    <2>8. ImportOK(r)'
      BY <2>1, <2>2, <2>3, <2>7 DEF ImportOK
    <2> QED
      BY <1>0, <1>O, <2>1, <2>2, <2>8 DEF ImportInv
  <1>5. CASE AuditRow(r)
    <2>1. PICK n \in Nat : n = nextRow[r]
      BY DEF ImportInv
    <2>2. /\ pc[r] = "auditingRow" /\ pc'[r] = "importing" /\ response'[r] = "none"
          /\ Op(r) = "importTickets" /\ UNCHANGED <<assignees, unaudited>>
          /\ nextRow' = [nextRow EXCEPT ![r] = n + 1]
          /\ report' = [report EXCEPT ![r] =
                 [created |-> report[r].created + 1, failed |-> report[r].failed,
                  errors |-> report[r].errors]]
      BY <1>0, <1>5, <2>1 DEF AuditRow, GoTo, PcOK
    <2>3. /\ Accounted(r) /\ unaudited[r] \subseteq Inserted(r) /\ n \in 1 .. Len(Rows(r))
          /\ Rows(r)' = Rows(r) /\ Inserted(r)' = Inserted(r) /\ Len(Rows(r)) \in Nat
      <3>1. ImportOK(r) /\ Accounted(r) /\ Rows(r)' = Rows(r)
        BY <1>0, <2>2 DEF ImportInv, ImportOK, Rows
      <3>2. DOMAIN Rows(r) = 1 .. Len(Rows(r)) /\ Len(Rows(r)) \in Nat
        BY <2>2, RowsType
      <3> QED
        BY <2>1, <2>2, <3>1, <3>2 DEF ImportOK, Accounted, Pending, Inserted
    <2>4. report[r] \in Report /\ report[r].created \in Nat /\ report[r].failed \in Nat
            /\ report[r].errors \in Seq(Nat)
      BY DEF ImportInv, Report
    <2>5. /\ report'[r].created = report[r].created + 1 /\ report'[r].failed = report[r].failed
          /\ report'[r].errors = report[r].errors /\ report' \in [Request -> Report]
      BY <2>2, <2>4 DEF ImportInv, Report
    <2>6. nextRow'[r] = n + 1 /\ nextRow' \in [Request -> Nat]
      BY <2>2 DEF ImportInv
    <2>7. Failed(r)' = Failed(r)
      BY <2>3, <2>5 DEF Failed
    <2>8. n \notin Failed(r)
      BY <2>1, <2>3 DEF Accounted, ErrorsInOrder, Failed, RowNumber
    <2>9. Inserted(r) = (1 .. n \ Failed(r)) \cup unaudited[r]
      <3>1. Inserted(r) = (1 .. n - 1 \ Failed(r)) \cup unaudited[r] \cup {n}
        BY <2>1, <2>2, <2>3 DEF Accounted, Pending
      <3>2. 1 .. n = 1 .. n - 1 \cup {n}
        BY <2>3
      <3> QED
        BY <2>8, <3>1, <3>2
    <2>10. ErrorsInOrder(r)'
      <3>0. ErrorsInOrder(r)
        BY <2>3, Zenon DEF Accounted
      <3>1. \A k \in DOMAIN report[r].errors : report[r].errors[k] < n + 1 /\ report[r].errors[k] \in Nat
        BY <2>1, <2>4, <3>0 DEF ErrorsInOrder, RowNumber
      <3>2. \A k \in DOMAIN report[r].errors : report[r].errors[k] < n + 1 + 1
        BY <3>1
      <3> QED
        BY <2>5, <2>6, <3>0, <3>2 DEF ErrorsInOrder, RowNumber
    <2>11. Accounted(r)'
      <3>1. report'[r].created + report'[r].failed + 1 = nextRow'[r]
        BY <2>1, <2>3, <2>4, <2>5, <2>6 DEF Accounted
      <3>2. IsFiniteSet(Failed(r)) /\ report[r].failed = Cardinality(Failed(r))
        BY <2>3 DEF Accounted
      <3>3. Pending(r)' = {}
        BY <2>2 DEF Pending
      <3>4. n + 1 - 1 = n
        OBVIOUS
      <3>5. Inserted(r)' = (1 .. nextRow'[r] - 1 \ Failed(r)') \cup unaudited'[r] \cup Pending(r)'
        BY <2>2, <2>3, <2>6, <2>7, <2>9, <3>3, <3>4
      <3> QED
        BY <2>5, <2>7, <2>10, <3>1, <3>2, <3>3, <3>5 DEF Accounted
    <2>12. ImportOK(r)'
      BY <2>2, <2>3, <2>6, <2>11 DEF ImportOK
    <2>13. \A s \in Request \ {r} :
               /\ report'[s] = report[s] /\ nextRow'[s] = nextRow[s]
               /\ unaudited'[s] = unaudited[s] /\ Inserted(s)' = Inserted(s)
      BY <2>2 DEF ImportInv, Inserted
    <2> QED
      BY <1>0, <1>O, <2>2, <2>5, <2>6, <2>12, <2>13 DEF ImportInv
  <1> QED
    BY <1>1, <1>2, <1>3, <1>4, <1>5 DEF CreationStep, HandleCreation, CreationFault,
       ListDevelopers, CountOpen, InsertTicket, AssigneeUnknown, AuditCreate, AuditAutoAssign,
       Received, MayInsert, PcOK

LEMMA ImportHolds == PcOK /\ ImportInv => ImportReportExact
  <1> SUFFICES ASSUME PcOK, ImportInv, NEW r \in Request, Op(r) = "importTickets", response[r] = "200"
               PROVE  /\ report[r].created + report[r].failed = Len(Rows(r))
                      /\ report[r].failed = Cardinality(Failed(r))
                      /\ \A k \in 2 .. Len(report[r].errors) : report[r].errors[k - 1] < report[r].errors[k]
                      /\ Inserted(r) = (DOMAIN Rows(r) \ Failed(r)) \cup unaudited[r]
    BY DEF ImportReportExact, Failed
  <1>1. Accounted(r) /\ nextRow[r] = Len(Rows(r)) + 1 /\ Pending(r) = {}
    BY DEF ImportInv, ImportOK, Pending, PcOK
  <1>2. /\ DOMAIN Rows(r) = 1 .. Len(Rows(r)) /\ Len(Rows(r)) \in Nat
        /\ report[r].created \in Nat /\ report[r].failed \in Nat
    BY RowsType DEF ImportInv, Report
  <1>3. Len(Rows(r)) + 1 - 1 = Len(Rows(r))
    BY <1>2
  <1>4. report[r].created + report[r].failed = Len(Rows(r))
    BY <1>1, <1>2 DEF Accounted
  <1> QED
    BY <1>1, <1>2, <1>3, <1>4 DEF Accounted, ErrorsInOrder

(* The report of every import that ends accounts for each row exactly      *)
(* once, and the rows inserted are those it does not report as failed and  *)
(* those whose audit entry was lost.                                       *)
THEOREM ImportsAreAccounted == Spec => []ImportReportExact
  <1>1. Init => PcOK /\ ImportInv
    BY PcInit, ImportInit
  <1>2. PcOK /\ ImportInv /\ [Next]_vars => PcOK' /\ ImportInv'
    BY PcStep, ImportStep, ImportStill, ForeignToCreation
  <1> QED
    BY <1>1, <1>2, ImportHolds, PTL DEF Spec

-----------------------------------------------------------------------------
(* Types.  The comments and imports have theirs from above.                *)
FailuresOK == failures \in 0 .. MaxFailures /\ ticketIsDeleted \in BOOLEAN

LEMMA FailuresStep ==
    ASSUME PcOK, FailuresOK, [Next]_vars
    PROVE  FailuresOK'
  <1> USE ServerAssumption DEF FailuresOK
  <1>1. ASSUME NEW r \in Request, CommentStep(r)
        PROVE  FailuresOK'
    BY <1>1 DEF CommentStep, HandleComment, CommentFault, ValidateTicket, InsertComment,
       AuthorUnknown, LockComment, LockTimeout, CommitContent, ClearMentions, SaveMention,
       LoseMention, EndMentions, FindComment, HideComment, AuditComment, CommentCutShort,
       Unless404, Audit, CutShort, Fails, NoFailure, serverVars
  <1>2. ASSUME NEW r \in Request, AttachmentStep(r)
        PROVE  FailuresOK'
    BY <1>2 DEF AttachmentStep, HandleAttachment, ReceiveFile, RefuseFile, RefuseTicketId,
       RefuseSize, RefuseDeletedTicket, RefuseUpload, DeleteFile, DeleteFileFails, FindTicket,
       SaveAttachment, FindAttachment, UnlinkFile, DeleteAttachment, AuditAttachment,
       AttachmentCutShort, Unless404, Audit, CutShort, Fails, NoFailure
  <1>3. ASSUME NEW r \in Request, CreationStep(r)
        PROVE  FailuresOK'
    BY <1>3 DEF CreationStep, HandleCreation, CreationFault, ListDevelopers, CountOpen,
       InsertTicket, AssigneeUnknown, AuditCreate, AuditAutoAssign, ParseCsv, RejectRow,
       InsertRow, AuditRow, EndImport, InsertRowFails, AuditRowFails, CreationCutShort,
       CutShort, Fails, NoFailure, serverVars
  <1>4. CASE Environment \/ UNCHANGED vars
    BY <1>4 DEF Environment, TicketIsRemoved, OthersChange, vars, serverVars
  <1> QED
    BY <1>1, <1>2, <1>3, <1>4, NextCases

(* A request that works on a file names one.                               *)
LEMMA TargetIsFile ==
    ASSUME PcOK, DiskInv, NEW r \in Request, pc[r] \in HalfDone \cup {"unlinking"}
    PROVE  TargetFile(r) \in File
  <1>1. Op(r) = "upload" => TargetFile(r) \in File
    BY DEF TargetFile, File
  <1>2. pc[r] \in {"unlinking", "deleting"} => TargetFile(r) \in File
    BY DEF DiskInv, Attached, File
  <1> QED
    BY <1>1, <1>2 DEF PcOK, HalfDone

LEMMA AttachmentsTypeStep ==
    ASSUME PcOK, DiskInv, AttachmentsTypeOK, NEW r \in Request, AttachmentStep(r)
    PROVE  AttachmentsTypeOK'
  <1> USE DEF AttachmentsTypeOK
  <1>1. r \in File
    BY DEF File
  <1>2. CASE ReceiveFile(r) \/ RefuseFile(r) \/ RefuseTicketId(r) \/ SaveAttachment(r)
             \/ FindTicket(r) \/ FindAttachment(r) \/ AuditAttachment(r)
    BY <1>1, <1>2 DEF ReceiveFile, RefuseFile, RefuseTicketId, SaveAttachment, FindTicket,
       FindAttachment, AuditAttachment, attachmentVars
  <1>3. CASE RefuseSize(r) \/ RefuseDeletedTicket(r) \/ UnlinkFile(r)
    BY <1>1, <1>3 DEF RefuseSize, RefuseDeletedTicket, RefuseUpload, UnlinkFile, DeleteFile, DeleteFileFails
  <1>4. CASE DeleteAttachment(r) \/ AttachmentCutShort(r)
    <2>1. pc[r] \in HalfDone => TargetFile(r) \in File
      BY TargetIsFile
    <2> QED
      BY <1>4, <2>1 DEF DeleteAttachment, AttachmentCutShort, HalfDone
  <1> QED
    BY <1>2, <1>3, <1>4 DEF AttachmentStep, HandleAttachment

CreationTypes ==
    /\ developers \subseteq Developer
    /\ open \in [Developer -> Nat]
    /\ assignees \subseteq [request : Request, row : Nat, assigneeId : Developer \cup {Null}]
    /\ candidates \in [Request -> SUBSET Developer]
    /\ DOMAIN counts = Request
    /\ \A r \in Request :
           /\ DOMAIN counts[r] \subseteq candidates[r]
           /\ \A d \in DOMAIN counts[r] : counts[r][d] \in Nat
    /\ changes \in 0 .. MaxChanges
    /\ drift \in [Request -> Nat]
    /\ \A r \in Request : Op(r) = "createTicket" /\ pc[r] = "idle" => counts[r] = <<>>

LEMMA CreationTypesInit == Init => CreationTypes
  BY CreationAssumption DEF Init, CreationInit, CreationTypes

LEMMA DriftsType == ASSUME CreationTypes, Drifts PROVE drift' \in [Request -> Nat]
  BY DEF CreationTypes, Drifts

LEMMA InsertTypes ==
    ASSUME CreationTypes, PcOK, PcOK', NEW r \in Request, NEW row \in Nat, NEW assigneeId, NEW done,
           Insert(r, row, assigneeId, done), ~ViolatesForeignKey(assigneeId),
           call' = call, \A s \in Request : pc'[s] = "idle" => pc[s] = "idle"
    PROVE  CreationTypes'
  <1>1. assigneeId \in Developer \cup {Null}
    BY DEF ViolatesForeignKey
  <1>2. assignees' \subseteq [request : Request, row : Nat, assigneeId : Developer \cup {Null}]
    BY <1>1 DEF Insert, CreationTypes
  <1>3. open' \in [Developer -> Nat] /\ drift' \in [Request -> Nat]
    <2>1. CASE assigneeId = Null \/ done
      BY <2>1 DEF Insert, CreationTypes
    <2>2. CASE ~(assigneeId = Null \/ done)
      <3>1. assigneeId \in Developer /\ Drifts /\ open' = [open EXCEPT ![assigneeId] = @ + 1]
        BY <1>1, <2>2 DEF Insert
      <3> QED
        BY <3>1, DriftsType DEF CreationTypes
    <2> QED
      BY <2>1, <2>2
  <1> QED
    BY <1>2, <1>3 DEF Insert, CreationTypes, Op

LEMMA CreationTypesStep ==
    ASSUME PcOK, ImportInv, CreationTypes, NEW r \in Request, CreationStep(r)
    PROVE  CreationTypes'
  <1>0. /\ call' = call /\ PcOK' /\ \A s \in Request \ {r} : pc'[s] = pc[s]
        /\ \A s \in Request : Op(s)' = Op(s)
    BY CreationMoves DEF Moves, PcOK, Op
  <1>1. CASE ListDevelopers(r)
    <2>1. /\ candidates' = [candidates EXCEPT ![r] = developers] /\ counts[r] = <<>>
          /\ pc'[r] = "counting"
          /\ UNCHANGED <<developers, open, assignees, changes, counts, drift>>
      BY <1>1 DEF ListDevelopers, Received, GoTo, CreationTypes, PcOK
    <2>2. DOMAIN counts[r] = {}
      BY <2>1
    <2> QED
      BY <1>0, <2>1, <2>2 DEF CreationTypes
  <1>2. CASE CountOpen(r)
    <2>1. PICK d \in candidates[r] :
              counts' = [counts EXCEPT ![r] = [x \in DOMAIN counts[r] \cup {d} |->
                             IF x = d THEN open[d] ELSE counts[r][x]]]
      BY <1>2 DEF CountOpen
    <2>2. UNCHANGED <<pc, developers, open, assignees, changes, candidates, drift>>
          /\ pc[r] = "counting"
      BY <1>2 DEF CountOpen, serverVars
    <2>3. /\ DOMAIN counts'[r] = DOMAIN counts[r] \cup {d}
          /\ \A x \in DOMAIN counts'[r] : counts'[r][x] = IF x = d THEN open[d] ELSE counts[r][x]
          /\ \A s \in Request \ {r} : counts'[s] = counts[s]
          /\ DOMAIN counts' = Request
      BY <2>1 DEF CreationTypes
    <2>4. d \in Developer /\ open[d] \in Nat
      BY <2>1 DEF CreationTypes
    <2> QED
      BY <1>0, <2>1, <2>2, <2>3, <2>4 DEF CreationTypes
  <1>3. CASE InsertTicket(r)
    <2>1. pc'[r] = "auditing"
      BY <1>3 DEF InsertTicket, GoTo, PcOK
    <2> QED
      BY <1>0, <1>3, <2>1, InsertTypes DEF InsertTicket
  <1>4. CASE InsertRow(r)
    <2>1. pc'[r] = "auditingRow" /\ nextRow[r] \in Nat
      BY <1>4 DEF InsertRow, GoTo, PcOK, ImportInv
    <2> QED
      BY <1>0, <1>4, <2>1, InsertTypes DEF InsertRow
  <1>5. CASE AssigneeUnknown(r) \/ AuditCreate(r) \/ AuditAutoAssign(r) \/ ParseCsv(r) \/ EndImport(r)
             \/ RejectRow(r) \/ InsertRowFails(r) \/ AuditRowFails(r) \/ AuditRow(r) \/ CreationCutShort(r)
    <2>1. UNCHANGED <<developers, open, assignees, changes, candidates, counts, drift>>
      BY <1>5 DEF AssigneeUnknown, AuditCreate, AuditAutoAssign, ParseCsv, EndImport, RejectRow,
         InsertRowFails, AuditRowFails, AuditRow, CreationCutShort, creationVars, autoAssignVars
    <2>2. pc'[r] # "idle"
      BY <1>5 DEF AssigneeUnknown, AuditCreate, AuditAutoAssign, ParseCsv, EndImport, RejectRow,
         InsertRowFails, AuditRowFails, AuditRow, CreationCutShort, CollectError, CutShort,
         GoTo, Answer, PcOK
    <2> QED
      BY <1>0, <2>1, <2>2 DEF CreationTypes
  <1> QED
    BY <1>1, <1>2, <1>3, <1>4, <1>5 DEF CreationStep, HandleCreation, CreationFault

LEMMA CreationTypesStill ==
    ASSUME CreationTypes, OthersChange \/ UNCHANGED creationVars, Still(CreationOp)
    PROVE  CreationTypes'
  <1>1. \A r \in Request : Op(r)' = Op(r) /\ (Op(r) = "createTicket" => pc'[r] = pc[r])
    BY DEF Still, Op, CreationOp
  <1>2. CASE UNCHANGED creationVars
    BY <1>1, <1>2 DEF CreationTypes, creationVars, autoAssignVars
  <1>3. CASE OthersChange
    <2>1. /\ changes' = changes + 1 /\ changes < MaxChanges
          /\ UNCHANGED <<assignees, candidates, counts>>
          /\ drift' \in [Request -> Nat]
      BY <1>3, DriftsType DEF OthersChange
    <2>2. developers' \subseteq Developer /\ open' \in [Developer -> Nat]
      BY <1>3 DEF OthersChange, CreationTypes
    <2>3. changes' \in 0 .. MaxChanges
      BY <2>1, CreationAssumption DEF CreationTypes
    <2> QED
      BY <1>1, <2>1, <2>2, <2>3 DEF CreationTypes
  <1> QED
    BY <1>2, <1>3

TypeInv ==
    /\ PcOK /\ FailuresOK /\ MentionInv
    /\ DiskInv /\ AttachmentsTypeOK
    /\ ImportInv /\ CreationTypes

LEMMA TypeInit == Init => TypeInv
  <1>1. ASSUME Init PROVE FailuresOK
    <2>1. failures = 0 /\ ticketIsDeleted = FALSE
      BY <1>1 DEF Init, ServerInit
    <2>2. failures \in 0 .. MaxFailures
      BY <2>1, ServerAssumption
    <2>3. ticketIsDeleted \in BOOLEAN
      BY <2>1, Zenon
    <2> QED
      BY <2>2, <2>3, Zenon DEF FailuresOK
  <1>2. Init => AttachmentsTypeOK
    BY DEF Init, AttachmentsInit, AttachmentsTypeOK, File
  <1> QED
    BY <1>1, <1>2, PcInit, MentionInit, DiskInit, ImportInit, CreationTypesInit DEF TypeInv

LEMMA TypeStep ==
    ASSUME TypeInv, [Next]_vars
    PROVE  TypeInv'
  <1> USE DEF TypeInv
  <1>1. PcOK' /\ FailuresOK'
    BY PcStep, FailuresStep
  <1>2. MentionInv'
    <2>1. CASE \E r \in Request : CommentStep(r)
      BY <2>1, MentionStep
    <2>2. CASE ~\E r \in Request : CommentStep(r)
      BY <1>1, <2>2, MentionStill, ForeignToComments
    <2> QED
      BY <2>1, <2>2
  <1>3. DiskInv' /\ AttachmentsTypeOK'
    <2>1. CASE \E r \in Request : AttachmentStep(r)
      BY <2>1, DiskStep, AttachmentsTypeStep
    <2>2. CASE ~\E r \in Request : AttachmentStep(r)
      BY <1>1, <2>2, DiskStill, ForeignToAttachments DEF AttachmentsTypeOK, attachmentVars
    <2> QED
      BY <2>1, <2>2
  <1>4. ImportInv' /\ CreationTypes'
    <2>1. CASE \E r \in Request : CreationStep(r)
      BY <2>1, ImportStep, CreationTypesStep
    <2>2. CASE ~\E r \in Request : CreationStep(r)
      BY <2>2, ImportStill, CreationTypesStill, ForeignToCreation
    <2> QED
      BY <2>1, <2>2
  <1> QED
    BY <1>1, <1>2, <1>3, <1>4

LEMMA TypesHold == TypeInv => TicketApiTypeOK
  <1> SUFFICES ASSUME TypeInv PROVE TicketApiTypeOK
    OBVIOUS
  <1>1. \A r \in Request : Op(r) = "importTickets" =>
            nextRow[r] \in 1 .. Len(Rows(r)) + 1 /\ unaudited[r] \subseteq Inserted(r)
    BY DEF TypeInv, ImportInv, ImportOK
  <1>2. CreationTypeOK
    BY <1>1 DEF TypeInv, CreationTypes, CreationTypeOK
  <1>3. CommentsTypeOK
    BY DEF TypeInv, MentionInv
  <1> QED
    BY <1>2, <1>3 DEF TypeInv, PcOK, FailuresOK, TicketApiTypeOK

(* Every table, file and request keeps its type, whatever the handlers,    *)
(* their failures and the others do.                                       *)
THEOREM TicketApiTypeCorrect == Spec => []TicketApiTypeOK
  BY TypeInit, TypeStep, TypesHold, PTL DEF Spec

-----------------------------------------------------------------------------
(* Auto-assignment.  Of a set of natural numbers there is a first one.     *)
Earlier == {p \in Nat \X Nat : p[1] < p[2]}

LEMMA EarlierWellFounded == IsWellFoundedOn(Earlier, Nat)
  <1>1. OpToRel(<, Nat) = Earlier
    BY DEF OpToRel, Earlier
  <1> QED
    BY <1>1, NatLessThanWellFounded

LEMMA LeastExists ==
    ASSUME NEW S \in SUBSET Nat, S # {}
    PROVE  \E x \in S : \A y \in S : x <= y
  <1>1. PICK x \in S : \A y \in S : ~ (<<y, x>> \in Earlier)
    BY EarlierWellFounded, WFMin
  <1>2. \A y \in S : <<y, x>> \in Nat \X Nat
    OBVIOUS
  <1>3. \A y \in S : ~ (y < x)
    BY <1>1, <1>2 DEF Earlier
  <1> QED
    BY <1>3

(* reduce finds the first of those with the fewest tickets.                *)
LEMMA FirstIsFirst ==
    ASSUME NEW S \in SUBSET Nat, S # {}
    PROVE  FirstOf(S) \in S /\ \A y \in S : FirstOf(S) <= y
  BY LeastExists DEF FirstOf

LEMMA LeastLoadedExists ==
    ASSUME NEW devs, devs # {}, NEW load, \A d \in devs : load[d] \in Nat
    PROVE  LeastLoaded(devs, load) # {}
  <1> DEFINE loads == {load[d] : d \in devs}
  <1>1. loads \in SUBSET Nat /\ loads # {}
    OBVIOUS
  <1>2. PICK n \in loads : \A m \in loads : n <= m
    BY <1>1, LeastExists
  <1> QED
    BY <1>2 DEF LeastLoaded

LEMMA BestIsBest ==
    ASSUME CreationTypes, NEW r \in Request, candidates[r] # {}, candidates[r] = DOMAIN counts[r]
    PROVE  /\ Best(r) \in candidates[r]
           /\ \A d \in candidates[r] :
                  /\ counts[r][Best(r)] <= counts[r][d]
                  /\ counts[r][d] = counts[r][Best(r)] => Best(r) <= d
  <1> DEFINE least == LeastLoaded(candidates[r], counts[r])
  <1>1. candidates[r] \subseteq Developer /\ \A d \in candidates[r] : counts[r][d] \in Nat
    BY DEF CreationTypes
  <1>2. least # {}
    BY <1>1, LeastLoadedExists
  <1>3. least \in SUBSET Nat /\ least \subseteq candidates[r]
    BY <1>1, CreationAssumption DEF LeastLoaded
  <1>4. Best(r) \in least /\ \A y \in least : Best(r) <= y
    BY <1>2, <1>3, FirstIsFirst DEF Best
  <1>5. \A d \in candidates[r] : counts[r][Best(r)] <= counts[r][d]
    BY <1>4 DEF LeastLoaded
  <1>6. ASSUME NEW d \in candidates[r], counts[r][d] = counts[r][Best(r)]
        PROVE  d \in least
    BY <1>5, <1>6 DEF LeastLoaded
  <1> QED
    BY <1>3, <1>4, <1>5, <1>6

(* What autoAssign has counted is off by at most the changes since it      *)
(* listed the developers: no single count by more, nor two taken together, *)
(* since a change is to one developer's tickets only.                      *)
Estimates(r) ==
    pc[r] = "counting" =>
        /\ drift[r] = 0 => candidates[r] \subseteq developers
        /\ \A d \in DOMAIN counts[r] :
               open[d] <= counts[r][d] + drift[r] /\ counts[r][d] <= open[d] + drift[r]
        /\ \A a, b \in DOMAIN counts[r] :
               a # b => open[a] + counts[r][b] <= counts[r][a] + open[b] + drift[r]

EstimatesInv == \A r \in Request : Estimates(r)

LEMMA EstimatesKept ==
    ASSUME NEW r \in Request, Estimates(r), pc'[r] = "counting" => pc[r] = "counting",
           candidates'[r] = candidates[r], counts'[r] = counts[r],
           UNCHANGED <<developers, open, drift>>
    PROVE  Estimates(r)'
  BY DEF Estimates

(* A change of one developer's tickets, or of who is a developer.          *)
OneChange ==
    \/ UNCHANGED open
    \/ \E d \in Developer, n \in Nat : /\ open' = [open EXCEPT ![d] = n]
                                       /\ n <= open[d] + 1 /\ open[d] <= n + 1

LEMMA EstimatesDrift ==
    ASSUME CreationTypes, NEW r \in Request, Estimates(r), pc'[r] = "counting" => pc[r] = "counting",
           candidates'[r] = candidates[r], counts'[r] = counts[r], OneChange, Drifts
    PROVE  Estimates(r)'
  <1> SUFFICES ASSUME pc'[r] = "counting" PROVE Estimates(r)'
    BY DEF Estimates
  <1>1. drift'[r] = drift[r] + 1 /\ drift[r] \in Nat /\ pc[r] = "counting"
    BY DEF Drifts, CreationTypes
  <1>2. DOMAIN counts[r] \subseteq Developer /\ \A d \in DOMAIN counts[r] : counts[r][d] \in Nat
    BY DEF CreationTypes
  <1>3. \A d \in Developer : open[d] \in Nat /\ open'[d] \in Nat
            /\ open'[d] <= open[d] + 1 /\ open[d] <= open'[d] + 1
    <2>1. CASE UNCHANGED open
      BY <2>1 DEF CreationTypes
    <2>2. CASE ~UNCHANGED open
      <3>1. PICK e \in Developer, n \in Nat : /\ open' = [open EXCEPT ![e] = n]
                                              /\ n <= open[e] + 1 /\ open[e] <= n + 1
        BY <2>2 DEF OneChange
      <3>2. \A d \in Developer : open'[d] = IF d = e THEN n ELSE open[d]
        BY <3>1 DEF CreationTypes
      <3> QED
        BY <3>1, <3>2 DEF CreationTypes
    <2> QED
      BY <2>1, <2>2
  <1>4. \A a, b \in Developer : a # b => open'[a] = open[a] \/ open'[b] = open[b]
    BY DEF OneChange, CreationTypes
  <1>5. \A d \in DOMAIN counts[r] :
            open'[d] <= counts[r][d] + drift'[r] /\ counts[r][d] <= open'[d] + drift'[r]
    BY <1>1, <1>2, <1>3 DEF Estimates
  <1>6. ASSUME NEW a \in DOMAIN counts[r], NEW b \in DOMAIN counts[r], a # b
        PROVE  open'[a] + counts[r][b] <= counts[r][a] + open'[b] + drift'[r]
    <2>1. open[a] + counts[r][b] <= counts[r][a] + open[b] + drift[r]
      BY <1>1, <1>6 DEF Estimates
    <2>2. open'[a] = open[a] \/ open'[b] = open[b]
      BY <1>2, <1>4, <1>6
    <2> QED
      BY <1>1, <1>2, <1>3, <2>1, <2>2
  <1>7. drift'[r] # 0
    BY <1>1
  <1> QED
    BY <1>5, <1>6, <1>7 DEF Estimates

LEMMA InsertIsOneChange ==
    ASSUME CreationTypes, NEW r, NEW row, NEW assigneeId, NEW done,
           Insert(r, row, assigneeId, done), ~ViolatesForeignKey(assigneeId)
    PROVE  /\ UNCHANGED <<developers, candidates, counts>>
           /\ UNCHANGED <<open, drift>> \/ (OneChange /\ Drifts)
  <1>1. CASE assigneeId = Null \/ done
    BY <1>1 DEF Insert
  <1>2. CASE ~(assigneeId = Null \/ done)
    <2>1. assigneeId \in Developer /\ Drifts /\ open' = [open EXCEPT ![assigneeId] = open[assigneeId] + 1]
      BY <1>2 DEF Insert, ViolatesForeignKey
    <2>2. open[assigneeId] \in Nat
      BY <2>1 DEF CreationTypes
    <2>3. PICK n \in Nat : n = open[assigneeId] + 1
      BY <2>2
    <2>4. n <= open[assigneeId] + 1 /\ open[assigneeId] <= n + 1
      BY <2>2, <2>3
    <2>5. OneChange
      BY <2>1, <2>3, <2>4, Zenon DEF OneChange
    <2> QED
      BY <2>1, <2>5 DEF Insert
  <1> QED
    BY <1>1, <1>2

LEMMA EstimatesInit == Init => EstimatesInv
  BY DEF Init, ServerInit, EstimatesInv, Estimates

LEMMA EstimatesStill ==
    ASSUME PcOK, PcOK', CreationTypes, EstimatesInv, OthersChange \/ UNCHANGED creationVars,
           Still(CreationOp)
    PROVE  EstimatesInv'
  <1> SUFFICES ASSUME NEW r \in Request PROVE Estimates(r)'
    BY DEF EstimatesInv
  <1>1. Estimates(r)
    BY DEF EstimatesInv
  <1>2. pc'[r] = "counting" => pc[r] = "counting"
    BY DEF Still, PcOK, Op, CreationOp
  <1>3. CASE UNCHANGED creationVars
    BY <1>1, <1>2, <1>3, EstimatesKept DEF creationVars, autoAssignVars
  <1>4. CASE OthersChange
    <2>1. PICK d \in Developer :
              \/ open' = [open EXCEPT ![d] = open[d] + 1]
              \/ open[d] > 0 /\ open' = [open EXCEPT ![d] = open[d] - 1]
              \/ UNCHANGED open
      BY <1>4 DEF OthersChange
    <2>2. open[d] \in Nat
      BY DEF CreationTypes
    <2>3. OneChange
      BY <2>1, <2>2 DEF OneChange
    <2>4. Drifts /\ UNCHANGED <<candidates, counts>>
      BY <1>4 DEF OthersChange
    <2> QED
      BY <1>1, <1>2, <2>3, <2>4, EstimatesDrift
  <1> QED
    BY <1>3, <1>4

LEMMA EstimatesStep ==
    ASSUME PcOK, CreationTypes, EstimatesInv, NEW q \in Request, CreationStep(q)
    PROVE  EstimatesInv'
  <1> SUFFICES ASSUME NEW r \in Request PROVE Estimates(r)'
    BY DEF EstimatesInv
  <1>0. /\ Estimates(r)
        /\ \A s \in Request \ {q} : pc'[s] = pc[s]
    BY CreationMoves DEF Moves, PcOK, EstimatesInv
  <1>1. CASE ListDevelopers(q)
    <2>1. /\ candidates' = [candidates EXCEPT ![q] = developers] /\ counts[q] = <<>>
          /\ UNCHANGED <<developers, open, counts, drift>>
      BY <1>1 DEF ListDevelopers, Received, CreationTypes
    <2>2. CASE q = r
      <3>1. candidates'[r] = developers' /\ DOMAIN counts'[r] = {}
        BY <2>1, <2>2 DEF CreationTypes
      <3> QED
        BY <3>1 DEF Estimates
    <2>3. CASE q # r
      BY <1>0, <2>1, <2>3, EstimatesKept DEF CreationTypes
    <2> QED
      BY <2>2, <2>3
  <1>2. CASE CountOpen(q)
    <2>1. PICK d \in candidates[q] \ DOMAIN counts[q] :
              counts' = [counts EXCEPT ![q] = [x \in DOMAIN counts[q] \cup {d} |->
                             IF x = d THEN open[d] ELSE counts[q][x]]]
      BY <1>2 DEF CountOpen
    <2>2. UNCHANGED <<pc, developers, open, candidates, drift>> /\ pc[q] = "counting"
      BY <1>2 DEF CountOpen, serverVars
    <2>3. CASE q = r
      <3>1. /\ DOMAIN counts'[r] = DOMAIN counts[r] \cup {d}
            /\ \A x \in DOMAIN counts[r] : counts'[r][x] = counts[r][x]
            /\ counts'[r][d] = open[d]
        BY <2>1, <2>3 DEF CreationTypes
      <3>2. /\ d \in Developer /\ DOMAIN counts[r] \subseteq Developer /\ drift[r] \in Nat
            /\ \A x \in DOMAIN counts[r] : counts[r][x] \in Nat
            /\ \A x \in Developer : open[x] \in Nat
        BY <2>1, <2>3 DEF CreationTypes
      <3>3. \A x \in DOMAIN counts'[r] :
                open[x] <= counts'[r][x] + drift[r] /\ counts'[r][x] <= open[x] + drift[r]
        BY <1>0, <2>2, <2>3, <3>1, <3>2 DEF Estimates
      <3>4. ASSUME NEW a \in DOMAIN counts'[r], NEW b \in DOMAIN counts'[r], a # b
            PROVE  open[a] + counts'[r][b] <= counts'[r][a] + open[b] + drift[r]
        <4>1. CASE a = d \/ b = d
          BY <3>1, <3>2, <3>3, <3>4, <4>1
        <4>2. CASE a # d /\ b # d
          BY <1>0, <2>2, <2>3, <3>1, <3>2, <3>4, <4>2 DEF Estimates
        <4> QED
          BY <4>1, <4>2
      <3> QED
        BY <1>0, <2>2, <2>3, <3>3, <3>4 DEF Estimates
    <2>4. CASE q # r
      BY <1>0, <2>1, <2>2, <2>4, EstimatesKept DEF CreationTypes
    <2> QED
      BY <2>3, <2>4
  <1>3. CASE InsertTicket(q) \/ InsertRow(q)
    <2>1. pc'[r] = "counting" => pc[r] = "counting"
      BY <1>0, <1>3 DEF InsertTicket, InsertRow, GoTo, PcOK
    <2>2. \E row, assigneeId, done :
              Insert(q, row, assigneeId, done) /\ ~ViolatesForeignKey(assigneeId)
      BY <1>3 DEF InsertTicket, InsertRow
    <2> QED
      BY <1>0, <2>1, <2>2, InsertIsOneChange, EstimatesKept, EstimatesDrift
  <1>4. CASE AssigneeUnknown(q) \/ AuditCreate(q) \/ AuditAutoAssign(q) \/ ParseCsv(q) \/ EndImport(q)
             \/ RejectRow(q) \/ InsertRowFails(q) \/ AuditRowFails(q) \/ AuditRow(q) \/ CreationCutShort(q)
    <2>1. UNCHANGED <<developers, open, candidates, counts, drift>>
      BY <1>4 DEF AssigneeUnknown, AuditCreate, AuditAutoAssign, ParseCsv, EndImport, RejectRow,
         InsertRowFails, AuditRowFails, AuditRow, CreationCutShort, creationVars, autoAssignVars
    <2>2. pc'[q] # "counting"
      BY <1>4 DEF AssigneeUnknown, AuditCreate, AuditAutoAssign, ParseCsv, EndImport, RejectRow,
         InsertRowFails, AuditRowFails, AuditRow, CreationCutShort, CollectError, CutShort,
         GoTo, Answer, PcOK
    <2> QED
      BY <1>0, <2>1, <2>2, EstimatesKept
  <1> QED
    BY <1>1, <1>2, <1>3, <1>4 DEF CreationStep, HandleCreation, CreationFault

(* What AssignedWithinDrift says of a step.                                *)
WithinDrift ==
    \A r \in Request : AutoAssigned(r) =>
        \A t \in assignees' \ assignees :
            /\ t.assigneeId = Null <=> candidates[r] = {}
            /\ \A d \in candidates[r] :
                   /\ open[t.assigneeId] <= open[d] + drift[r]
                   /\ drift[r] = 0 =>
                          /\ t.assigneeId \in developers
                          /\ open[d] = open[t.assigneeId] => t.assigneeId <= d

(* Only the request's own InsertTicket gives it its first ticket.          *)
LEMMA WhoAutoAssigns ==
    ASSUME PcOK, [Next]_vars, NEW r \in Request, AutoAssigned(r)
    PROVE  InsertTicket(r)
  <1>1. ASSUME UNCHANGED assignees PROVE FALSE
    BY <1>1 DEF AutoAssigned, Inserted
  <1>2. PICK q \in Request : CreationStep(q)
    BY <1>1, ForeignToCreation DEF OthersChange, creationVars
  <1>3. InsertTicket(q) \/ InsertRow(q)
    BY <1>1, <1>2 DEF CreationStep, HandleCreation, CreationFault, ListDevelopers, CountOpen,
       AssigneeUnknown, AuditCreate, AuditAutoAssign, ParseCsv, EndImport, RejectRow,
       InsertRowFails, AuditRowFails, AuditRow, CreationCutShort, creationVars
  <1>4. ASSUME q # r PROVE FALSE
    <2>1. PICK row, a : assignees' = assignees \cup {[request |-> q, row |-> row, assigneeId |-> a]}
      BY <1>3 DEF InsertTicket, InsertRow, Insert
    <2>2. Inserted(r)' = Inserted(r)
      BY <1>4, <2>1 DEF Inserted
    <2> QED
      BY <2>2 DEF AutoAssigned
  <1>5. ~InsertRow(r)
    BY DEF AutoAssigned, InsertRow, AtRow, PcOK
  <1> QED
    BY <1>3, <1>4, <1>5

LEMMA AssignsWithinDrift ==
    ASSUME PcOK, CreationTypes, EstimatesInv, [Next]_vars
    PROVE  WithinDrift
  <1> SUFFICES ASSUME NEW r \in Request, AutoAssigned(r), NEW t \in assignees' \ assignees
               PROVE  /\ t.assigneeId = Null <=> candidates[r] = {}
                      /\ \A d \in candidates[r] :
                             /\ open[t.assigneeId] <= open[d] + drift[r]
                             /\ drift[r] = 0 =>
                                    /\ t.assigneeId \in developers
                                    /\ open[d] = open[t.assigneeId] => t.assigneeId <= d
    BY DEF WithinDrift
  <1>1. InsertTicket(r) /\ call[r].auto
    BY WhoAutoAssigns DEF AutoAssigned
  <1>2. t.assigneeId = Best(r) /\ pc[r] = "counting" /\ candidates[r] = DOMAIN counts[r]
    BY <1>1 DEF InsertTicket, Insert, AssigneeId, MayInsert
  <1>3. candidates[r] = {} => Best(r) = Null
    BY DEF Best
  <1>4. ASSUME candidates[r] # {}
        PROVE  /\ Best(r) # Null
               /\ \A d \in candidates[r] :
                      /\ open[Best(r)] <= open[d] + drift[r]
                      /\ drift[r] = 0 =>
                             /\ Best(r) \in developers
                             /\ open[d] = open[Best(r)] => Best(r) <= d
    <2>1. /\ Best(r) \in candidates[r]
          /\ \A d \in candidates[r] :
                 /\ counts[r][Best(r)] <= counts[r][d]
                 /\ counts[r][d] = counts[r][Best(r)] => Best(r) <= d
      BY <1>2, <1>4, BestIsBest
    <2>2. PICK b \in candidates[r] : b = Best(r)
      BY <2>1
    <2>3. /\ candidates[r] \subseteq Developer /\ drift[r] \in Nat /\ b # Null
          /\ \A d \in candidates[r] : counts[r][d] \in Nat /\ open[d] \in Nat
      BY <1>2, CreationAssumption DEF CreationTypes
    <2>4. /\ drift[r] = 0 => b \in developers
          /\ \A d \in candidates[r] :
                 /\ open[d] <= counts[r][d] + drift[r] /\ counts[r][d] <= open[d] + drift[r]
                 /\ b # d => open[b] + counts[r][d] <= counts[r][b] + open[d] + drift[r]
      BY <1>2 DEF EstimatesInv, Estimates
    <2>5. ASSUME NEW d \in candidates[r]
          PROVE  /\ open[b] <= open[d] + drift[r]
                 /\ drift[r] = 0 /\ open[d] = open[b] => b <= d
      <3>1. counts[r][b] <= counts[r][d] /\ (counts[r][d] = counts[r][b] => b <= d)
        BY <2>1, <2>2
      <3>2. /\ open[d] <= counts[r][d] + drift[r] /\ counts[r][d] <= open[d] + drift[r]
            /\ open[b] <= counts[r][b] + drift[r] /\ counts[r][b] <= open[b] + drift[r]
            /\ b # d => open[b] + counts[r][d] <= counts[r][b] + open[d] + drift[r]
        BY <2>4
      <3>3. /\ counts[r][d] \in Nat /\ counts[r][b] \in Nat /\ open[d] \in Nat /\ open[b] \in Nat
            /\ drift[r] \in Nat
        BY <2>3
      <3>4. open[b] <= open[d] + drift[r]
        BY <3>1, <3>2, <3>3
      <3>5. drift[r] = 0 /\ open[d] = open[b] => counts[r][d] = counts[r][b]
        BY <3>2, <3>3
      <3> QED
        BY <3>1, <3>4, <3>5
    <2> QED
      BY <2>2, <2>3, <2>4, <2>5
  <1> QED
    BY <1>2, <1>3, <1>4

(* Whatever is created, closed, deleted or imported while autoAssign       *)
(* counts, the developer it chooses has at most that many more open        *)
(* tickets than any other; undisturbed, it is the first of the least busy. *)
THEOREM AutoAssignWithinDrift == Spec => AssignedWithinDrift
  <1>1. Init => TypeInv /\ EstimatesInv
    BY TypeInit, EstimatesInit
  <1>2. TypeInv /\ EstimatesInv /\ [Next]_vars => TypeInv' /\ EstimatesInv'
    <2> SUFFICES ASSUME TypeInv, EstimatesInv, [Next]_vars PROVE TypeInv' /\ EstimatesInv'
      OBVIOUS
    <2>1. TypeInv'
      BY TypeStep
    <2>2. CASE \E q \in Request : CreationStep(q)
      BY <2>1, <2>2, EstimatesStep DEF TypeInv
    <2>3. CASE ~\E q \in Request : CreationStep(q)
      BY <2>1, <2>3, EstimatesStill, ForeignToCreation DEF TypeInv
    <2> QED
      BY <2>1, <2>2, <2>3
  <1>3. TypeInv /\ EstimatesInv /\ [Next]_vars => [WithinDrift]_creationVars
    BY AssignsWithinDrift DEF TypeInv
  <1>4. AssignedWithinDrift <=> [][WithinDrift]_creationVars
    BY PTL DEF AssignedWithinDrift, WithinDrift
  <1> QED
    BY <1>1, <1>2, <1>3, <1>4, PTL DEF Spec

-----------------------------------------------------------------------------
(* The row locks of comments: an edit holds its comment from the SELECT to *)
(* the COMMIT, and what it read is still true there.                       *)
EditInv == CommentsTypeOK /\ EditsHoldTheirComment

LEMMA EditInit == Init => EditInv
  <1>1. Init => MentionInv
    BY MentionInit
  <1> QED
    BY <1>1, CommentsAssumption
       DEF EditInv, EditsHoldTheirComment, MentionInv, Init, ServerInit, CommentsInit

LEMMA EditStill ==
    ASSUME PcOK, PcOK', EditInv, UNCHANGED commentVars, Still(CommentOp)
    PROVE  EditInv'
  <1>1. \A r \in Request : Op(r)' = Op(r) /\ Target(r)' = Target(r)
    BY DEF Still, Op, Target
  <1>2. \A r \in Request : pc'[r] = "writing" <=> pc[r] = "writing"
    BY <1>1 DEF Still, PcOK, CommentOp
  <1> QED
    BY <1>1, <1>2 DEF EditInv, EditsHoldTheirComment, CommentsTypeOK, commentVars, FindsComment

LEMMA EditStep ==
    ASSUME PcOK, MentionInv, EditInv, NEW r \in Request, CommentStep(r)
    PROVE  EditInv'
  <1> USE DEF EditsHoldTheirComment
  <1>0. /\ pc \in [Request -> Pc]
        /\ \A s \in Request \ {r} : pc'[s] = pc[s]
        /\ \A s \in Request : Target(s)' = Target(s)
        /\ Target(r) \in Comment
    BY CommentMoves, CommentTypes DEF Moves, PcOK, Op, Target
  <1>T0. CommentsTypeOK
    BY DEF EditInv
  <1>W. \A s \in Request : pc[s] = "writing" => Target(s) \in Comment
    BY CommentTypes DEF PcOK, CommentOp
  <1>N. \A c \in Comment : locker[c] \in Request \/ locker[c] = Nobody
    BY <1>T0 DEF CommentsTypeOK
  <1>T. CommentsTypeOK' /\ CommentsTypeOK
    BY CommentTypeStep DEF MentionInv
  <1> USE DEF EditInv
  (* A step that takes and gives up no lock, and deletes no comment.       *)
  <1>K. ASSUME UNCHANGED <<locker, deletedComments>>,
               \A c \in Comment : content[c] # Absent => content'[c] # Absent,
               pc[r] # "writing", pc'[r] # "writing"
        PROVE  EditInv'
    <2>1. \A s \in Request : pc'[s] = "writing" => s # r /\ pc[s] = "writing"
      BY <1>0, <1>K
    <2>2. \A s \in Request : pc'[s] = "writing" => locker'[Target(s)'] = s /\ FindsComment(Target(s))'
      BY <1>0, <1>W, <1>K, <2>1 DEF FindsComment
    <2>3. \A c \in Comment : locker'[c] # Nobody => pc'[locker'[c]] = "writing" /\ Target(locker[c])' = c
      BY <1>0, <1>N, <1>K
    <2> QED
      BY <1>T, <1>K, <2>2, <2>3
  <1>1. CASE ValidateTicket(r) \/ AuthorUnknown(r) \/ LockTimeout(r) \/ EndMentions(r)
             \/ FindComment(r) \/ AuditComment(r) \/ ClearMentions(r) \/ SaveMention(r)
             \/ LoseMention(r)
    <2> USE <1>1 DEF ValidateTicket, AuthorUnknown, LockTimeout, EndMentions, FindComment,
                     AuditComment, ClearMentions, SaveMention, LoseMention
    <2>1. UNCHANGED <<locker, deletedComments, content>>
      BY DEF commentVars
    <2>2. pc[r] # "writing" /\ pc'[r] # "writing"
      BY <1>0 DEF Received, Unless404, GoTo, Answer, Audit, CommentOp, serverVars
    <2> QED
      BY <1>K, <2>1, <2>2
  <1>2. CASE InsertComment(r)
    <2>1. call[r].content \in Content
      BY <1>2, CommentTypes DEF InsertComment, CommentOp
    <2>2. \A c \in Comment : content[c] # Absent => content'[c] # Absent
      BY <1>2, <1>T, <2>1, CommentsAssumption DEF InsertComment, CommentsTypeOK
    <2>3. pc[r] # "writing" /\ pc'[r] # "writing"
      BY <1>0, <1>2 DEF InsertComment, GoTo
    <2> QED
      BY <1>2, <1>K, <2>2, <2>3 DEF InsertComment
  <1>3. CASE LockComment(r)
    <2>1. CASE FindsComment(Target(r))
      <3>1. /\ pc'[r] = "writing" /\ UNCHANGED <<content, deletedComments>>
            /\ locker' = [locker EXCEPT ![Target(r)] = r]
            /\ locker[Target(r)] = Nobody
        BY <1>0, <1>3, <2>1 DEF LockComment, Unless404, GoTo
      <3>2. \A c \in Comment : locker'[c] = IF c = Target(r) THEN r ELSE locker[c]
        BY <1>T, <3>1 DEF CommentsTypeOK
      <3> QED
        BY <1>0, <1>T, <2>1, <3>1, <3>2, CommentsAssumption DEF FindsComment, CommentsTypeOK
    <2>2. CASE ~FindsComment(Target(r))
      BY <1>0, <1>3, <1>K, <2>2 DEF LockComment, Unless404, Answer
    <2> QED
      BY <2>1, <2>2
  <1>4. CASE CommitContent(r)
    <2>1. /\ pc[r] = "writing" /\ pc'[r] = "clearing" /\ UNCHANGED deletedComments
          /\ \A c \in Comment : locker'[c] = IF c = Target(r) THEN Nobody ELSE locker[c]
          /\ content' = [content EXCEPT ![Target(r)] = call[r].content]
      BY <1>0, <1>4, <1>T DEF CommitContent, GoTo, CommentsTypeOK
    <2>2. call[r].content \in Content
      BY <1>4, <2>1, CommentMoves, CommentTypes DEF Moves, PcOK
    <2>3. \A c \in Comment : content[c] # Absent => content'[c] # Absent
      BY <1>T, <2>1, <2>2, CommentsAssumption DEF CommentsTypeOK
    <2>4. \A s \in Request \ {r} : pc[s] = "writing" => Target(s) # Target(r)
      BY <2>1
    <2>5. \A s \in Request : pc'[s] = "writing" => s # r /\ pc[s] = "writing"
      BY <1>0, <2>1
    <2>6. \A s \in Request : pc'[s] = "writing" => locker'[Target(s)'] = s /\ FindsComment(Target(s))'
      BY <1>0, <1>W, <2>1, <2>3, <2>4, <2>5 DEF FindsComment
    <2>7. \A c \in Comment : locker'[c] # Nobody => pc'[locker'[c]] = "writing" /\ Target(locker[c])' = c
      BY <1>0, <1>N, <2>1
    <2>8. \A c \in Comment : locker'[c] # Nobody => locker'[c] = locker[c]
      BY <2>1
    <2> QED
      BY <1>T, <2>6, <2>7, <2>8
  <1>5. CASE HideComment(r)
    <2>1. /\ pc[r] # "writing" /\ pc'[r] # "writing"
          /\ UNCHANGED <<content, locker>> /\ locker[Target(r)] = Nobody
          /\ deletedComments' = deletedComments \cup {Target(r)}
      BY <1>0, <1>5 DEF HideComment, GoTo
    <2>2. \A s \in Request : pc[s] = "writing" => Target(s) # Target(r)
      BY <2>1, CommentsAssumption
    <2> QED
      BY <1>0, <1>T, <2>1, <2>2 DEF FindsComment, CommentsTypeOK
  <1>6. CASE CommentCutShort(r)
    <2>1. /\ pc'[r] = "done" /\ UNCHANGED <<content, deletedComments>>
          /\ \A c \in Comment : locker'[c] = IF locker[c] = r THEN Nobody ELSE locker[c]
      BY <1>0, <1>6 DEF CommentCutShort, CutShort, Answer, ReleaseLock
    <2>5. \A s \in Request : pc'[s] = "writing" => s # r /\ pc[s] = "writing"
      BY <1>0, <2>1
    <2>6. \A s \in Request : pc'[s] = "writing" => locker'[Target(s)'] = s /\ FindsComment(Target(s))'
      BY <1>0, <1>W, <2>1, <2>5 DEF FindsComment
    <2>7. \A c \in Comment : locker'[c] # Nobody => pc'[locker'[c]] = "writing" /\ Target(locker[c])' = c
      BY <1>0, <1>N, <2>1
    <2>8. \A c \in Comment : locker'[c] # Nobody => locker'[c] = locker[c]
      BY <2>1
    <2> QED
      BY <1>T, <2>6, <2>7, <2>8
  <1> QED
    BY <1>1, <1>2, <1>3, <1>4, <1>5, <1>6 DEF CommentStep, HandleComment, CommentFault

(* Of all the requests on a comment at most one is between its SELECT FOR  *)
(* UPDATE and its COMMIT, it edits a comment that is still there, and only *)
(* it holds the lock.                                                      *)
THEOREM EditsAreExclusive == Spec => []EditsHoldTheirComment
  <1> DEFINE Inv == PcOK /\ MentionInv /\ EditInv
  <1>1. Init => Inv
    BY PcInit, MentionInit, EditInit
  <1>2. Inv /\ [Next]_vars => Inv'
    BY PcStep, MentionStep, MentionStill, EditStep, EditStill, ForeignToComments
  <1>3. Inv => EditsHoldTheirComment
    BY DEF EditInv
  <1> HIDE DEF Inv
  <1> QED
    BY <1>1, <1>2, <1>3, PTL DEF Spec
=============================================================================
