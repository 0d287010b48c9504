---------------------------- MODULE Attachments -----------------------------
(* Files uploaded to one ticket (AttachmentsController, AttachmentsService)*)
(* and the table that names them: two stores written by separate calls.    *)
EXTENDS Server

CONSTANT OldFile    \* a file attached from the start

AttachmentOp == {"upload", "removeAttachment"}

(* What a client sends as the file: as it should be, more than 10 MB, of a *)
(* type that is not allowed, nothing, or a file with a ticket id that is   *)
(* no number.                                                              *)
Upload == {"allowed", "tooBig", "badType", "nothing", "badTicketId"}

File == Request \cup {OldFile}  \* the UUID is fresh: named by its request

ASSUME AttachmentsAssumption == OldFile \notin Request

VARIABLES
    uploads,        \* the files in ./uploads
    attachments,    \* "attachments": the files the rows name
    strays          \* history: files that a failure, or a refusal before
                    \* the handler, set apart from the table

attachmentVars == <<uploads, attachments, strays>>

TargetFile(r) == IF Op(r) = "upload" THEN r ELSE call[r].file

AttachmentsTypeOK ==
    /\ uploads \subseteq File
    /\ attachments \subseteq File
    /\ strays \subseteq File

AttachmentsInit ==
    /\ uploads = {OldFile}
    /\ attachments = {OldFile}
    /\ strays = {}

-----------------------------------------------------------------------------
(* FileInterceptor: Multer writes the file before pipes and handler run.   *)
ReceiveFile(r) ==
    /\ Received(r, {"upload"}) /\ call[r].upload \notin {"badType", "nothing"}
    /\ uploads' = uploads \cup {r}
    /\ GoTo(r, "handling")
    /\ NoFailure
    /\ UNCHANGED <<attachments, strays>>

(* fileFilter refuses the type; the handler, that there is no file.        *)
RefuseFile(r) ==
    /\ Received(r, {"upload"}) /\ call[r].upload \in {"badType", "nothing"}
    /\ Answer(r, "400")
    /\ NoFailure
    /\ UNCHANGED attachmentVars

(* ParseIntPipe: the handler is never called, and the file stays.          *)
RefuseTicketId(r) ==
    /\ pc[r] = "handling" /\ call[r].upload = "badTicketId"
    /\ strays' = strays \cup {r}
    /\ Answer(r, "400")
    /\ NoFailure
    /\ UNCHANGED <<uploads, attachments>>

(* deleteFile: an error is swallowed, and the file stays.                  *)
DeleteFile(f) == uploads' = uploads \ {f} /\ NoFailure

DeleteFileFails(f) == f \in uploads /\ uploads' = uploads /\ Fails

(* The handler takes the file back and answers with an error.              *)
RefuseUpload(r, code) ==
    /\ \/ DeleteFile(r) /\ UNCHANGED strays
       \/ DeleteFileFails(r) /\ strays' = strays \cup {r}
    /\ Answer(r, code)
    /\ UNCHANGED attachments

RefuseSize(r) ==
    /\ pc[r] = "handling" /\ call[r].upload = "tooBig"
    /\ RefuseUpload(r, "400")

(* Mutant: the file of an upload to a deleted ticket is not taken back.    *)
KeepFileOfDeletedTicket(r) ==
    /\ pc[r] = "handling" /\ call[r].upload = "allowed" /\ ticketIsDeleted
    /\ Answer(r, "404")
    /\ NoFailure
    /\ UNCHANGED attachmentVars

RefuseDeletedTicket(r) ==
    /\ pc[r] = "handling" /\ call[r].upload = "allowed" /\ ticketIsDeleted
    /\ RefuseUpload(r, "404")

FindTicket(r) ==
    /\ pc[r] = "handling" /\ call[r].upload = "allowed" /\ ~ticketIsDeleted
    /\ GoTo(r, "saving")
    /\ NoFailure
    /\ UNCHANGED attachmentVars

SaveAttachment(r) ==
    /\ pc[r] = "saving"
    /\ attachments' = attachments \cup {r}
    /\ GoTo(r, "auditing")
    /\ NoFailure
    /\ UNCHANGED <<uploads, strays>>

-----------------------------------------------------------------------------
(* remove does not ask whether the ticket is deleted.  The SELECT ...      *)
FindAttachment(r) ==
    /\ Received(r, {"removeAttachment"})
    /\ Unless404(r, TargetFile(r) \in attachments, "unlinking")
    /\ UNCHANGED attachmentVars

(* ... then the file, whether or not it is there ...                       *)
UnlinkFile(r) ==
    /\ pc[r] = "unlinking"
    /\ DeleteFile(TargetFile(r)) \/ DeleteFileFails(TargetFile(r))
    /\ GoTo(r, "deleting")
    /\ UNCHANGED <<attachments, strays>>

(* ... and the row.                                                        *)
DeleteAttachment(r) ==
    /\ pc[r] = "deleting"
    /\ attachments' = attachments \ {TargetFile(r)}
    /\ strays' = IF TargetFile(r) \in uploads THEN strays \cup {TargetFile(r)}
                 ELSE strays \ {TargetFile(r)}
    /\ GoTo(r, "auditing")
    /\ NoFailure
    /\ UNCHANGED uploads

AuditAttachment(r) ==
    /\ Audit(r, AttachmentOp, IF Op(r) = "upload" THEN "201" ELSE "200")
    /\ UNCHANGED attachmentVars

(* The steps between the two stores.                                       *)
HalfDone == {"handling", "saving", "deleting"}

AttachmentCutShort(r) ==
    /\ CutShort(r, AttachmentOp)
    /\ strays' = IF pc[r] \in HalfDone /\ (TargetFile(r) \in uploads) # (TargetFile(r) \in attachments)
                 THEN strays \cup {TargetFile(r)} ELSE strays
    /\ UNCHANGED <<uploads, attachments>>

HandleAttachment(r) ==
    \/ ReceiveFile(r) \/ RefuseFile(r) \/ RefuseTicketId(r) \/ RefuseSize(r)
    \/ RefuseDeletedTicket(r) \/ FindTicket(r) \/ SaveAttachment(r)
    \/ FindAttachment(r) \/ UnlinkFile(r) \/ DeleteAttachment(r)
    \/ AuditAttachment(r)

-----------------------------------------------------------------------------
WorksOn(r, f) == Op(r) \in AttachmentOp /\ InFlight(r) /\ TargetFile(r) = f

(* Once no request works on a file, it is on the disk exactly if a row     *)
(* names it, however uploads, removals of the same file and the deletion   *)
(* of the ticket interleave; only a failure, or a refusal of the request   *)
(* between Multer and the handler, sets them apart, and removing the       *)
(* attachment again mends a row without a file.                            *)
DiskMatchesTable ==
    \A f \in File :
        (\A r \in Request : ~WorksOn(r, f)) /\ f \notin strays =>
            (f \in uploads <=> f \in attachments)
=============================================================================
