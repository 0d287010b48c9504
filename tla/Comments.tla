------------------------------ MODULE Comments ------------------------------
(* Comments of one ticket and the users they mention (CommentsService,     *)
(* MentionsService).  The content is written under a row lock, in a        *)
(* transaction; the mentions are deleted and saved again one by one after  *)
(* its commit, outside any transaction.                                    *)
EXTENDS Server

CONSTANTS
    User,       \* the users there are, none of them deleted
    Content,    \* the texts clients send
    Names,      \* the distinct @names in each text
    Matches,    \* the users a name matches: ILIKE ignores case, and a "_"
                \* in the name stands for any character
    Known,      \* the users whose name it is, but for case
    OldComment, \* a comment there is from the start
    OldContent  \* and its text

CommentOp == {"createComment", "editComment", "removeComment"}

Comment == Request \cup {OldComment}   \* a new row is named by its request
Nobody == "nobody"
Absent == "absent"
Username == UNION {Names[x] : x \in Content}

ASSUME CommentsAssumption ==
    /\ Names \in [Content -> SUBSET Username]
    /\ Matches \in [Username -> SUBSET User]
    /\ Known \in [Username -> SUBSET User]
    /\ \A n \in Username : Known[n] \subseteq Matches[n]
    /\ OldComment \notin Request /\ OldContent \in Content
    /\ Absent \notin Content /\ Nobody \notin Request
    /\ \A k \in Call :
           /\ k.op \in {"createComment", "editComment"} => k.content \in Content
           /\ k.op \in {"editComment", "removeComment"} => k.comment \in Comment

VARIABLES
    content,            \* "comments": the text of each, absent until inserted
    deletedComments,    \* those that are marked isDeleted
    mentions,           \* "comment_mentions"
    locker,             \* the request that holds the row lock of a comment
    unread,             \* the @names each request has yet to look up
    unsynced            \* history: comments whose mentions were written by
                        \* overlapping requests, or not to the end

commentVars == <<content, deletedComments, mentions, locker, unread, unsynced>>

(* The comment a request is about.                                         *)
Target(r) == IF Op(r) = "createComment" THEN r ELSE call[r].comment

MentionsOf(c) == {u \in User : <<c, u>> \in mentions}

(* What saveMentions leaves: some user for each name that matches any.     *)
InSync(c, who) ==
    /\ who \subseteq UNION {Matches[n] : n \in Names[content[c]]}
    /\ \A n \in Names[content[c]] : Matches[n] # {} => Matches[n] \cap who # {}

CommentsTypeOK ==
    /\ content \in [Comment -> Content \cup {Absent}]
    /\ deletedComments \subseteq Comment
    /\ mentions \subseteq {c \in Comment : content[c] # Absent} \X User
    /\ locker \in [Comment -> Request \cup {Nobody}]
    /\ unread \in [Request -> SUBSET Username]
    /\ unsynced \subseteq Comment

(* The mentions of the old comment are what saveMentions left.             *)
CommentsInit ==
    /\ content = [c \in Comment |-> IF c = OldComment THEN OldContent ELSE Absent]
    /\ \E who \in SUBSET User :
           InSync(OldComment, who) /\ mentions = {OldComment} \X who
    /\ deletedComments = {}
    /\ locker = [c \in Comment |-> Nobody]
    /\ unread = [r \in Request |-> {}]
    /\ unsynced = {}

-----------------------------------------------------------------------------
(* validateTicket, at the start of every operation.                        *)
ValidateTicket(r) ==
    /\ Received(r, CommentOp)
    /\ Unless404(r, ~ticketIsDeleted,
           CASE Op(r) = "createComment" -> "inserting"
             [] Op(r) = "editComment"   -> "locking"
             [] Op(r) = "removeComment" -> "finding")
    /\ UNCHANGED commentVars

FindsComment(c) == content[c] # Absent /\ c \notin deletedComments

(* save() of create.                                                       *)
InsertComment(r) ==
    /\ pc[r] = "inserting" /\ Op(r) = "createComment"
    /\ content' = [content EXCEPT ![r] = call[r].content]
    /\ unread' = [unread EXCEPT ![r] = Names[call[r].content]]
    /\ GoTo(r, "mentioning")
    /\ NoFailure
    /\ UNCHANGED <<deletedComments, mentions, locker, unsynced>>

(* authorId references nobody.                                             *)
AuthorUnknown(r) ==
    /\ pc[r] = "inserting" /\ Op(r) = "createComment"
    /\ Answer(r, "400")
    /\ NoFailure
    /\ UNCHANGED commentVars

-----------------------------------------------------------------------------
(* SELECT ... FOR UPDATE: waits for the lock, then sees the row as it is.  *)
LockComment(r) ==
    /\ pc[r] = "locking" /\ locker[Target(r)] = Nobody
    /\ Unless404(r, FindsComment(Target(r)), "writing")
    /\ locker' = IF FindsComment(Target(r))
                 THEN [locker EXCEPT ![Target(r)] = r] ELSE locker
    /\ UNCHANGED <<content, deletedComments, mentions, unread, unsynced>>

(* SET LOCAL lock_timeout = '5s'.                                          *)
LockTimeout(r) ==
    /\ pc[r] = "locking" /\ locker[Target(r)] # Nobody
    /\ Answer(r, "409")
    /\ NoFailure
    /\ UNCHANGED commentVars

(* Requests that are between their write of a content and the last of its  *)
(* mentions.                                                               *)
Mentioning(c) == {r \in Request : pc[r] \in {"clearing", "mentioning"} /\ Target(r) = c}

(* The UPDATE becomes visible and the lock is released with the commit.    *)
CommitContent(r) ==
    /\ pc[r] = "writing"
    /\ content' = [content EXCEPT ![Target(r)] = call[r].content]
    /\ locker' = [locker EXCEPT ![Target(r)] = Nobody]
    /\ unsynced' = IF Mentioning(Target(r)) # {} THEN unsynced \cup {Target(r)}
                   ELSE unsynced \ {Target(r)}
    /\ GoTo(r, "clearing")
    /\ NoFailure
    /\ UNCHANGED <<deletedComments, mentions, unread>>

(* Mutant: the mentions of the old content are kept.                       *)
KeepMentions(r) ==
    /\ pc[r] = "clearing"
    /\ unread' = [unread EXCEPT ![r] = Names[call[r].content]]
    /\ GoTo(r, "mentioning")
    /\ NoFailure
    /\ UNCHANGED <<content, deletedComments, mentions, locker, unsynced>>

(* updateMentions: delete({ commentId }), then as for a new comment.       *)
ClearMentions(r) ==
    /\ pc[r] = "clearing"
    /\ mentions' = {m \in mentions : m[1] # Target(r)}
    /\ unread' = [unread EXCEPT ![r] = Names[call[r].content]]
    /\ GoTo(r, "mentioning")
    /\ NoFailure
    /\ UNCHANGED <<content, deletedComments, locker, unsynced>>

-----------------------------------------------------------------------------
(* One round of the loop of saveMentions: the first user that matches the  *)
(* name, if any, is mentioned.                                             *)
SaveMention(r) ==
    /\ pc[r] = "mentioning"
    /\ \E n \in unread[r] :
           /\ unread' = [unread EXCEPT ![r] = @ \ {n}]
           /\ IF Matches[n] = {} THEN UNCHANGED mentions
              ELSE \E u \in Matches[n] : mentions' = mentions \cup {<<Target(r), u>>}
    /\ UNCHANGED <<serverVars, content, deletedComments, locker, unsynced>>

(* The save writes nothing and the loop goes on: its error is swallowed,   *)
(* or it found a row that an overlapping edit has deleted since.           *)
LoseMention(r) ==
    /\ pc[r] = "mentioning"
    /\ \E n \in unread[r] :
           /\ Matches[n] # {}
           /\ unread' = [unread EXCEPT ![r] = @ \ {n}]
    /\ \/ Fails
       \/ Mentioning(Target(r)) # {r} /\ NoFailure
    /\ unsynced' = unsynced \cup {Target(r)}
    /\ UNCHANGED <<pc, response, content, deletedComments, mentions, locker>>

EndMentions(r) ==
    /\ pc[r] = "mentioning" /\ unread[r] = {}
    /\ GoTo(r, "auditing")
    /\ NoFailure
    /\ UNCHANGED commentVars

-----------------------------------------------------------------------------
FindComment(r) ==
    /\ pc[r] = "finding" /\ Op(r) = "removeComment"
    /\ Unless404(r, FindsComment(Target(r)), "hiding")
    /\ UNCHANGED commentVars

(* The UPDATE that marks the comment deleted waits for its row lock.       *)
HideComment(r) ==
    /\ pc[r] = "hiding" /\ locker[Target(r)] = Nobody
    /\ deletedComments' = deletedComments \cup {Target(r)}
    /\ GoTo(r, "auditing")
    /\ NoFailure
    /\ UNCHANGED <<content, mentions, locker, unread, unsynced>>

AuditComment(r) ==
    /\ Audit(r, CommentOp, IF Op(r) = "createComment" THEN "201" ELSE "200")
    /\ UNCHANGED commentVars

(* Mutant: the transaction is left open, and its lock held.                *)
KeepLock(r) == locker

(* A rollback, or the end of the connection, releases the lock.            *)
ReleaseLock(r) == [c \in Comment |-> IF locker[c] = r THEN Nobody ELSE locker[c]]

CommentCutShort(r) ==
    /\ CutShort(r, CommentOp)
    /\ locker' = ReleaseLock(r)
    /\ unsynced' = IF pc[r] \in {"clearing", "mentioning"} THEN unsynced \cup {Target(r)}
                   ELSE unsynced
    /\ unread' = [unread EXCEPT ![r] = {}]
    /\ UNCHANGED <<content, deletedComments, mentions>>

HandleComment(r) ==
    \/ ValidateTicket(r) \/ InsertComment(r) \/ AuthorUnknown(r)
    \/ LockComment(r) \/ CommitContent(r) \/ ClearMentions(r)
    \/ SaveMention(r) \/ EndMentions(r)
    \/ FindComment(r) \/ HideComment(r) \/ AuditComment(r)

CommentFault(r) == LockTimeout(r) \/ LoseMention(r) \/ CommentCutShort(r)

-----------------------------------------------------------------------------
(* The look-up finds others than those who bear the name.                  *)
IsPattern(n) == Matches[n] # Known[n]

(* "looked up case-insensitively", and "Unknown usernames are silently     *)
(* ignored" (mentions.service.ts:5-6).  The code does otherwise where the  *)
(* name is a pattern: there all that is asked is that a mention matches.   *)
MentionsTheNamed(c, who) ==
    /\ \A u \in who : \E n \in Names[content[c]] :
           u \in Known[n] \/ (IsPattern(n) /\ u \in Matches[n])
    /\ \A n \in Names[content[c]] :
           ~IsPattern(n) /\ Known[n] # {} => Known[n] \cap who # {}

(* At rest, a comment mentions the users its content names and, names that *)
(* the look-up takes for patterns apart, nobody else: the row lock,        *)
(* released before they are written, does not see to it, so two edits (or  *)
(* an edit and the creation) that overlap may leave them apart, and so may *)
(* one that is cut short or loses a save; nothing else does, and the next  *)
(* edit that runs alone puts them right.                                   *)
MentionsMatchContent ==
    \A c \in Comment :
        content[c] # Absent /\ Mentioning(c) = {} /\ c \notin unsynced =>
            MentionsTheNamed(c, MentionsOf(c))

(* What an edit read under the row lock is still true when it writes: no   *)
(* other edit is about to write the comment, and no removal has marked it. *)
(* And no lock outlives the transaction that took it, however that ended.  *)
EditsHoldTheirComment ==
    /\ \A r \in Request : pc[r] = "writing" =>
           locker[Target(r)] = r /\ FindsComment(Target(r))
    /\ \A c \in Comment : locker[c] # Nobody =>
           pc[locker[c]] = "writing" /\ Target(locker[c]) = c
=============================================================================
