---------------------------- MODULE MCTicketApi -----------------------------
(* A small instance of TicketApi for TLC.                                  *)
EXTENDS TicketApi

CONSTANTS r1, r2, ann, al1, al2, plain, toAnn, toAls, oldComment, oldFile

(* "@ann", and "@al_ @bob @ann" where nobody is called al_ or bob.         *)
NamesIn == [x \in Content |->
    CASE x = plain -> {} [] x = toAnn -> {"ann"} [] x = toAls -> {"al_", "bob", "ann"}]

(* As a pattern, al_ matches the names of al1 and al2.                     *)
Matching == [n \in {"ann", "al_", "bob"} |->
    CASE n = "ann" -> {ann} [] n = "al_" -> {al1, al2} [] n = "bob" -> {}]

Knowing == [Matching EXCEPT !["al_"] = {}]

CommentCalls ==
    [op : {"createComment"}, content : {toAnn}]
        \cup [op : {"editComment"}, comment : {oldComment}, content : Content]
        \cup [op : {"editComment"}, comment : {r1}, content : {toAls}]
        \cup [op : {"removeComment"}, comment : {oldComment, r1}]

AttachmentCalls ==
    [op : {"upload"}, upload : Upload]
        \cup [op : {"removeAttachment"}, file : {oldFile, r1}]

Unknown == 9

CreationCalls ==
    [op : {"createTicket"}, auto : {TRUE}, assigneeId : {Null}, done : {FALSE}]
        \cup [op : {"createTicket"}, auto : {FALSE}, assigneeId : {2, Unknown}, done : {TRUE}]

File3 == << [valid |-> TRUE, assigneeId |-> 1, done |-> FALSE],
            [valid |-> FALSE, assigneeId |-> Null, done |-> FALSE],
            [valid |-> TRUE, assigneeId |-> Unknown, done |-> FALSE],
            [valid |-> TRUE, assigneeId |-> Null, done |-> FALSE] >>

ImportCalls == [op : {"importTickets"}, parses : BOOLEAN, rows : {File3}]

(* The loop of autoAssign chooses as Best does, whatever the loads.        *)
ASSUME ReduceIsBest ==
    \A devs \in SUBSET (1 .. 4) \ {{}} : \A load \in [devs -> 0 .. 3] :
        Reduced(devs, load) = FirstOf(LeastLoaded(devs, load))

Calls == CommentCalls \cup AttachmentCalls \cup CreationCalls \cup ImportCalls
=============================================================================
