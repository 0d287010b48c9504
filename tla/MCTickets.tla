----------------------------- MODULE MCTickets -----------------------------
(* Small instances of Tickets for TLC.                                     *)
EXTENDS Tickets, TLC

CONSTANTS t1, t2, t3, r1, r2, r3, u1, u2

New(status, priority, dueDate) ==
    [status |-> status, priority |-> priority, assigneeId |-> Null,
     dueDate |-> dueDate, isOverdue |-> FALSE, isDeleted |-> FALSE]

Nothing ==
    [status |-> Undefined, priority |-> Undefined, assigneeId |-> Undefined,
     dueDate |-> Undefined]

To(status) == [Nothing EXCEPT !.status = status]

(* Two columns of the board, so that a move may go back.                   *)
FreshRows == {New("TODO", "LOW", Null), New("IN_REVIEW", "LOW", Null)}

(* A move on or back, the move to DONE, a change of other columns, and a   *)
(* null status, which its column refuses.                                  *)
Bodies ==
    {To("IN_PROGRESS"), To("DONE"), To(Null),
     [Nothing EXCEPT !.priority = "HIGH", !.assigneeId = u1]}

OnlyTodo == {New("TODO", "LOW", Null)}

(* The move to DONE, and an assignee (u2) who does not exist.              *)
DoneOrRefused == {To("DONE"), [Nothing EXCEPT !.assigneeId = u2]}

Interchangeable == Permutations(Ticket) \cup Permutations(Request)
=============================================================================
