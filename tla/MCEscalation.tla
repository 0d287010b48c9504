---------------------------- MODULE MCEscalation ----------------------------
(* Small instances of Escalation for TLC.                                  *)
EXTENDS Escalation

CONSTANTS t1, t2, r1, r2, u1

New(priority, dueDate) ==
    [status |-> "TODO", priority |-> priority, assigneeId |-> Null,
     dueDate |-> dueDate, isOverdue |-> FALSE, isDeleted |-> FALSE]

Nothing ==
    [status |-> Undefined, priority |-> Undefined, assigneeId |-> Undefined,
     dueDate |-> Undefined]

(* Raise or lower by hand, finish, and move the due date away.             *)
Bodies ==
    {[Nothing EXCEPT !.priority = "LOW"], [Nothing EXCEPT !.priority = "HIGH"],
     [Nothing EXCEPT !.status = "DONE"], [Nothing EXCEPT !.dueDate = "future"]}

(* Overdue from the start, and due later.                                  *)
OverdueRows == {New("LOW", "past"), New("LOW", "future")}

(* Changes that a run with an old read takes back: a priority lowered, and *)
(* one raised by a PATCH that looks up blockers while the run goes on.     *)
ByHand ==
    {[Nothing EXCEPT !.priority = "LOW"],
     [Nothing EXCEPT !.status = "DONE", !.priority = "CRITICAL"]}
=============================================================================
