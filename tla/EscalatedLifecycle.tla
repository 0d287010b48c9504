------------------------- MODULE EscalatedLifecycle -------------------------
(* The lifecycle of a ticket on a board with the escalation cron.  A PATCH *)
(* is as atomic as without it, and the cron adds updates of single rows.   *)
(* Each sets a priority to which the ladder leads and leaves the flag on   *)
(* exactly the CRITICAL; a flagged ticket stays CRITICAL.  It is not       *)
(* promised that an update is a promotion of the ticket it meets: a run    *)
(* writes from an old read, and may repeat the priority of a ticket, or    *)
(* lower it, from CRITICAL too, if it was raised by hand in the meantime   *)
(* and does not carry the flag.                                            *)
EXTENDS TicketLifecycle

Overwrite(t, priority) ==
    /\ tickets[t].isOverdue => priority = "CRITICAL"
    /\ tickets' = [tickets EXCEPT
           ![t] = [@ EXCEPT !.priority = priority, !.isOverdue = (priority = "CRITICAL")]]
    /\ UNCHANGED dependencies

(* The clock: nobody writes the row.                                       *)
ComeDue(t) ==
    /\ tickets[t].dueDate = "future"
    /\ tickets' = [tickets EXCEPT ![t].dueDate = "past"]
    /\ UNCHANGED dependencies

Promotions == {PRIORITY_PROMOTION[p] : p \in DOMAIN PRIORITY_PROMOTION}

EscalatedNext ==
    \/ Next
    \/ \E t \in Ticket, priority \in Promotions : Overwrite(t, priority)
    \/ \E t \in Ticket : ComeDue(t)

EscalatedSpec == Init /\ [][EscalatedNext]_vars
=============================================================================
