-------------------------- MODULE TicketLifecycle --------------------------
(* What the ticket table promises its readers: every PATCH that succeeds   *)
(* happens at one instant, at which the ticket is live and not DONE, the   *)
(* status does not move back, and DONE is entered only when every blocker  *)
(* is DONE.  Tickets.tla, where the same PATCH is a dozen awaited calls    *)
(* interleaved with those of every other request, implements it.           *)
EXTENDS TicketRules

CONSTANTS
    Ticket,     \* ids of the rows of "tickets"
    NewTicket,  \* the rows POST /tickets may have created
    Dto         \* the bodies clients send to PATCH

VARIABLES
    tickets,        \* the table "tickets"
    dependencies    \* the table "ticket_dependencies": pairs <<ticketId, blockerId>>

vars == <<tickets, dependencies>>

Init ==
    /\ tickets \in [Ticket -> NewTicket]
    /\ dependencies = {}

UnresolvedBlockers(t) ==
    {b \in Ticket : <<t, b>> \in dependencies /\ tickets[b].status # "DONE"}

Patch(t, dto) ==
    /\ ~tickets[t].isDeleted
    /\ tickets[t].status # "DONE"
    /\ ~MovesBack(tickets[t], dto)
    /\ dto.status = "DONE" => UnresolvedBlockers(t) = {}
    /\ Storable(dto)
    /\ tickets' = [tickets EXCEPT ![t] = Patched(@, dto)]
    /\ UNCHANGED dependencies

Remove(t) ==
    /\ tickets' = [tickets EXCEPT ![t].isDeleted = TRUE]
    /\ UNCHANGED dependencies

Restore(t) ==
    /\ tickets' = [tickets EXCEPT ![t].isDeleted = FALSE]
    /\ UNCHANGED dependencies

Link(t, b) ==
    /\ t # b
    /\ dependencies' = dependencies \cup {<<t, b>>}
    /\ UNCHANGED tickets

Unlink(t, b) ==
    /\ dependencies' = dependencies \ {<<t, b>>}
    /\ UNCHANGED tickets

Next ==
    \/ \E t \in Ticket, dto \in Dto : Patch(t, dto)
    \/ \E t \in Ticket : Remove(t) \/ Restore(t)
    \/ \E t, b \in Ticket : Link(t, b) \/ Unlink(t, b)

Spec == Init /\ [][Next]_vars
=============================================================================
