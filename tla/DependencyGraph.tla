--------------------------- MODULE DependencyGraph ---------------------------
(* What the table "ticket_dependencies" promises its readers: rows come one *)
(* at a time, between two tickets of one project, and only where they close *)
(* no cycle; and they go one at a time.  Dependencies.tla, where an add is  *)
(* five look-ups and a search before its INSERT, implements it as long as   *)
(* adds do not overlap.  That both tickets are live is no part of the       *)
(* promise: they may be soft-deleted while the search runs.                 *)
CONSTANTS
    Ticket,     \* ids of the rows of "tickets"
    projectId,  \* the project of each ticket, fixed at creation
    Stored      \* contents the table may start from

VARIABLE
    dependencies    \* the table: pairs <<ticketId, blockerId>>

Init == dependencies \in Stored

(* The blockers of t, their blockers, and so on, lead to u.                *)
LeadsTo(t, u) ==
    \A S \in SUBSET Ticket :
        (t \in S /\ \A s \in S, b \in Ticket : <<s, b>> \in dependencies => b \in S)
            => u \in S

Add(t, b) ==
    /\ projectId[t] = projectId[b]
    /\ <<t, b>> \notin dependencies
    /\ ~LeadsTo(b, t)
    /\ dependencies' = dependencies \cup {<<t, b>>}

Remove(t, b) == dependencies' = dependencies \ {<<t, b>>}

Next == \E t, b \in Ticket : Add(t, b) \/ Remove(t, b)

Spec == Init /\ [][Next]_dependencies
=============================================================================
