---------------------------- MODULE TicketRules ----------------------------
(* The vocabulary and the rules of a ticket row: the enums of the entity,  *)
(* the body of PATCH /tickets/:id, what a patch does to a row, and the     *)
(* priority ladder of the escalation cron.  No state lives here.           *)
(*                                                                         *)
(* title, description and type carry no rule of their own and are left     *)
(* out; a due date is abstracted to its place relative to the clock.       *)
EXTENDS Integers

CONSTANTS
    User,       \* ids of the rows of "users" (soft-deleted users included)
    UserId      \* ids a client may send; those outside User do not exist

ASSUME UserAssumption == User \subseteq UserId

Undefined == "undefined"      \* a property the request body does not have
Null      == "null"           \* a JSON or SQL null

TicketStatus   == {"TODO", "IN_PROGRESS", "IN_REVIEW", "DONE"}
TicketPriority == {"LOW", "MEDIUM", "HIGH", "CRITICAL"}
DueDate        == {"past", "future"}

STATUS_ORDER == [TODO |-> 0, IN_PROGRESS |-> 1, IN_REVIEW |-> 2, DONE |-> 3]

(* CRITICAL has no entry: its domain is what the cron may still promote.   *)
PRIORITY_PROMOTION == [LOW |-> "MEDIUM", MEDIUM |-> "HIGH", HIGH |-> "CRITICAL"]

Ladder == [LOW |-> 0, MEDIUM |-> 1, HIGH |-> 2, CRITICAL |-> 3]

TicketRow ==
    [status     : TicketStatus,
     priority   : TicketPriority,
     assigneeId : User \cup {Null},
     dueDate    : DueDate \cup {Null},
     isOverdue  : BOOLEAN,
     isDeleted  : BOOLEAN]

(* @IsOptional() also lets an explicit null through for every property.    *)
UpdateTicketDto ==
    [status     : TicketStatus   \cup {Undefined, Null},
     priority   : TicketPriority \cup {Undefined, Null},
     assigneeId : UserId         \cup {Undefined, Null},
     dueDate    : DueDate        \cup {Undefined, Null}]

-----------------------------------------------------------------------------
(* Mutant: a move back by a single column goes through.                    *)
MovesBackFar(row, dto) ==
    /\ dto.status \in TicketStatus
    /\ STATUS_ORDER[dto.status] + 1 < STATUS_ORDER[row.status]

(* STATUS_ORDER[null] is undefined, and undefined < n is false: a null     *)
(* status is not refused here but by the NOT NULL column it is written to. *)
MovesBack(row, dto) ==
    /\ dto.status \in TicketStatus
    /\ STATUS_ORDER[dto.status] < STATUS_ORDER[row.status]

(* Mutant: a nullable status column.                                       *)
StorableNullStatus(dto) ==
    /\ dto.priority # Null
    /\ dto.assigneeId \in User \cup {Undefined, Null}

(* Whether PostgreSQL accepts the UPDATE: status and priority are NOT NULL *)
(* columns, assigneeId is a foreign key (which a soft-deleted user meets). *)
Storable(dto) ==
    /\ dto.status # Null
    /\ dto.priority # Null
    /\ dto.assigneeId \in User \cup {Undefined, Null}

(* The value of a column after the update: only what was sent is written.  *)
Sent(new, old) == IF new = Undefined THEN old ELSE new

(* Mutant: a manual priority leaves the flag alone.                        *)
OverdueKept(row, dto) == row.isOverdue

(* Sending a priority, whatever its value, resets isOverdue.               *)
OverdueAfter(row, dto) == row.isOverdue /\ dto.priority = Undefined

Patched(row, dto) ==
    [row EXCEPT
        !.status     = Sent(dto.status, @),
        !.priority   = Sent(dto.priority, @),
        !.assigneeId = Sent(dto.assigneeId, @),
        !.dueDate    = Sent(dto.dueDate, @),
        !.isOverdue  = OverdueAfter(row, dto)]
=============================================================================
