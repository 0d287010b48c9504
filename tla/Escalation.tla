----------------------------- MODULE Escalation -----------------------------
(* The escalation cron (TicketsEscalationService.escalate) running against *)
(* the PATCH handlers of Tickets.  A run reads the overdue tickets once,   *)
(* then promotes them one awaited UPDATE at a time from what it read; it   *)
(* takes no lock between the two.  Two runs do not overlap: they start     *)
(* twelve hours apart.                                                     *)
EXTENDS Tickets

CONSTANT MaxFailures    \* bound: runs cut short by an error or a crash

ASSUME EscalationAssumption == MaxFailures \in Nat

VARIABLES
    running,        \* whether a run is under way
    batch,          \* the priority the run read of each ticket it has yet to promote
    escalated,      \* the ticket promoted last, until its audit entry is written
    failures        \* runs cut short so far

run == <<running, batch, escalated, failures>>
all == <<vars, run>>

EmptyBatch == [t \in Ticket |-> Null]

EscalationTypeOK ==
    /\ TypeOK
    /\ running \in BOOLEAN
    /\ batch \in [Ticket -> DOMAIN PRIORITY_PROMOTION \cup {Null}]
    /\ escalated \in Ticket \cup {Null}
    /\ failures \in 0 .. MaxFailures

EscalationInit ==
    /\ Init
    /\ running = FALSE
    /\ batch = EmptyBatch
    /\ escalated = Null
    /\ failures = 0

-----------------------------------------------------------------------------
(* A NULL due date compares as NULL and is left out.                       *)
Overdue(t) ==
    /\ ~tickets[t].isDeleted
    /\ tickets[t].status # "DONE"
    /\ tickets[t].dueDate = "past"

(* Mutants: the loop does not continue past CRITICAL; the map stops a      *)
(* level short.                                                            *)
MayPromoteAny(t) == TRUE

MayPromoteBelowHigh(t) == tickets[t].priority \in {"LOW", "MEDIUM"}

(* CRITICAL has no promotion and is passed over by the loop.               *)
MayPromote(t) == tickets[t].priority \in DOMAIN PRIORITY_PROMOTION

(* The SELECT at the top of a run.                                         *)
ReadOverdue ==
    /\ ~running
    /\ PoolHasFree
    /\ running' = TRUE
    /\ batch' = [t \in Ticket |->
           IF Overdue(t) /\ MayPromote(t) THEN tickets[t].priority ELSE Null]
    /\ UNCHANGED <<vars, escalated, failures>>

Promoted(priority) == PRIORITY_PROMOTION[priority]

(* Mutant: the flag goes up with every promotion.                          *)
EscalatedFlagged(row, priority) ==
    [row EXCEPT !.priority = Promoted(priority), !.isOverdue = TRUE]

(* The columns the UPDATE of the loop writes.                              *)
Escalated(row, priority) ==
    [row EXCEPT !.priority = Promoted(priority),
                !.isOverdue = @ \/ Promoted(priority) = "CRITICAL"]

(* One turn of the loop: writes what the row read earlier calls for to the *)
(* row as it is now, once nobody holds its lock.                           *)
Escalate(t) ==
    /\ running
    /\ escalated = Null
    /\ batch[t] # Null
    /\ PoolHasFree
    /\ ~Locked(t)
    /\ tickets' = [tickets EXCEPT ![t] = Escalated(@, batch[t])]
    /\ batch' = [batch EXCEPT ![t] = Null]
    /\ escalated' = t
    /\ UNCHANGED <<dependencies, session, request, record, call, running, failures>>

EscalateEntry(t) == [action |-> "ESCALATE", entityId |-> t, performedBy |-> Null]

AuditEscalation ==
    /\ escalated # Null
    /\ PoolHasFree
    /\ auditLog' = auditLog \cup {EscalateEntry(escalated)}
    /\ escalated' = Null
    /\ UNCHANGED <<tables, session, request, updated, call, running, batch, failures>>

EndRun ==
    /\ running
    /\ escalated = Null
    /\ batch = EmptyBatch
    /\ running' = FALSE
    /\ UNCHANGED <<vars, batch, escalated, failures>>

Abort ==
    /\ failures < MaxFailures
    /\ failures' = failures + 1
    /\ running' = FALSE
    /\ batch' = EmptyBatch
    /\ escalated' = Null

(* A failing call of the loop leaves escalate(): the rest waits for the    *)
(* next run.                                                               *)
EscalateFails == running /\ Abort /\ UNCHANGED vars

(* The clock reaches a due date; no row is written.                        *)
DueDatePasses(t) ==
    /\ tickets[t].dueDate = "future"
    /\ tickets' = [tickets EXCEPT ![t].dueDate = "past"]
    /\ UNCHANGED <<dependencies, session, request, record, call, run>>

RunStep ==
    \/ ReadOverdue
    \/ \E t \in Ticket : Escalate(t)
    \/ AuditEscalation
    \/ EndRun

EscalationNext ==
    \/ Step /\ UNCHANGED run
    \/ RunStep
    \/ EscalateFails
    \/ Crash /\ Abort
    \/ \E t \in Ticket : DueDatePasses(t)

EscalationSpec == EscalationInit /\ [][EscalationNext]_all

(* The scheduler starts the next run, a run goes on, and so do handlers.   *)
EscalationFairSpec ==
    /\ EscalationSpec
    /\ WF_all(RunStep)
    /\ \A r \in Request : WF_all(Handle(r) /\ UNCHANGED run)

-----------------------------------------------------------------------------
(* The flag and the priority agree although a run writes them from an old  *)
(* read: only a CRITICAL ticket is ever flagged overdue, whatever priority *)
(* was set by hand between the SELECT and the UPDATE.                      *)
OverdueOnlyCritical ==
    \A t \in Ticket : tickets[t].isOverdue => tickets[t].priority = "CRITICAL"

Board == INSTANCE EscalatedLifecycle

(* With the cron running, a PATCH still takes effect at one instant, with  *)
(* all its rules, and an UPDATE of a run leaves the flag up exactly if it  *)
(* sets CRITICAL, and never takes a flagged ticket down, although the run  *)
(* decided on it before.  A ticket without the flag it may take down: that *)
(* is where EscalatesByTheRules fails.                                     *)
PatchAndCronAtomic == Board!EscalatedSpec

(* A ticket that stays overdue reaches CRITICAL, through runs cut short,   *)
(* held row locks and priorities lowered by hand in the meantime.          *)
OverdueReachesCritical ==
    \A t \in Ticket :
        <>[]Overdue(t) => <>[](tickets[t].priority = "CRITICAL")

(* "Only non-deleted, non-DONE tickets with a dueDate in the past are      *)
(* affected. Priority is promoted one level" (tickets-escalation.service   *)
(* .ts:6-7): true of the ticket at the moment it is escalated.             *)
EscalatesByTheRules ==
    [][\A t \in Ticket : Escalate(t) =>
          /\ Overdue(t)
          /\ Ladder[tickets'[t].priority] = Ladder[tickets[t].priority] + 1]_all
=============================================================================
