-------------------------- MODULE EscalationProofs --------------------------
(* Proofs about the escalation cron, for every board and every number of   *)
(* PATCH requests around it.                                               *)
EXTENDS Escalation, TicketsProofs

(* What the flag and a pending promotion of one ticket may be.             *)
FlagSound(t) ==
    /\ tickets[t].isOverdue => tickets[t].priority = "CRITICAL"
    /\ batch[t] \in {"LOW", "MEDIUM"} => ~tickets[t].isOverdue

(* The inductive invariant.  The second conjunct of FlagSound is what an   *)
(* UPDATE written from an old read needs: a run that read LOW or MEDIUM    *)
(* finds the flag down, because nobody but that same run can raise it.     *)
CronInv == EscalationTypeOK /\ \A t \in Ticket : FlagSound(t)

LEMMA EscalatedIsRow ==
    ASSUME NEW row \in TicketRow, NEW p \in DOMAIN PRIORITY_PROMOTION
    PROVE  /\ Escalated(row, p) \in TicketRow
           /\ Escalated(row, p).priority = Promoted(p)
           /\ Escalated(row, p).isOverdue = (row.isOverdue \/ Promoted(p) = "CRITICAL")
           /\ Promoted(p) = "CRITICAL" <=> p = "HIGH"
<1>1. p \in {"LOW", "MEDIUM", "HIGH"}
    BY DEF PRIORITY_PROMOTION
<1>2. Promoted(p) \in TicketPriority /\ (Promoted(p) = "CRITICAL" <=> p = "HIGH")
    BY <1>1 DEF Promoted, PRIORITY_PROMOTION, TicketPriority
<1>3. (row.isOverdue \/ Promoted(p) = "CRITICAL") \in BOOLEAN
    OBVIOUS
<1> QED
    BY <1>2, <1>3 DEF Escalated, TicketRow

LEMMA DueIsRow ==
    ASSUME NEW row \in TicketRow
    PROVE  /\ [row EXCEPT !.dueDate = "past"] \in TicketRow
           /\ [row EXCEPT !.dueDate = "past"].priority = row.priority
           /\ [row EXCEPT !.dueDate = "past"].isOverdue = row.isOverdue
BY DEF TicketRow, DueDate

(* A PATCH that leaves the flag up leaves the priority alone.              *)
LEMMA PatchedFlag ==
    ASSUME NEW row \in TicketRow, NEW dto \in UpdateTicketDto
    PROVE  Patched(row, dto).isOverdue =>
               row.isOverdue /\ Patched(row, dto).priority = row.priority
BY DEF Patched, OverdueAfter, Sent, TicketRow

LEMMA FlaggedKeeps ==
    ASSUME NEW row \in TicketRow, NEW flag \in BOOLEAN
    PROVE  /\ [row EXCEPT !.isDeleted = flag].priority = row.priority
           /\ [row EXCEPT !.isDeleted = flag].isOverdue = row.isOverdue
BY DEF TicketRow

LEMMA InitCronInv == EscalationInit => CronInv
<1> SUFFICES ASSUME EscalationInit
             PROVE  CronInv
    OBVIOUS
<1>1. TypeOK
    BY InitTypeOK DEF EscalationInit
<1>2. \A t \in Ticket : ~tickets[t].isOverdue
    BY TicketsAssumption DEF EscalationInit, Init
<1>3. failures \in 0 .. MaxFailures
    BY EscalationAssumption DEF EscalationInit
<1> QED
    BY <1>1, <1>2, <1>3 DEF CronInv, EscalationTypeOK, FlagSound, EscalationInit, EmptyBatch, Null

(* The steps of Tickets never raise the flag, and lower the priority of a  *)
(* flagged ticket only together with the flag.                             *)
LEMMA StepCronInv ==
    ASSUME CronInv, Step \/ Crash, TypeOK', EscalationTypeOK',
           batch' = batch \/ batch' = EmptyBatch
    PROVE  CronInv'
<1> USE DEF CronInv, EscalationTypeOK
<1>1. ASSUME NEW t \in Ticket
      PROVE  tickets'[t].isOverdue => tickets[t].isOverdue /\ tickets'[t].priority = tickets[t].priority
    <2>0. tickets[t] \in TicketRow
        BY DEF TypeOK
    <2>1. ASSUME NEW r \in Request, Commit(r)
          PROVE  tickets'[t].isOverdue => tickets[t].isOverdue /\ tickets'[t].priority = tickets[t].priority
        <3>1. Body(r) \in UpdateTicketDto
            BY TicketsAssumption DEF TypeOK, Body
        <3>2. CASE t = Id(r)
            BY <2>0, <2>1, <3>1, <3>2, PatchedFlag DEF Commit, TypeOK
        <3>3. CASE t # Id(r)
            BY <2>1, <3>3 DEF Commit, TypeOK
        <3> QED
            BY <3>2, <3>3
    <2>2. ASSUME NEW u \in Ticket, NEW flag \in BOOLEAN,
                 tickets' = [tickets EXCEPT ![u] = [tickets[u] EXCEPT !.isDeleted = flag]]
          PROVE  tickets'[t].isOverdue => tickets[t].isOverdue /\ tickets'[t].priority = tickets[t].priority
        BY <2>0, <2>2, FlaggedKeeps DEF TypeOK
    <2> QED
        BY <2>1, <2>2, WhoWritesTickets DEF Next
<1>2. ASSUME NEW t \in Ticket
      PROVE  FlagSound(t)'
    BY <1>1, <1>2 DEF FlagSound, EmptyBatch, Null
<1> QED
    BY <1>2

LEMMA AbortTypes ==
    ASSUME EscalationTypeOK, Abort
    PROVE  /\ running' \in BOOLEAN
           /\ batch' \in [Ticket -> DOMAIN PRIORITY_PROMOTION \cup {Null}]
           /\ escalated' \in Ticket \cup {Null}
           /\ failures' \in 0 .. MaxFailures
<1>1. failures' \in 0 .. MaxFailures
    <2>1. failures \in Nat /\ failures < MaxFailures /\ failures' = failures + 1
        BY DEF EscalationTypeOK, Abort
    <2> QED
        BY <2>1, EscalationAssumption
<1> QED
    BY <1>1 DEF Abort, EmptyBatch

LEMMA NextEscalationTypeOK ==
    ASSUME EscalationTypeOK, [EscalationNext]_all
    PROVE  EscalationTypeOK'
<1> USE DEF EscalationTypeOK
<1>1. CASE Step /\ UNCHANGED run
    BY <1>1, NextTypeOK DEF Next, run
<1>2. CASE Crash /\ Abort
    BY <1>2, NextTypeOK, AbortTypes DEF Next
<1>3. CASE EscalateFails
    <2>1. TypeOK'
        BY <1>3, NextTypeOK DEF EscalateFails
    <2> QED
        BY <1>3, <2>1, AbortTypes DEF EscalateFails
<1>4. CASE ReadOverdue \/ EndRun
    <2>1. TypeOK'
        BY <1>4, NextTypeOK DEF ReadOverdue, EndRun
    <2> QED
        BY <1>4, <2>1 DEF ReadOverdue, EndRun, MayPromote
<1>5. ASSUME NEW t \in Ticket, Escalate(t)
      PROVE  EscalationTypeOK'
    <2>1. tickets' \in [Ticket -> TicketRow]
        BY <1>5, EscalatedIsRow DEF Escalate, TypeOK
    <2>2. TypeOK'
        BY <1>5, <2>1 DEF Escalate, TypeOK, session, request, record
    <2> QED
        BY <1>5, <2>2 DEF Escalate
<1>6. CASE AuditEscalation
    <2>1. EscalateEntry(escalated) \in AuditEntry
        BY <1>6, TicketsAssumption DEF AuditEscalation, EscalateEntry, AuditEntry
    <2>2. TypeOK'
        BY <1>6, <2>1 DEF AuditEscalation, TypeOK, tables, session, request
    <2> QED
        BY <1>6, <2>2 DEF AuditEscalation
<1>7. ASSUME NEW t \in Ticket, DueDatePasses(t)
      PROVE  EscalationTypeOK'
    <2>1. tickets' \in [Ticket -> TicketRow]
        BY <1>7, DueIsRow DEF DueDatePasses, TypeOK
    <2> QED
        BY <1>7, <2>1 DEF DueDatePasses, TypeOK, session, request, record, run
<1>8. CASE UNCHANGED all
    BY <1>8, NextTypeOK DEF all, run
<1> QED
    BY <1>1, <1>2, <1>3, <1>4, <1>5, <1>6, <1>7, <1>8 DEF EscalationNext, RunStep

LEMMA NextCronInv ==
    ASSUME CronInv, [EscalationNext]_all
    PROVE  CronInv'
<1> USE DEF CronInv
<1>0. EscalationTypeOK /\ EscalationTypeOK' /\ TypeOK'
    BY NextEscalationTypeOK DEF EscalationTypeOK
<1>1. CASE Step /\ UNCHANGED run
    BY <1>0, <1>1, StepCronInv DEF run
<1>2. CASE Crash /\ Abort
    BY <1>0, <1>2, StepCronInv DEF Abort
<1>3. CASE EscalateFails \/ EndRun \/ AuditEscalation \/ UNCHANGED all
    BY <1>0, <1>3 DEF EscalateFails, Abort, EndRun, AuditEscalation, all, vars, tables, run,
                      FlagSound, EmptyBatch, Null
<1>4. CASE ReadOverdue
    <2>1. ASSUME NEW t \in Ticket
          PROVE  FlagSound(t)'
        BY <1>4, <2>1 DEF ReadOverdue, FlagSound, vars, tables, Null
    <2> QED
        BY <1>0, <2>1
<1>5. ASSUME NEW u \in Ticket, Escalate(u)
      PROVE  CronInv'
    <2>1. ASSUME NEW t \in Ticket
          PROVE  FlagSound(t)'
        <3>0. tickets \in [Ticket -> TicketRow] /\ batch \in [Ticket -> DOMAIN PRIORITY_PROMOTION \cup {Null}]
            BY <1>0 DEF EscalationTypeOK, TypeOK
        <3>1. CASE t # u
            BY <1>5, <3>0, <3>1 DEF Escalate, FlagSound
        <3>2. CASE t = u
            <4>1. batch[t] \in DOMAIN PRIORITY_PROMOTION /\ batch[t] \in {"LOW", "MEDIUM", "HIGH"}
                BY <1>5, <3>0, <3>2 DEF Escalate, PRIORITY_PROMOTION
            <4>2. tickets'[t] = Escalated(tickets[t], batch[t]) /\ batch'[t] = Null
                BY <1>5, <3>0, <3>2 DEF Escalate
            <4>3. /\ tickets'[t].isOverdue = (tickets[t].isOverdue \/ Promoted(batch[t]) = "CRITICAL")
                  /\ tickets'[t].priority = Promoted(batch[t])
                  /\ Promoted(batch[t]) = "CRITICAL" <=> batch[t] = "HIGH"
                BY <3>0, <4>1, <4>2, EscalatedIsRow
            <4> QED
                BY <2>1, <4>1, <4>2, <4>3 DEF FlagSound, Null
        <3> QED
            BY <3>1, <3>2
    <2> QED
        BY <1>0, <2>1
<1>6. ASSUME NEW u \in Ticket, DueDatePasses(u)
      PROVE  CronInv'
    <2>1. ASSUME NEW t \in Ticket
          PROVE  FlagSound(t)'
        BY <1>0, <1>6, <2>1, DueIsRow DEF DueDatePasses, FlagSound, EscalationTypeOK, TypeOK, run
    <2> QED
        BY <1>0, <2>1
<1> QED
    BY <1>1, <1>2, <1>3, <1>4, <1>5, <1>6 DEF EscalationNext, RunStep

(* Only CRITICAL tickets carry the overdue flag, in every reachable state. *)
THEOREM OverdueFlagSound == EscalationSpec => []OverdueOnlyCritical
<1>1. CronInv => OverdueOnlyCritical
    BY DEF CronInv, FlagSound, OverdueOnlyCritical
<1> QED
    BY <1>1, InitCronInv, NextCronInv, PTL DEF EscalationSpec

(* The run, what it read and the tables it writes keep their types.        *)
THEOREM CronTypeCorrect == EscalationSpec => []EscalationTypeOK
<1>1. CronInv => EscalationTypeOK
    BY DEF CronInv
<1> QED
    BY <1>1, InitCronInv, NextCronInv, PTL DEF EscalationSpec

-----------------------------------------------------------------------------
(* The cron beside the PATCH handlers: what it writes, and what it leaves  *)
(* alone.                                                                  *)
CronWrites ==
    /\ UNCHANGED <<dependencies, session, request, updated, call>>
    /\ \A t \in Ticket :
           /\ tickets'[t].status = tickets[t].status
           /\ tickets'[t].isDeleted = tickets[t].isDeleted
    /\ \A r \in Request : UpdateEntry(r) \in auditLog' <=> UpdateEntry(r) \in auditLog

LEMMA EscalatedKeeps ==
    ASSUME NEW row \in TicketRow, NEW p \in DOMAIN PRIORITY_PROMOTION
    PROVE  /\ Escalated(row, p).status = row.status
           /\ Escalated(row, p).isDeleted = row.isDeleted
           /\ [row EXCEPT !.dueDate = "past"].status = row.status
           /\ [row EXCEPT !.dueDate = "past"].isDeleted = row.isDeleted
BY DEF Escalated, TicketRow

(* Every step is one of Tickets or one of the cron.                        *)
LEMMA CronOrTickets ==
    ASSUME EscalationTypeOK, [EscalationNext]_all
    PROVE  [Next]_vars \/ CronWrites
<1> USE DEF EscalationTypeOK
<1>1. CASE (Step /\ UNCHANGED run) \/ (Crash /\ Abort) \/ EscalateFails \/ ReadOverdue \/ EndRun \/ UNCHANGED all
    BY <1>1 DEF Next, EscalateFails, ReadOverdue, EndRun, all
<1>2. ASSUME NEW u \in Ticket, Escalate(u)
      PROVE  CronWrites
    <2>1. batch[u] \in DOMAIN PRIORITY_PROMOTION
        BY <1>2 DEF Escalate
    <2>2. \A t \in Ticket : tickets'[t] = IF t = u THEN Escalated(tickets[u], batch[u]) ELSE tickets[t]
        BY <1>2 DEF Escalate, TypeOK
    <2>3. tickets[u] \in TicketRow
        BY DEF TypeOK
    <2>4. \A t \in Ticket : /\ tickets'[t].status = tickets[t].status
                            /\ tickets'[t].isDeleted = tickets[t].isDeleted
        BY <2>1, <2>2, <2>3, EscalatedKeeps
    <2>5. UNCHANGED <<dependencies, session, request, updated, call, auditLog>>
        BY <1>2 DEF Escalate, record
    <2> QED
        BY <2>4, <2>5 DEF CronWrites, UpdateEntry, Id
<1>3. CASE AuditEscalation
    <2>1. UNCHANGED <<dependencies, session, request, updated, call, tickets>>
        BY <1>3 DEF AuditEscalation, tables
    <2>2. \A r \in Request : UpdateEntry(r) # EscalateEntry(escalated)
        BY DEF UpdateEntry, EscalateEntry
    <2>3. \A r \in Request : UpdateEntry(r)' = UpdateEntry(r)
        BY <2>1 DEF UpdateEntry, Id
    <2>4. \A r \in Request : UpdateEntry(r) \in auditLog' <=> UpdateEntry(r) \in auditLog
        BY <1>3, <2>2 DEF AuditEscalation
    <2> QED
        BY <2>1, <2>4 DEF CronWrites
<1>4. ASSUME NEW u \in Ticket, DueDatePasses(u)
      PROVE  CronWrites
    <2>1. tickets' = [tickets EXCEPT ![u] = [tickets[u] EXCEPT !.dueDate = "past"]]
        BY <1>4 DEF DueDatePasses
    <2>2. \A t \in Ticket : tickets'[t] = IF t = u THEN [tickets[u] EXCEPT !.dueDate = "past"] ELSE tickets[t]
        BY <2>1 DEF TypeOK
    <2>3. tickets[u] \in TicketRow /\ "LOW" \in DOMAIN PRIORITY_PROMOTION
        BY DEF TypeOK, PRIORITY_PROMOTION
    <2>4. \A t \in Ticket : /\ tickets'[t].status = tickets[t].status
                            /\ tickets'[t].isDeleted = tickets[t].isDeleted
      <3>1. /\ [tickets[u] EXCEPT !.dueDate = "past"].status = tickets[u].status
            /\ [tickets[u] EXCEPT !.dueDate = "past"].isDeleted = tickets[u].isDeleted
        BY <2>3, EscalatedKeeps
      <3> QED
        BY <2>2, <3>1
    <2>5. UNCHANGED <<dependencies, session, request, updated, call, auditLog>>
        BY <1>4 DEF DueDatePasses, record
    <2> QED
        BY <2>4, <2>5 DEF CronWrites, UpdateEntry, Id
<1> QED
    BY <1>1, <1>2, <1>3, <1>4 DEF EscalationNext, RunStep

(* What a PATCH read, its phase, and who waits for whom: the cron writes   *)
(* columns that no rule of a PATCH reads.                                  *)
LEMMA CronKeepsReads ==
    ASSUME TypeOK, ReadsStayValid, CronWrites
    PROVE  ReadsStayValid'
<1> SUFFICES ASSUME NEW r \in Request
             PROVE  Valid(r)'
    BY DEF ReadsStayValid, Valid
<1>1. Valid(r)
    BY ValidIsReadsStayValid
<1>2. Id(r) \in Ticket
    BY DEF TypeOK, Id
<1>3. UNCHANGED <<dependencies, lock, pc, todo, call>>
    BY DEF CronWrites, session, request
<1>4. \A t \in Ticket : /\ tickets'[t].status = tickets[t].status
                        /\ tickets'[t].isDeleted = tickets[t].isDeleted
    BY DEF CronWrites
<1>5. Refused(tickets[Id(r)], Body(r))' <=> Refused(tickets[Id(r)], Body(r))
    BY <1>2, <1>3, <1>4 DEF Refused, MovesBack, Id, Body
<1> QED
    BY <1>1, <1>2, <1>3, <1>4, <1>5 DEF Valid, InTransaction, Id, Body, BlockersOf, Resolved

LEMMA CronKeepsSessions ==
    ASSUME TypeOK, Phases, SessionInv, CronWrites
    PROVE  Phases' /\ SessionInv'
<1>1. UNCHANGED <<lock, connections, pc, todo, response, updated, call>>
    BY DEF CronWrites, session, request
<1>2. Phases'
    <2> SUFFICES ASSUME NEW r \in Request
                 PROVE  Phase(r)'
        BY DEF Phases
    <2> QED
        BY <1>1, PhaseKept DEF Phases, CronWrites
<1>3. Leaked' = Leaked
    BY <1>1 DEF Leaked
<1>4. SessionInv'
    BY <1>1, <1>3 DEF SessionInv, Locked
<1> QED
    BY <1>2, <1>4

(* The inductive invariant of the whole: the cron's, and each of Tickets.  *)
BoardInv == CronInv /\ ReadsStayValid /\ Phases /\ SessionInv

LEMMA BoardInvHolds == EscalationSpec => []BoardInv
<1>1. EscalationInit => BoardInv
    BY InitCronInv, InitReadsStayValid, InitPhases, InitSessionInv DEF EscalationInit, BoardInv
<1>2. ASSUME BoardInv, [EscalationNext]_all
      PROVE  BoardInv'
    <2>1. CronInv'
        BY <1>2, NextCronInv DEF BoardInv
    <2>2. EscalationTypeOK /\ TypeOK
        BY <1>2 DEF BoardInv, CronInv, EscalationTypeOK
    <2>3. ASSUME [Next]_vars
          PROVE  ReadsStayValid' /\ Phases' /\ SessionInv'
        BY <1>2, <2>2, <2>3, NextReadsStayValid, NextPhases, NextSessionInv DEF BoardInv
    <2>4. ASSUME CronWrites
          PROVE  ReadsStayValid' /\ Phases' /\ SessionInv'
        BY <1>2, <2>2, <2>4, CronKeepsReads, CronKeepsSessions DEF BoardInv
    <2> QED
        BY <1>2, <2>1, <2>2, <2>3, <2>4, CronOrTickets DEF BoardInv
<1> QED
    BY <1>1, <1>2, PTL DEF EscalationSpec

(* The cron, which takes no lock, makes no read of a PATCH stale.          *)
THEOREM ReadsStayValidWithCron == EscalationSpec => []ReadsStayValid
BY BoardInvHolds, PTL DEF BoardInv

(* Nor does it make a circle of waiting requests: it waits for the pool    *)
(* and for row locks one statement at a time, and holds neither.           *)
THEOREM NoCircularWaitWithCron == EscalationSpec => []HoldersNeverWait
<1>1. BoardInv => HoldersNeverWait
    BY SessionHolds DEF BoardInv, CronInv, EscalationTypeOK
<1> QED
    BY <1>1, BoardInvHolds, PTL

(* A run waits for connections of the same pool and for the same locks,   *)
(* and still somebody can always go on.                                    *)
THEOREM NoStandstillWithCron ==
    ASSUME MaxLeaks < PoolSize
    PROVE  EscalationSpec => []SomebodyGoesOn
<1>1. BoardInv => SomebodyGoesOn
    BY SomebodyCanGoOn DEF BoardInv, CronInv, EscalationTypeOK
<1> QED
    BY <1>1, BoardInvHolds, PTL

(* The entries of the cron are not mistaken for those of a PATCH.          *)
THEOREM AnswersMatchEffectsWithCron == EscalationSpec => []AnswerMatchesEffect
<1>1. BoardInv => AnswerMatchesEffect
    BY PhasesHold DEF BoardInv, CronInv, EscalationTypeOK
<1> QED
    BY <1>1, BoardInvHolds, PTL

(* A run that lasts while tickets are patched neither moves a status nor   *)
(* lets a blocked ticket become DONE.                                      *)
THEOREM StatusRulesWithCron == EscalationSpec => DoneOnlyWhenUnblocked /\ StatusMovesForward
<1>1. ASSUME BoardInv, [EscalationNext]_all, NEW t \in Ticket
      PROVE  /\ STATUS_ORDER[tickets[t].status] <= STATUS_ORDER[tickets'[t].status]
             /\ tickets[t].status # "DONE" /\ tickets'[t].status = "DONE"
                    => \A b \in BlockersOf(t) : Resolved(b)
    <2>1. IInv
        BY <1>1 DEF BoardInv, CronInv, EscalationTypeOK, IInv
    <2>2. CASE [Next]_vars
        BY <2>1, <2>2, DoneStep, StatusStep
    <2>3. CASE CronWrites
        <3>1. tickets'[t].status = tickets[t].status
            BY <2>3 DEF CronWrites
        <3>2. STATUS_ORDER[tickets[t].status] \in Nat
            BY <2>1 DEF IInv, TypeOK, TicketRow, TicketStatus, STATUS_ORDER
        <3> QED
            BY <3>1, <3>2
    <2> QED
        BY <1>1, <2>2, <2>3, CronOrTickets DEF BoardInv, CronInv
<1>2. BoardInv /\ [EscalationNext]_all =>
          [\A t \in Ticket :
              tickets[t].status # "DONE" /\ tickets'[t].status = "DONE"
                  => \A b \in BlockersOf(t) : Resolved(b)]_vars
    BY <1>1
<1>3. BoardInv /\ [EscalationNext]_all =>
          [\A t \in Ticket :
              STATUS_ORDER[tickets[t].status] <= STATUS_ORDER[tickets'[t].status]]_vars
    BY <1>1
<1> QED
    BY <1>2, <1>3, BoardInvHolds, PTL DEF EscalationSpec, DoneOnlyWhenUnblocked, StatusMovesForward

-----------------------------------------------------------------------------
(* The refinement: PATCH as without the cron, and the writes of the cron.  *)
LEMMA BoardStep == Lifecycle!Next => Board!Next
<1> USE DEF Lifecycle!MovesBack, Board!MovesBack, Lifecycle!TicketStatus, Board!TicketStatus,
            Lifecycle!STATUS_ORDER, Board!STATUS_ORDER, Lifecycle!Storable, Board!Storable,
            Lifecycle!Undefined, Board!Undefined, Lifecycle!Null, Board!Null
<1>1. ASSUME NEW t \in Ticket, NEW dto \in Dto, Lifecycle!Patch(t, dto)
      PROVE  Board!Patch(t, dto)
    <2>1. Lifecycle!Patched(tickets[t], dto) = Board!Patched(tickets[t], dto)
        BY DEF Lifecycle!Patched, Board!Patched, Lifecycle!Sent, Board!Sent,
               Lifecycle!OverdueAfter, Board!OverdueAfter
    <2>2. Lifecycle!UnresolvedBlockers(t) = Board!UnresolvedBlockers(t)
        BY DEF Lifecycle!UnresolvedBlockers, Board!UnresolvedBlockers
    <2>3. tickets' = [tickets EXCEPT ![t] = Board!Patched(tickets[t], dto)]
        BY <1>1, <2>1 DEF Lifecycle!Patch
    <2> QED
        BY <1>1, <2>2, <2>3 DEF Lifecycle!Patch, Board!Patch
<1>2. ASSUME NEW t \in Ticket, Lifecycle!Remove(t) \/ Lifecycle!Restore(t)
      PROVE  Board!Remove(t) \/ Board!Restore(t)
    BY <1>2 DEF Lifecycle!Remove, Lifecycle!Restore, Board!Remove, Board!Restore
<1>3. ASSUME NEW t \in Ticket, NEW b \in Ticket, Lifecycle!Link(t, b) \/ Lifecycle!Unlink(t, b)
      PROVE  Board!Link(t, b) \/ Board!Unlink(t, b)
    BY <1>3 DEF Lifecycle!Link, Lifecycle!Unlink, Board!Link, Board!Unlink
<1> QED
    BY <1>1, <1>2, <1>3 DEF Lifecycle!Next, Board!Next

(* The UPDATE of a run never takes a flagged row down: a pending LOW       *)
(* or MEDIUM finds the flag down (FlagSound), a pending HIGH raises it.    *)
LEMMA EscalateIsOverwrite ==
    ASSUME CronInv, NEW t \in Ticket, Escalate(t)
    PROVE  Board!Overwrite(t, Promoted(batch[t])) /\ Promoted(batch[t]) \in Board!Promotions
<1>1. /\ batch[t] \in DOMAIN PRIORITY_PROMOTION /\ batch[t] \in {"LOW", "MEDIUM", "HIGH"}
      /\ tickets[t] \in TicketRow
    BY DEF CronInv, EscalationTypeOK, TypeOK, Escalate, PRIORITY_PROMOTION
<1>2. Promoted(batch[t]) = "CRITICAL" <=> batch[t] = "HIGH"
    BY <1>1, EscalatedIsRow
<1>3. tickets[t].isOverdue => Promoted(batch[t]) = "CRITICAL"
    BY <1>1, <1>2 DEF CronInv, FlagSound
<1>4. (tickets[t].isOverdue \/ Promoted(batch[t]) = "CRITICAL") = (Promoted(batch[t]) = "CRITICAL")
    BY <1>3
<1>5. tickets' = [tickets EXCEPT ![t] = Escalated(tickets[t], batch[t])]
    BY DEF Escalate
<1>6. Escalated(tickets[t], batch[t]) =
          [tickets[t] EXCEPT !.priority = Promoted(batch[t]),
                             !.isOverdue = (Promoted(batch[t]) = "CRITICAL")]
    BY <1>4 DEF Escalated
<1>7. Board!Overwrite(t, Promoted(batch[t]))
    BY <1>3, <1>5, <1>6 DEF Board!Overwrite, Escalate
<1>8. Promoted(batch[t]) \in Board!Promotions
    BY <1>1 DEF Promoted, PRIORITY_PROMOTION, Board!Promotions, Board!PRIORITY_PROMOTION
<1> QED
    BY <1>7, <1>8

(* With the cron beside it the PATCH is as atomic as alone; and a write of *)
(* the cron, stale or not, leaves the flag up exactly if it sets CRITICAL  *)
(* and keeps a flagged ticket there.  Other tickets it may take down.      *)
THEOREM BoardIsAtomic == EscalationSpec => PatchAndCronAtomic
<1>1. EscalationInit => Board!Init
    BY DEF EscalationInit, Init, Board!Init
<1>2. ASSUME BoardInv, [EscalationNext]_all
      PROVE  [Board!EscalatedNext]_(Board!vars)
    <2>0. CronInv /\ EscalationTypeOK /\ IInv
        BY <1>2 DEF BoardInv, CronInv, EscalationTypeOK, IInv
    <2>1. CASE [Next]_vars
        <3>1. [Lifecycle!Next]_(Lifecycle!vars)
            BY <2>0, <2>1, LifecycleStep
        <3> QED
            BY <3>1, BoardStep DEF Lifecycle!vars, Board!vars, Board!EscalatedNext
    <2>2. ASSUME NEW t \in Ticket, Escalate(t)
          PROVE  Board!EscalatedNext
        BY <2>0, <2>2, EscalateIsOverwrite DEF Board!EscalatedNext
    <2>3. ASSUME NEW t \in Ticket, DueDatePasses(t)
          PROVE  Board!EscalatedNext
        <3>1. Board!ComeDue(t)
            BY <2>3 DEF DueDatePasses, Board!ComeDue
        <3> QED
            BY <3>1 DEF Board!EscalatedNext
    <2>4. CASE ReadOverdue \/ EndRun \/ EscalateFails \/ AuditEscalation \/ UNCHANGED all
        BY <2>4 DEF ReadOverdue, EndRun, EscalateFails, AuditEscalation, all, vars, tables, Board!vars
    <2>5. (Step /\ UNCHANGED run) \/ (Crash /\ Abort) => [Next]_vars
        BY DEF Next
    <2> QED
        BY <1>2, <2>1, <2>2, <2>3, <2>4, <2>5 DEF EscalationNext, RunStep
<1> QED
    BY <1>1, <1>2, BoardInvHolds, PTL DEF EscalationSpec, PatchAndCronAtomic, Board!EscalatedSpec
=============================================================================
