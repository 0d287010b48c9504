------------------------------ MODULE Tickets ------------------------------
(* PATCH /tickets/:id (TicketsService.update) against PostgreSQL: one      *)
(* action per awaited call, any number of requests interleaved with each   *)
(* other and with the autocommit statements other handlers send to the     *)
(* same tables.  The database runs READ COMMITTED: a statement sees what   *)
(* is committed when it starts, and SELECT .. FOR UPDATE waits for the row *)
(* lock and re-reads the row once it has it.                               *)
EXTENDS TicketRules, FiniteSets

CONSTANTS
    Ticket,     \* ids of the rows of "tickets"
    Request,    \* the PATCH requests clients send; each is sent once
    NewTicket,  \* the rows POST /tickets may have created
    Dto,        \* the bodies clients send
    PoolSize,   \* connections of the pg pool (10 by default)
    MaxLeaks,   \* bound: connections a failing BEGIN may keep for ever
    Nobody      \* the holder of a row that is not locked

ASSUME TicketsAssumption ==
    /\ NewTicket \subseteq {row \in TicketRow : ~row.isOverdue /\ ~row.isDeleted}
    /\ Dto \subseteq UpdateTicketDto
    /\ PoolSize \in Nat \ {0}
    /\ MaxLeaks \in Nat
    /\ Nobody \notin Request

VARIABLES
    tickets,        \* the table "tickets"
    dependencies,   \* the table "ticket_dependencies": pairs <<ticketId, blockerId>>
    lock,           \* who holds the FOR UPDATE lock of each row
    connections,    \* the requests that hold a connection of the pool
    call,           \* the arguments of each request
    pc,             \* the next step of each request
    todo,           \* blockers the loop of a request has yet to look up
    response,       \* what each request will be, or has been, answered
    updated,        \* the requests whose transaction committed (history)
    auditLog        \* the table "audit_logs"

tables  == <<tickets, dependencies>>
session == <<lock, connections>>
request == <<pc, todo, response>>
record  == <<updated, auditLog>>
vars    == <<tables, session, request, record, call>>

Pc == {"idle", "connecting", "locking", "reading", "checking", "rollback",
       "releasing", "auditing", "done"}

Response == {"none", "200", "400", "404", "409", "500", "lost"}

AuditEntry ==
    [action : {"UPDATE", "ESCALATE"}, entityId : Ticket,
     performedBy : Request \cup {Null}]

TypeOK ==
    /\ tickets \in [Ticket -> TicketRow]
    /\ dependencies \subseteq Ticket \X Ticket
    /\ lock \in [Ticket -> Request \cup {Nobody}]
    /\ connections \subseteq Request
    /\ call \in [Request -> [id : Ticket, dto : Dto]]
    /\ pc \in [Request -> Pc]
    /\ todo \in [Request -> SUBSET Ticket]
    /\ response \in [Request -> Response]
    /\ updated \subseteq Request
    /\ auditLog \subseteq AuditEntry

Init ==
    /\ tickets \in [Ticket -> NewTicket]
    /\ dependencies = {}
    /\ lock = [t \in Ticket |-> Nobody]
    /\ connections = {}
    /\ call \in [Request -> [id : Ticket, dto : Dto]]
    /\ pc = [r \in Request |-> "idle"]
    /\ todo = [r \in Request |-> {}]
    /\ response = [r \in Request |-> "none"]
    /\ updated = {}
    /\ auditLog = {}

-----------------------------------------------------------------------------
(* Steps of a handler.                                                     *)

Id(r)  == call[r].id
Body(r) == call[r].dto

GoTo(r, step) == pc' = [pc EXCEPT ![r] = step]

Answer(r, code) == response' = [response EXCEPT ![r] = code]

Locked(t) == lock[t] # Nobody

(* Mutant: findOne without the pessimistic_write option.                   *)
LockRowNot(r) == UNCHANGED lock

LockRow(r) == lock' = [lock EXCEPT ![Id(r)] = r]

Unlocked(r) == [t \in Ticket |-> IF lock[t] = r THEN Nobody ELSE lock[t]]

PoolHasFree == Cardinality(connections) < PoolSize

Leaked == {r \in connections : pc[r] = "done"}

(* The request reaches the handler.                                        *)
Arrive(r) ==
    /\ pc[r] = "idle"
    /\ GoTo(r, "connecting")
    /\ UNCHANGED <<tables, session, todo, response, record, call>>

(* createQueryRunner, connect, startTransaction: waits for the pool.       *)
Connect(r) ==
    /\ pc[r] = "connecting"
    /\ PoolHasFree
    /\ connections' = connections \cup {r}
    /\ GoTo(r, "locking")
    /\ UNCHANGED <<tables, lock, todo, response, record, call>>

(* connect and startTransaction are outside the try: when BEGIN is refused *)
(* the exception leaves without finally, and nobody releases the runner.   *)
BeginFails(r) ==
    /\ pc[r] = "connecting"
    /\ PoolHasFree
    /\ Cardinality(Leaked) < MaxLeaks
    /\ connections' = connections \cup {r}
    /\ Answer(r, "500")
    /\ GoTo(r, "done")
    /\ UNCHANGED <<tables, lock, todo, record, call>>

(* An exception inside the try: the catch rolls back before it rethrows.   *)
Throw(r, code) ==
    /\ Answer(r, code)
    /\ GoTo(r, "rollback")
    /\ todo' = [todo EXCEPT ![r] = {}]

(* Mutant: the isDeleted = false of the WHERE clause is forgotten.         *)
LiveAlways(t) == TRUE

Live(t) == ~tickets[t].isDeleted

(* No live row matches the SELECT .. FOR UPDATE.                           *)
FindNothing(r) ==
    /\ pc[r] = "locking"
    /\ ~Locked(Id(r))
    /\ ~Live(Id(r))
    /\ Throw(r, "404")
    /\ UNCHANGED <<tables, session, record, call>>

(* Mutant: a DONE ticket is refused only a move back.                      *)
RefusedMoveBackOnly(row, dto) == MovesBack(row, dto)

Refused(row, dto) ==
    \/ row.status = "DONE"
    \/ MovesBack(row, dto)

(* The row is locked and breaks a rule that needs no other row.            *)
FindRefused(r) ==
    /\ pc[r] = "locking"
    /\ ~Locked(Id(r))
    /\ Live(Id(r))
    /\ Refused(tickets[Id(r)], Body(r))
    /\ LockRow(r)
    /\ Throw(r, "400")
    /\ UNCHANGED <<tables, connections, record, call>>

(* Mutant: nobody asks for the blockers.                                   *)
AfterFindUnchecked(r) == "checking"

(* The blockers matter only for a move to DONE.                            *)
AfterFind(r) == IF Body(r).status = "DONE" THEN "reading" ELSE "checking"

FindForUpdate(r) ==
    /\ pc[r] = "locking"
    /\ ~Locked(Id(r))
    /\ Live(Id(r))
    /\ ~Refused(tickets[Id(r)], Body(r))
    /\ LockRow(r)
    /\ GoTo(r, AfterFind(r))
    /\ UNCHANGED <<tables, connections, todo, response, record, call>>

(* 55P03 after five seconds of waiting for somebody else's row lock.       *)
LockTimeout(r) ==
    /\ pc[r] = "locking"
    /\ Locked(Id(r))
    /\ Throw(r, "409")
    /\ UNCHANGED <<tables, session, record, call>>

BlockersOf(t) == {b \in Ticket : <<t, b>> \in dependencies}

ReadDependencies(r) ==
    /\ pc[r] = "reading"
    /\ todo' = [todo EXCEPT ![r] = BlockersOf(Id(r))]
    /\ GoTo(r, "checking")
    /\ UNCHANGED <<tables, session, response, record, call>>

(* A blocker resolves by its status alone, soft-deleted or not.            *)
Resolved(b) == tickets[b].status = "DONE"

(* Mutant: the loop leaves at the first blocker that is DONE.              *)
NothingLeft(todos, b) == {}

(* What the loop has left after b.                                         *)
LeftAfter(todos, b) == todos \ {b}

BlockerResolved(r) ==
    /\ pc[r] = "checking"
    /\ \E b \in todo[r] :
           /\ Resolved(b)
           /\ todo' = [todo EXCEPT ![r] = LeftAfter(@, b)]
    /\ UNCHANGED <<tables, session, pc, response, record, call>>

BlockerUnresolved(r) ==
    /\ pc[r] = "checking"
    /\ \E b \in todo[r] : ~Resolved(b)
    /\ Throw(r, "400")
    /\ UNCHANGED <<tables, session, record, call>>

(* UPDATE and COMMIT: only the columns sent are written, to the row as it  *)
(* is now, and the commit gives up the row lock.                           *)
Commit(r) ==
    /\ pc[r] = "checking"
    /\ todo[r] = {}
    /\ Storable(Body(r))
    /\ tickets' = [tickets EXCEPT ![Id(r)] = Patched(@, Body(r))]
    /\ lock' = Unlocked(r)
    /\ updated' = updated \cup {r}
    /\ GoTo(r, "releasing")
    /\ UNCHANGED <<dependencies, connections, todo, response, auditLog, call>>

(* A constraint of the table refuses the UPDATE: no filter maps the error. *)
UpdateRefused(r) ==
    /\ pc[r] = "checking"
    /\ todo[r] = {}
    /\ ~Storable(Body(r))
    /\ Throw(r, "500")
    /\ UNCHANGED <<tables, session, record, call>>

(* Any statement of the transaction may fail for reasons of its own.       *)
QueryFails(r) ==
    /\ pc[r] \in {"locking", "reading", "checking"}
    /\ Throw(r, "500")
    /\ UNCHANGED <<tables, session, record, call>>

Rollback(r) ==
    /\ pc[r] = "rollback"
    /\ lock' = Unlocked(r)
    /\ GoTo(r, "releasing")
    /\ UNCHANGED <<tables, connections, todo, response, record, call>>

(* Mutant: the catch maps lock timeouts and forgets to rethrow the rest.   *)
AfterFinallySwallowed(r) == "auditing"

(* What follows finally: an error is rethrown, a success goes on to the    *)
(* audit log.                                                              *)
AfterFinally(r) == IF response[r] = "none" THEN "auditing" ELSE "done"

(* Mutant: release() at the end of the try instead of in a finally.        *)
ConnectionsAfterTry(r) ==
    IF response[r] = "none" THEN connections \ {r} ELSE connections

(* Mutant: a success keeps its connection until its audit entry is written.*)
ConnectionsWhileAuditing(r) ==
    IF response[r] = "none" THEN connections ELSE connections \ {r}

ConnectionsAfter(r) == connections \ {r}

Release(r) ==
    /\ pc[r] = "releasing"
    /\ connections' = ConnectionsAfter(r)
    /\ GoTo(r, AfterFinally(r))
    /\ UNCHANGED <<tables, lock, todo, response, record, call>>

UpdateEntry(r) == [action |-> "UPDATE", entityId |-> Id(r), performedBy |-> r]

(* The audit INSERT takes a connection of the pool for its own duration.   *)
Audit(r) ==
    /\ pc[r] = "auditing"
    /\ PoolHasFree
    /\ auditLog' = auditLog \cup {UpdateEntry(r)}
    /\ Answer(r, "200")
    /\ GoTo(r, "done")
    /\ UNCHANGED <<tables, session, todo, updated, call>>

(* The update is committed and stays; the client is told it failed.        *)
AuditFails(r) ==
    /\ pc[r] = "auditing"
    /\ Answer(r, "500")
    /\ GoTo(r, "done")
    /\ UNCHANGED <<tables, session, todo, record, call>>

-----------------------------------------------------------------------------
(* The process dies: PostgreSQL rolls back what was open, clients of the   *)
(* requests in flight get no answer, and the restarted process has a new   *)
(* pool and no memory of them.                                             *)
Crash ==
    /\ lock' = [t \in Ticket |-> Nobody]
    /\ connections' = {}
    /\ pc' = [r \in Request |-> IF pc[r] = "idle" THEN "idle" ELSE "done"]
    /\ response' = [r \in Request |->
           IF pc[r] \in {"idle", "done"} THEN response[r] ELSE "lost"]
    /\ todo' = [r \in Request |-> {}]
    /\ UNCHANGED <<tables, record, call>>

(* Statements of the other handlers, each committed by itself.  An UPDATE  *)
(* of a ticket row waits for its lock.                                     *)
SoftDelete(t) ==
    /\ ~Locked(t)
    /\ ~tickets[t].isDeleted
    /\ tickets' = [tickets EXCEPT ![t].isDeleted = TRUE]
    /\ UNCHANGED <<dependencies, session, request, record, call>>

Undelete(t) ==
    /\ ~Locked(t)
    /\ tickets[t].isDeleted
    /\ tickets' = [tickets EXCEPT ![t].isDeleted = FALSE]
    /\ UNCHANGED <<dependencies, session, request, record, call>>

(* Mutant: a junction table without foreign keys.                          *)
ForeignKeysMissing(t, b) == TRUE

(* The two foreign keys of the row inserted take FOR KEY SHARE on both     *)
(* tickets, which waits for a FOR UPDATE on either.                        *)
ForeignKeysFree(t, b) == ~Locked(t) /\ ~Locked(b)

Link(t, b) ==
    /\ t # b
    /\ <<t, b>> \notin dependencies
    /\ ForeignKeysFree(t, b)
    /\ dependencies' = dependencies \cup {<<t, b>>}
    /\ UNCHANGED <<tickets, session, request, record, call>>

(* A DELETE of the referencing row locks no ticket.                        *)
Unlink(t, b) ==
    /\ <<t, b>> \in dependencies
    /\ dependencies' = dependencies \ {<<t, b>>}
    /\ UNCHANGED <<tickets, session, request, record, call>>

-----------------------------------------------------------------------------
Find(r) == FindNothing(r) \/ FindRefused(r) \/ FindForUpdate(r)

CheckBlockers(r) ==
    ReadDependencies(r) \/ BlockerResolved(r) \/ BlockerUnresolved(r)

Write(r) == Commit(r) \/ UpdateRefused(r)

Finish(r) == Rollback(r) \/ Release(r) \/ Audit(r)

(* What the handler does by itself once its request has arrived.           *)
Handle(r) ==
    Connect(r) \/ Find(r) \/ CheckBlockers(r) \/ Write(r) \/ Finish(r)

Fails(r) == BeginFails(r) \/ LockTimeout(r) \/ QueryFails(r) \/ AuditFails(r)

Others ==
    \/ \E t \in Ticket : SoftDelete(t) \/ Undelete(t)
    \/ \E t, b \in Ticket : Link(t, b) \/ Unlink(t, b)

Step ==
    \/ \E r \in Request : Arrive(r) \/ Handle(r) \/ Fails(r)
    \/ Others

Next == Step \/ Crash

Spec == Init /\ [][Next]_vars

(* The event loop and PostgreSQL run every call a handler has made; no     *)
(* fairness is asked of clients, timeouts, failures or other handlers.     *)
FairSpec == Spec /\ \A r \in Request : WF_vars(Handle(r))

-----------------------------------------------------------------------------
InTransaction(r) == pc[r] \in {"reading", "checking"}

(* What a PATCH read under its row lock is still true when it writes: the  *)
(* ticket is live, not DONE and not past the status sent, and every        *)
(* blocker it no longer has to look up is DONE (update, lines 236-289).    *)
ReadsStayValid ==
    \A r \in Request : InTransaction(r) =>
        /\ lock[Id(r)] = r
        /\ ~tickets[Id(r)].isDeleted
        /\ ~Refused(tickets[Id(r)], Body(r))
        /\ (pc[r] = "checking" /\ Body(r).status = "DONE") =>
               \A b \in BlockersOf(Id(r)) : b \in todo[r] \/ Resolved(b)

(* Nobody waits in a circle.  Who waits for the pool (228 and, after the   *)
(* finally, 312) holds neither a lock nor a connection; who waits for a    *)
(* row lock holds no other; the holder of a row lock has a connection and  *)
(* waits for nothing.  And the pool is never overdrawn, and short of its   *)
(* full size only by what failing BEGINs kept.                             *)
HoldersNeverWait ==
    /\ \A t \in Ticket : Locked(t) =>
           /\ lock[t] \in connections
           /\ pc[lock[t]] \in {"reading", "checking", "rollback"}
    /\ \A r \in connections : pc[r] \notin {"connecting", "auditing"}
    /\ Cardinality(connections) <= PoolSize
    /\ Cardinality(Leaked) <= MaxLeaks

Waiting(r) ==
    \/ pc[r] \in {"connecting", "auditing"} /\ ~PoolHasFree
    \/ pc[r] = "locking" /\ Locked(Id(r))

(* Whenever somebody waits, some request that has what is waited for can   *)
(* go on: so long as failing BEGINs have not kept the whole pool, waiting  *)
(* for row locks and waiting for connections never add up to a standstill. *)
SomebodyGoesOn ==
    (\E r \in Request : Waiting(r)) =>
        \E s \in connections : pc[s] # "done" /\ ~Waiting(s)

(* No answer misleads the client or the log: an update that was answered   *)
(* 400, 404 or 409 changed nothing and left no entry, one answered 200 was *)
(* committed and logged, and nothing is logged that was not committed.     *)
AnswerMatchesEffect ==
    \A r \in Request :
        /\ response[r] \in {"400", "404", "409"} => r \notin updated
        /\ response[r] = "200" => UpdateEntry(r) \in auditLog
        /\ UpdateEntry(r) \in auditLog => r \in updated

(* A ticket enters DONE only in a step before which all its blockers are   *)
(* DONE, whatever was linked, unlinked or patched since they were read.    *)
DoneOnlyWhenUnblocked ==
    [][\A t \in Ticket :
          tickets[t].status # "DONE" /\ tickets'[t].status = "DONE"
              => \A b \in BlockersOf(t) : Resolved(b)]_vars

(* "Once a ticket reaches DONE it cannot be updated further": only its     *)
(* soft-delete flag may still change (ticket.entity.ts:6).                 *)
DoneIsFrozen ==
    [][\A t \in Ticket :
          Resolved(t) => tickets'[t] = [tickets[t] EXCEPT !.isDeleted = tickets'[t].isDeleted]]_vars

(* Concurrent patches never move a status back (STATUS_ORDER).             *)
StatusMovesForward ==
    [][\A t \in Ticket :
          STATUS_ORDER[tickets[t].status] <= STATUS_ORDER[tickets'[t].status]]_vars

Lifecycle == INSTANCE TicketLifecycle
    WITH tickets <- tickets, dependencies <- dependencies

(* The dozen awaited calls of a PATCH take effect at one instant, at which *)
(* every rule of the abstract lifecycle holds.                             *)
AtomicPatch == Lifecycle!Spec

(* Whoever reaches the handler is answered, or loses the connection to a   *)
(* crash: no request waits for ever for a row lock or for the pool.        *)
EveryPatchAnswered ==
    \A r \in Request : pc[r] = "connecting" ~> pc[r] = "done"

(* "Every create, update, delete, restore, and system action               *)
(* (auto-assignment, escalation) is recorded here"                         *)
(* (audit-log.entity.ts:6-7).                                              *)
EveryUpdateAudited ==
    \A r \in Request :
        r \in updated /\ pc[r] = "done" => UpdateEntry(r) \in auditLog
=============================================================================
