--------------------------- MODULE TicketsProofs ---------------------------
(* Proofs about Tickets, for every board, every set of requests and every  *)
(* pool size.                                                              *)
EXTENDS Tickets, FiniteSetTheorems, TLAPS

(* A row patched by a body the table accepts is a row (TypeORM's UPDATE of *)
(* the columns sent, tickets.service.ts:278-291).                          *)
LEMMA PatchedIsRow ==
    ASSUME NEW row \in TicketRow, NEW dto \in UpdateTicketDto, Storable(dto)
    PROVE  /\ Patched(row, dto) \in TicketRow
           /\ Patched(row, dto).isDeleted = row.isDeleted
           /\ Patched(row, dto).status = Sent(dto.status, row.status)
<1>1. /\ dto.status \in TicketStatus \cup {Undefined}
      /\ dto.priority \in TicketPriority \cup {Undefined}
      /\ dto.assigneeId \in User \cup {Undefined, Null}
      /\ dto.dueDate \in DueDate \cup {Undefined, Null}
    BY DEF Storable, UpdateTicketDto
<1>2. /\ Sent(dto.status, row.status) \in TicketStatus
      /\ Sent(dto.priority, row.priority) \in TicketPriority
      /\ Sent(dto.assigneeId, row.assigneeId) \in User \cup {Null}
      /\ Sent(dto.dueDate, row.dueDate) \in DueDate \cup {Null}
      /\ OverdueAfter(row, dto) \in BOOLEAN
    BY <1>1 DEF Sent, TicketRow, OverdueAfter
<1> QED
    BY <1>2 DEF Patched, TicketRow

(* The soft-delete flag is a column of its own.                            *)
LEMMA FlaggedIsRow ==
    ASSUME NEW row \in TicketRow, NEW flag \in BOOLEAN
    PROVE  /\ [row EXCEPT !.isDeleted = flag] \in TicketRow
           /\ [row EXCEPT !.isDeleted = flag].isDeleted = flag
           /\ [row EXCEPT !.isDeleted = flag].status = row.status
BY DEF TicketRow

(* New tickets are rows, whatever POST /tickets chose.                     *)
LEMMA NewTicketIsRow == NewTicket \subseteq TicketRow
BY TicketsAssumption

(* Every reachable state has the types the entities declare.               *)
LEMMA InitTypeOK == Init => TypeOK
BY TicketsAssumption, NewTicketIsRow DEF Init, TypeOK, Pc, Response

LEMMA NextTypeOK == TypeOK /\ [Next]_vars => TypeOK'
<1> SUFFICES ASSUME TypeOK, [Next]_vars
             PROVE  TypeOK'
    OBVIOUS
<1> USE DEF TypeOK, GoTo, Answer, Throw, Id, Body, Pc, Response
<1>1. ASSUME NEW r \in Request, Arrive(r)
      PROVE  TypeOK'
    BY <1>1 DEF Arrive, tables, session, record
<1>2. ASSUME NEW r \in Request, Connect(r) \/ BeginFails(r)
      PROVE  TypeOK'
    BY <1>2 DEF Connect, BeginFails, tables, session, record
<1>3. ASSUME NEW r \in Request, Find(r)
      PROVE  TypeOK'
    <2>1. Id(r) \in Ticket /\ AfterFind(r) \in Pc
        BY DEF AfterFind
    <2>2. CASE FindNothing(r)
        BY <2>2 DEF FindNothing, tables, session, record
    <2>3. CASE FindRefused(r)
        BY <2>1, <2>3 DEF FindRefused, LockRow, tables, record
    <2>4. CASE FindForUpdate(r)
        BY <2>1, <2>4 DEF FindForUpdate, LockRow, tables, record
    <2> QED
        BY <1>3, <2>2, <2>3, <2>4 DEF Find
<1>4. ASSUME NEW r \in Request, CheckBlockers(r)
      PROVE  TypeOK'
    <2>1. CASE ReadDependencies(r)
        BY <2>1 DEF ReadDependencies, BlockersOf, tables, session, record
    <2>2. CASE BlockerResolved(r)
        BY <2>2 DEF BlockerResolved, LeftAfter, tables, session, record
    <2>3. CASE BlockerUnresolved(r)
        BY <2>3 DEF BlockerUnresolved, tables, session, record
    <2> QED
        BY <1>4, <2>1, <2>2, <2>3 DEF CheckBlockers
<1>5. ASSUME NEW r \in Request, Commit(r)
      PROVE  TypeOK'
    <2>1. tickets' \in [Ticket -> TicketRow]
        BY <1>5, PatchedIsRow, TicketsAssumption DEF Commit
    <2> QED
        BY <1>5, <2>1 DEF Commit, Unlocked
<1>6. ASSUME NEW r \in Request, UpdateRefused(r) \/ QueryFails(r) \/ LockTimeout(r)
      PROVE  TypeOK'
    BY <1>6 DEF UpdateRefused, QueryFails, LockTimeout, tables, session, record
<1>7. ASSUME NEW r \in Request, Rollback(r) \/ Release(r)
      PROVE  TypeOK'
    BY <1>7 DEF Rollback, Release, Unlocked, ConnectionsAfter, AfterFinally,
                tables, session, record
<1>8. ASSUME NEW r \in Request, Audit(r) \/ AuditFails(r)
      PROVE  TypeOK'
    <2>1. UpdateEntry(r) \in AuditEntry
        BY DEF UpdateEntry, AuditEntry
    <2>2. CASE Audit(r)
        BY <2>1, <2>2 DEF Audit, tables, session
    <2>3. CASE AuditFails(r)
        BY <2>3 DEF AuditFails, tables, session, record
    <2> QED
        BY <1>8, <2>2, <2>3
<1>9. ASSUME NEW t \in Ticket, SoftDelete(t) \/ Undelete(t)
      PROVE  TypeOK'
    <2>1. PICK flag \in BOOLEAN :
              tickets' = [tickets EXCEPT ![t] = [tickets[t] EXCEPT !.isDeleted = flag]]
        BY <1>9 DEF SoftDelete, Undelete
    <2>2. [tickets[t] EXCEPT !.isDeleted = flag] \in TicketRow
        BY FlaggedIsRow
    <2>3. tickets' \in [Ticket -> TicketRow]
        BY <2>1, <2>2
    <2> QED
        BY <1>9, <2>3 DEF SoftDelete, Undelete, session, request, record
<1>10. ASSUME NEW t \in Ticket, NEW b \in Ticket, Link(t, b) \/ Unlink(t, b)
       PROVE  TypeOK'
    BY <1>10 DEF Link, Unlink, tables, session, request, record
<1>11. CASE Crash
    BY <1>11 DEF Crash, tables, record
<1>12. CASE UNCHANGED vars
    BY <1>12 DEF vars, tables, session, request, record
<1> QED
    BY <1>1, <1>2, <1>3, <1>4, <1>5, <1>6, <1>7, <1>8, <1>9, <1>10, <1>11, <1>12
       DEF Next, Step, Handle, Write, Finish, Fails, Others

(* Type correctness of the ticket tables, the locks, the pool and every    *)
(* handler, in every reachable state.                                      *)
THEOREM TypeCorrect == Spec => []TypeOK
BY InitTypeOK, NextTypeOK, PTL DEF Spec

-----------------------------------------------------------------------------
(* What a PATCH read under its row lock.                                   *)

Valid(r) ==
    InTransaction(r) =>
        /\ lock[Id(r)] = r
        /\ ~tickets[Id(r)].isDeleted
        /\ ~Refused(tickets[Id(r)], Body(r))
        /\ (pc[r] = "checking" /\ Body(r).status = "DONE") =>
               \A b \in BlockersOf(Id(r)) : b \in todo[r] \/ Resolved(b)

LEMMA ValidIsReadsStayValid == ReadsStayValid <=> \A r \in Request : Valid(r)
BY DEF ReadsStayValid, Valid

(* A handler between its SELECT .. FOR UPDATE and its end keeps every other*)
(* writer off its row, so a step that changes neither the row, nor its     *)
(* blockers for the worse, nor the handler itself leaves it valid.         *)
LEMMA ValidKept ==
    ASSUME TypeOK, NEW r \in Request, Valid(r),
           call' = call, pc'[r] = pc[r], todo'[r] = todo[r],
           InTransaction(r) =>
               /\ lock'[Id(r)] = r
               /\ tickets'[Id(r)] = tickets[Id(r)]
               /\ \A b \in Ticket : <<Id(r), b>> \in dependencies' => <<Id(r), b>> \in dependencies
               /\ \A b \in Ticket : Resolved(b) => tickets'[b].status = "DONE"
    PROVE  Valid(r)'
BY DEF Valid, InTransaction, Id, Body, BlockersOf, Resolved, Refused, MovesBack

(* Locks: what a step of one handler does to the row of another.           *)
LEMMA OtherRowLocked ==
    ASSUME TypeOK, NEW r \in Request, Valid(r), InTransaction(r)
    PROVE  /\ Id(r) \in Ticket
           /\ Locked(Id(r))
           /\ \A q \in Request \ {r} : Unlocked(q)[Id(r)] = r
BY TicketsAssumption DEF TypeOK, Valid, Locked, Unlocked, Id

(* DONE is terminal, so a blocker found DONE stays DONE.                   *)
LEMMA CommitKeepsDone ==
    ASSUME TypeOK, NEW q \in Request, Valid(q), Commit(q)
    PROVE  /\ \A b \in Ticket : Resolved(b) => tickets'[b].status = "DONE"
           /\ \A t \in Ticket \ {Id(q)} : tickets'[t] = tickets[t]
           /\ tickets[Id(q)] \in TicketRow
           /\ tickets'[Id(q)] = Patched(tickets[Id(q)], Body(q))
           /\ tickets'[Id(q)].status = Sent(Body(q).status, tickets[Id(q)].status)
<1>1. Id(q) \in Ticket /\ Body(q) \in UpdateTicketDto /\ tickets[Id(q)] \in TicketRow
    BY TicketsAssumption DEF TypeOK, Id, Body
<1>2. tickets'[Id(q)] = Patched(tickets[Id(q)], Body(q))
    BY <1>1 DEF Commit, TypeOK
<1>3. \A t \in Ticket \ {Id(q)} : tickets'[t] = tickets[t]
    BY DEF Commit, TypeOK
<1>4. ~Resolved(Id(q))
    BY DEF Valid, InTransaction, Commit, Refused, Resolved
<1>5. tickets'[Id(q)].status = Sent(Body(q).status, tickets[Id(q)].status)
    BY <1>1, <1>2, PatchedIsRow DEF Commit
<1> QED
    BY <1>1, <1>2, <1>3, <1>4, <1>5 DEF Resolved

LEMMA NextReadsStayValid ==
    ASSUME TypeOK, ReadsStayValid, [Next]_vars
    PROVE  ReadsStayValid'
<1> SUFFICES ASSUME NEW r \in Request
             PROVE  Valid(r)'
    BY DEF ReadsStayValid, Valid
<1>0. \A q \in Request : Valid(q)
    BY ValidIsReadsStayValid
<1>h. InTransaction(r) => /\ Id(r) \in Ticket
                          /\ Locked(Id(r))
                          /\ lock[Id(r)] = r
                          /\ \A q \in Request \ {r} : Unlocked(q)[Id(r)] = r
    BY <1>0, OtherRowLocked DEF Valid
<1>1. ASSUME NEW q \in Request,
             Arrive(q) \/ Connect(q) \/ BeginFails(q) \/ FindNothing(q) \/ LockTimeout(q)
                \/ BlockerUnresolved(q) \/ UpdateRefused(q) \/ QueryFails(q)
                \/ Release(q) \/ Audit(q) \/ AuditFails(q)
      PROVE  Valid(r)'
    <2>1. UNCHANGED <<tables, lock, call>>
        BY <1>1 DEF Arrive, Connect, BeginFails, FindNothing, LockTimeout,
                    BlockerUnresolved, UpdateRefused, QueryFails, Release, Audit,
                    AuditFails, session
    <2>2. CASE q = r
        <3>1. ~InTransaction(r)'
            BY <1>1, <2>2 DEF Arrive, Connect, BeginFails, FindNothing, LockTimeout,
                    BlockerUnresolved, UpdateRefused, QueryFails, Release, Audit,
                    AuditFails, Throw, GoTo, AfterFinally, InTransaction, TypeOK
        <3> QED
            BY <3>1 DEF Valid
    <2>3. CASE q # r
        <3>1. pc'[r] = pc[r] /\ todo'[r] = todo[r]
            BY <1>1, <2>3 DEF Arrive, Connect, BeginFails, FindNothing, LockTimeout,
                    BlockerUnresolved, UpdateRefused, QueryFails, Release, Audit,
                    AuditFails, Throw, GoTo, TypeOK
        <3> QED
            BY <1>0, <1>h, <2>1, <3>1, ValidKept DEF tables, Resolved
    <2> QED
        BY <2>2, <2>3
<1>2. ASSUME NEW q \in Request, FindRefused(q) \/ FindForUpdate(q)
      PROVE  Valid(r)'
    <2>1. UNCHANGED <<tables, call>> /\ LockRow(q) /\ ~Locked(Id(q))
        BY <1>2 DEF FindRefused, FindForUpdate
    <2>2. CASE q = r /\ FindRefused(q)
        BY <2>2 DEF FindRefused, Throw, GoTo, TypeOK, Valid, InTransaction
    <2>3. CASE q = r /\ FindForUpdate(q)
        <3>1. lock'[Id(r)] = r
            BY <2>1, <2>3 DEF LockRow, TypeOK, Id
        <3>2. ~(pc'[r] = "checking" /\ Body(r).status = "DONE")
            BY <2>3 DEF FindForUpdate, AfterFind, GoTo, TypeOK
        <3> QED
            BY <2>1, <2>3, <3>1, <3>2 DEF FindForUpdate, Valid, Live, tables, Id, Body,
               Refused, MovesBack
    <2>4. CASE q # r
        <3>1. pc'[r] = pc[r] /\ todo'[r] = todo[r]
            BY <1>2, <2>4 DEF FindRefused, FindForUpdate, Throw, GoTo, TypeOK
        <3>2. InTransaction(r) => lock'[Id(r)] = r
            BY <1>h, <2>1 DEF LockRow, TypeOK
        <3> QED
            BY <1>0, <2>1, <3>1, <3>2, ValidKept DEF tables, Resolved
    <2> QED
        BY <1>2, <2>2, <2>3, <2>4
<1>3. ASSUME NEW q \in Request, ReadDependencies(q)
      PROVE  Valid(r)'
    <2>1. UNCHANGED <<tables, lock, call>>
        BY <1>3 DEF ReadDependencies, session
    <2>2. CASE q = r
        <3>1. InTransaction(r) /\ todo'[r] = BlockersOf(Id(r))
            BY <1>3, <2>2 DEF ReadDependencies, InTransaction, TypeOK
        <3> QED
            BY <1>0, <2>1, <3>1 DEF Valid, tables, Id, Body, BlockersOf, Refused, MovesBack
    <2>3. CASE q # r
        BY <1>0, <1>h, <1>3, <2>1, <2>3, ValidKept
           DEF ReadDependencies, GoTo, TypeOK, tables, Resolved
    <2> QED
        BY <2>2, <2>3
<1>4. ASSUME NEW q \in Request, BlockerResolved(q)
      PROVE  Valid(r)'
    <2>1. UNCHANGED <<tables, lock, pc, call>>
        BY <1>4 DEF BlockerResolved, session
    <2>2. CASE q = r
        <3>1. PICK b \in todo[r] : Resolved(b) /\ todo'[r] = todo[r] \ {b}
            BY <1>4, <2>2 DEF BlockerResolved, LeftAfter, TypeOK
        <3> QED
            BY <1>0, <2>1, <3>1 DEF Valid, InTransaction, tables, Id, Body, BlockersOf,
               Resolved, Refused, MovesBack
    <2>3. CASE q # r
        BY <1>0, <1>h, <1>4, <2>1, <2>3, ValidKept DEF BlockerResolved, TypeOK, tables, Resolved
    <2> QED
        BY <2>2, <2>3
<1>5. ASSUME NEW q \in Request, Commit(q)
      PROVE  Valid(r)'
    <2>1. CASE q = r
        BY <1>5, <2>1 DEF Commit, GoTo, TypeOK, Valid, InTransaction
    <2>2. CASE q # r
        <3>1. pc'[r] = pc[r] /\ todo'[r] = todo[r] /\ UNCHANGED <<dependencies, call>>
            BY <1>5, <2>2 DEF Commit, GoTo, TypeOK
        <3>2. InTransaction(r) => lock'[Id(r)] = r
            BY <1>h, <1>5, <2>2 DEF Commit
        <3>3. InTransaction(r) => Id(r) # Id(q)
            <4>1. lock[Id(q)] = q
                BY <1>0, <1>5 DEF Valid, InTransaction, Commit
            <4> QED
                BY <1>h, <2>2, <4>1
        <3> QED
            BY <1>0, <1>h, <1>5, <3>1, <3>2, <3>3, CommitKeepsDone, ValidKept
    <2> QED
        BY <2>1, <2>2
<1>6. ASSUME NEW q \in Request, Rollback(q)
      PROVE  Valid(r)'
    <2>1. CASE q = r
        BY <1>6, <2>1 DEF Rollback, GoTo, TypeOK, Valid, InTransaction
    <2>2. CASE q # r
        BY <1>0, <1>h, <1>6, <2>2, ValidKept DEF Rollback, GoTo, TypeOK, tables, Resolved
    <2> QED
        BY <2>1, <2>2
<1>7. ASSUME NEW t \in Ticket, SoftDelete(t) \/ Undelete(t)
      PROVE  Valid(r)'
    <2>1. UNCHANGED <<dependencies, lock, pc, todo, call>> /\ ~Locked(t)
        BY <1>7 DEF SoftDelete, Undelete, session, request
    <2>2. PICK flag \in BOOLEAN :
              tickets' = [tickets EXCEPT ![t] = [tickets[t] EXCEPT !.isDeleted = flag]]
        BY <1>7 DEF SoftDelete, Undelete
    <2>3. tickets'[t].status = tickets[t].status
        BY <2>2, FlaggedIsRow DEF TypeOK
    <2> QED
        BY <1>0, <1>h, <2>1, <2>2, <2>3, ValidKept DEF TypeOK, Resolved
<1>8. ASSUME NEW t \in Ticket, NEW b \in Ticket, Link(t, b) \/ Unlink(t, b)
      PROVE  Valid(r)'
    <2>1. UNCHANGED <<tickets, lock, pc, todo, call>>
        BY <1>8 DEF Link, Unlink, session, request
    <2>2. InTransaction(r) => \A c \in Ticket :
              <<Id(r), c>> \in dependencies' => <<Id(r), c>> \in dependencies
        BY <1>h, <1>8 DEF Link, Unlink, ForeignKeysFree
    <2> QED
        BY <1>0, <1>h, <2>1, <2>2, ValidKept DEF Resolved
<1>9. CASE Crash
    BY <1>9 DEF Crash, Valid, InTransaction
<1>10. CASE UNCHANGED vars
    BY <1>0, <1>h, <1>10, ValidKept DEF vars, tables, session, request, Resolved
<1> QED
    BY <1>1, <1>2, <1>3, <1>4, <1>5, <1>6, <1>7, <1>8, <1>9, <1>10
       DEF Next, Step, Handle, Find, CheckBlockers, Write, Finish, Fails, Others

LEMMA InitReadsStayValid == Init => ReadsStayValid
BY DEF Init, ReadsStayValid, InTransaction

(* The inductive invariant: types, and what each PATCH read.               *)
IInv == TypeOK /\ ReadsStayValid

LEMMA IInvHolds == Spec => []IInv
<1>1. Init => IInv
    BY InitTypeOK, InitReadsStayValid DEF IInv
<1>2. IInv /\ [Next]_vars => IInv'
    BY NextTypeOK, NextReadsStayValid DEF IInv
<1> QED
    BY <1>1, <1>2, PTL DEF Spec

(* The checks of a PATCH are never stale when it writes: the row lock and  *)
(* the foreign keys of ticket_dependencies keep the row and its blockers   *)
(* as they were read (tickets.service.ts:236-289).                         *)
THEOREM PatchReadsStayValid == Spec => []ReadsStayValid
BY IInvHolds, PTL DEF IInv

-----------------------------------------------------------------------------
(* The rows of "tickets" change in Commit, SoftDelete and Undelete alone.  *)
LEMMA WhoWritesTickets ==
    ASSUME TypeOK, [Next]_vars
    PROVE  \/ UNCHANGED tickets
           \/ \E r \in Request : Commit(r)
           \/ \E t \in Ticket, flag \in BOOLEAN :
                  /\ tickets' = [tickets EXCEPT ![t] = [tickets[t] EXCEPT !.isDeleted = flag]]
                  /\ UNCHANGED dependencies
<1>1. ASSUME NEW r \in Request, Arrive(r) \/ Connect(r) \/ Find(r) \/ CheckBlockers(r)
                 \/ UpdateRefused(r) \/ Finish(r) \/ Fails(r)
      PROVE  UNCHANGED tickets
    BY <1>1 DEF Arrive, Connect, Find, FindNothing, FindRefused, FindForUpdate,
                CheckBlockers, ReadDependencies, BlockerResolved, BlockerUnresolved,
                UpdateRefused, Finish, Rollback, Release, Audit, Fails, BeginFails,
                LockTimeout, QueryFails, AuditFails, tables
<1>2. ASSUME NEW t \in Ticket, SoftDelete(t) \/ Undelete(t)
      PROVE  \E flag \in BOOLEAN :
                 /\ tickets' = [tickets EXCEPT ![t] = [tickets[t] EXCEPT !.isDeleted = flag]]
                 /\ UNCHANGED dependencies
    BY <1>2 DEF SoftDelete, Undelete
<1>3. ASSUME NEW t \in Ticket, NEW b \in Ticket, Link(t, b) \/ Unlink(t, b)
      PROVE  UNCHANGED tickets
    BY <1>3 DEF Link, Unlink
<1>4. Crash => UNCHANGED tickets
    BY DEF Crash, tables
<1>5. UNCHANGED vars => UNCHANGED tickets
    BY DEF vars, tables
<1> QED
    BY <1>1, <1>2, <1>3, <1>4, <1>5 DEF Next, Step, Handle, Write, Others

(* What the row looks like when a PATCH commits.                           *)
LEMMA CommitsOnlyWhatIsAllowed ==
    ASSUME IInv, NEW r \in Request, Commit(r)
    PROVE  /\ ~tickets[Id(r)].isDeleted
           /\ tickets[Id(r)].status # "DONE"
           /\ ~MovesBack(tickets[Id(r)], Body(r))
           /\ Body(r).status = "DONE" => \A b \in BlockersOf(Id(r)) : Resolved(b)
BY DEF IInv, ReadsStayValid, InTransaction, Commit, Refused

LEMMA DoneStep ==
    ASSUME IInv, [Next]_vars, NEW t \in Ticket,
           tickets[t].status # "DONE", tickets'[t].status = "DONE"
    PROVE  \A b \in BlockersOf(t) : Resolved(b)
<1> USE DEF IInv
<1>1. ASSUME NEW r \in Request, Commit(r)
      PROVE  \A b \in BlockersOf(t) : Resolved(b)
    <2>1. Valid(r)
        BY ValidIsReadsStayValid
    <2>2. t = Id(r) /\ Body(r).status = "DONE"
        BY <1>1, <2>1, CommitKeepsDone DEF Sent
    <2> QED
        BY <1>1, <2>2, CommitsOnlyWhatIsAllowed
<1>2. ASSUME NEW u \in Ticket, NEW flag \in BOOLEAN,
             tickets' = [tickets EXCEPT ![u] = [tickets[u] EXCEPT !.isDeleted = flag]]
      PROVE  FALSE
    BY <1>2, FlaggedIsRow DEF TypeOK
<1> QED
    BY <1>1, <1>2, WhoWritesTickets

(* A ticket becomes DONE only while all its blockers are DONE.             *)
THEOREM DoneUnblocked == Spec => DoneOnlyWhenUnblocked
<1>1. IInv /\ [Next]_vars =>
          [\A t \in Ticket :
              tickets[t].status # "DONE" /\ tickets'[t].status = "DONE"
                  => \A b \in BlockersOf(t) : Resolved(b)]_vars
    BY DoneStep
<1> QED
    BY <1>1, IInvHolds, PTL DEF Spec, DoneOnlyWhenUnblocked

(* A DONE ticket keeps every column but its soft-delete flag.              *)
THEOREM DoneFrozen == Spec => DoneIsFrozen
<1>1. ASSUME IInv, [Next]_vars, NEW t \in Ticket, Resolved(t)
      PROVE  tickets'[t] = [tickets[t] EXCEPT !.isDeleted = tickets'[t].isDeleted]
    <2> USE <1>1 DEF IInv
    <2>0. tickets[t] \in TicketRow
        BY DEF TypeOK
    <2>1. tickets'[t] = tickets[t] =>
              tickets'[t] = [tickets[t] EXCEPT !.isDeleted = tickets'[t].isDeleted]
        BY <2>0 DEF TicketRow
    <2>2. ASSUME NEW r \in Request, Commit(r)
          PROVE  tickets'[t] = tickets[t]
        <3>1. Valid(r) /\ t # Id(r)
            BY <1>1, <2>2, ValidIsReadsStayValid, CommitsOnlyWhatIsAllowed DEF Resolved
        <3> QED
            BY <2>2, <3>1, CommitKeepsDone
    <2>3. ASSUME NEW u \in Ticket, NEW flag \in BOOLEAN,
                 tickets' = [tickets EXCEPT ![u] = [tickets[u] EXCEPT !.isDeleted = flag]]
          PROVE  tickets'[t] = [tickets[t] EXCEPT !.isDeleted = tickets'[t].isDeleted]
        <3>1. CASE u = t
            <4>1. tickets'[t] = [tickets[t] EXCEPT !.isDeleted = flag]
                BY <2>3, <3>1 DEF TypeOK
            <4>2. tickets'[t].isDeleted = flag
                BY <2>0, <4>1, FlaggedIsRow
            <4> QED
                BY <4>1, <4>2
        <3>2. CASE u # t
            BY <2>1, <2>3, <3>2 DEF TypeOK
        <3> QED
            BY <3>1, <3>2
    <2> QED
        BY <1>1, <2>1, <2>2, <2>3, WhoWritesTickets
<1>2. IInv /\ [Next]_vars =>
          [\A t \in Ticket :
              Resolved(t) => tickets'[t] = [tickets[t] EXCEPT !.isDeleted = tickets'[t].isDeleted]]_vars
    BY <1>1
<1> QED
    BY <1>2, IInvHolds, PTL DEF Spec, DoneIsFrozen

LEMMA StatusStep ==
    ASSUME IInv, [Next]_vars, NEW t \in Ticket
    PROVE  STATUS_ORDER[tickets[t].status] <= STATUS_ORDER[tickets'[t].status]
<1> USE DEF IInv
<1>0. tickets[t] \in TicketRow /\ STATUS_ORDER[tickets[t].status] \in Nat
    BY DEF TypeOK, TicketRow, TicketStatus, STATUS_ORDER
<1>1. ASSUME NEW r \in Request, Commit(r), t = Id(r)
      PROVE  STATUS_ORDER[tickets[t].status] <= STATUS_ORDER[tickets'[t].status]
    <2>1. Valid(r) /\ ~MovesBack(tickets[t], Body(r))
        BY <1>1, ValidIsReadsStayValid, CommitsOnlyWhatIsAllowed
    <2>2. tickets'[t].status = Sent(Body(r).status, tickets[t].status)
        BY <1>1, <2>1, CommitKeepsDone
    <2>3. Body(r).status \in TicketStatus \cup {Undefined}
        BY <1>1, TicketsAssumption DEF Commit, Storable, TypeOK, Body, UpdateTicketDto
    <2>4. CASE Body(r).status = Undefined
        BY <1>0, <2>2, <2>4 DEF Sent
    <2>5. CASE Body(r).status \in TicketStatus /\ Body(r).status # Undefined
        BY <1>0, <2>1, <2>2, <2>5 DEF Sent, MovesBack, TicketStatus, STATUS_ORDER
    <2> QED
        BY <2>3, <2>4, <2>5
<1>2. ASSUME NEW r \in Request, Commit(r), t # Id(r)
      PROVE  tickets'[t] = tickets[t]
    BY <1>2, ValidIsReadsStayValid, CommitKeepsDone
<1>3. ASSUME NEW u \in Ticket, NEW flag \in BOOLEAN,
             tickets' = [tickets EXCEPT ![u] = [tickets[u] EXCEPT !.isDeleted = flag]]
      PROVE  tickets'[t].status = tickets[t].status
    BY <1>0, <1>3, FlaggedIsRow DEF TypeOK
<1> QED
    BY <1>0, <1>1, <1>2, <1>3, WhoWritesTickets

(* No interleaving of patches moves a status back.                         *)
THEOREM StatusForward == Spec => StatusMovesForward
<1>1. IInv /\ [Next]_vars =>
          [\A t \in Ticket :
              STATUS_ORDER[tickets[t].status] <= STATUS_ORDER[tickets'[t].status]]_vars
    BY StatusStep
<1> QED
    BY <1>1, IInvHolds, PTL DEF Spec, StatusMovesForward

-----------------------------------------------------------------------------
LEMMA LifecycleStep ==
    ASSUME IInv, [Next]_vars
    PROVE  [Lifecycle!Next]_(Lifecycle!vars)
<1> USE DEF IInv
<1>1. ASSUME NEW r \in Request, Commit(r)
      PROVE  Lifecycle!Next
    <2>1. Id(r) \in Ticket /\ Body(r) \in Dto
        BY DEF TypeOK, Id, Body
    <2>2. Lifecycle!UnresolvedBlockers(Id(r)) = {b \in BlockersOf(Id(r)) : ~Resolved(b)}
        BY DEF Lifecycle!UnresolvedBlockers, BlockersOf, Resolved
    <2>3. /\ Lifecycle!MovesBack(tickets[Id(r)], Body(r)) <=> MovesBack(tickets[Id(r)], Body(r))
          /\ Lifecycle!Storable(Body(r)) <=> Storable(Body(r))
          /\ Lifecycle!Patched(tickets[Id(r)], Body(r)) = Patched(tickets[Id(r)], Body(r))
        BY DEF Lifecycle!MovesBack, MovesBack, Lifecycle!TicketStatus, TicketStatus,
               Lifecycle!STATUS_ORDER, STATUS_ORDER, Lifecycle!Storable, Storable,
               Lifecycle!Undefined, Undefined, Lifecycle!Null, Null,
               Lifecycle!Patched, Patched, Lifecycle!Sent, Sent,
               Lifecycle!OverdueAfter, OverdueAfter
    <2>4. tickets' = [tickets EXCEPT ![Id(r)] = Patched(tickets[Id(r)], Body(r))]
        BY <1>1 DEF Commit
    <2>5. Body(r).status = "DONE" => Lifecycle!UnresolvedBlockers(Id(r)) = {}
        BY <1>1, <2>2, CommitsOnlyWhatIsAllowed
    <2>6. Lifecycle!Patch(Id(r), Body(r))
        BY <1>1, <2>3, <2>4, <2>5, CommitsOnlyWhatIsAllowed DEF Lifecycle!Patch, Commit
    <2> QED
        BY <2>1, <2>6 DEF Lifecycle!Next
<1>2. ASSUME NEW t \in Ticket, SoftDelete(t) \/ Undelete(t)
      PROVE  Lifecycle!Next
    <2>1. Lifecycle!Remove(t) \/ Lifecycle!Restore(t)
        BY <1>2 DEF SoftDelete, Undelete, Lifecycle!Remove, Lifecycle!Restore
    <2> QED
        BY <2>1 DEF Lifecycle!Next
<1>3. ASSUME NEW t \in Ticket, NEW b \in Ticket, Link(t, b) \/ Unlink(t, b)
      PROVE  Lifecycle!Next
    <2>1. Lifecycle!Link(t, b) \/ Lifecycle!Unlink(t, b)
        BY <1>3 DEF Link, Unlink, Lifecycle!Link, Lifecycle!Unlink
    <2> QED
        BY <2>1 DEF Lifecycle!Next
<1>4. ASSUME NEW r \in Request, Arrive(r) \/ Connect(r) \/ Find(r) \/ CheckBlockers(r)
                 \/ UpdateRefused(r) \/ Finish(r) \/ Fails(r)
      PROVE  UNCHANGED tables
    BY <1>4 DEF Arrive, Connect, Find, FindNothing, FindRefused, FindForUpdate,
            CheckBlockers, ReadDependencies, BlockerResolved, BlockerUnresolved,
            UpdateRefused, Finish, Rollback, Release, Audit, Fails, BeginFails,
            LockTimeout, QueryFails, AuditFails
<1>5. Crash \/ UNCHANGED vars => UNCHANGED tables
    BY DEF Crash, vars
<1>6. UNCHANGED tables => UNCHANGED Lifecycle!vars
    BY DEF tables, Lifecycle!vars
<1> QED
    BY <1>1, <1>2, <1>3, <1>4, <1>5, <1>6 DEF Next, Step, Handle, Write, Others

(* The detailed PATCH implements the atomic one: the steps of a handler    *)
(* stutter on the two tables, but for Commit, which is a Patch all of whose*)
(* guards hold at that very instant.                                       *)
THEOREM PatchIsAtomic == Spec => AtomicPatch
<1>1. Init => Lifecycle!Init
    BY DEF Init, Lifecycle!Init
<1> QED
    BY <1>1, LifecycleStep, IInvHolds, PTL DEF Spec, AtomicPatch, Lifecycle!Spec

-----------------------------------------------------------------------------
(* Where a handler is tells whether it has committed and what it answers.  *)

Errors == {"400", "404", "409", "500"}

Phase(r) ==
    /\ pc[r] \in {"idle", "connecting", "locking", "reading", "checking"} =>
           response[r] = "none" /\ r \notin updated
    /\ pc[r] = "rollback" => response[r] \in Errors /\ r \notin updated
    /\ pc[r] = "releasing" =>
           \/ response[r] = "none" /\ r \in updated
           \/ response[r] \in Errors /\ r \notin updated
    /\ pc[r] = "auditing" => response[r] = "none" /\ r \in updated
    /\ pc[r] = "done" =>
           /\ response[r] \in {"400", "404", "409"} => r \notin updated
           /\ response[r] = "200" => UpdateEntry(r) \in auditLog
    /\ UpdateEntry(r) \in auditLog => r \in updated

Phases == \A r \in Request : Phase(r)

LEMMA InitPhases == Init => Phases
BY DEF Init, Phases, Phase

(* A handler is left in its phase by the steps of the others.              *)
LEMMA PhaseKept ==
    ASSUME TypeOK, NEW r \in Request, Phase(r),
           pc'[r] = pc[r], response'[r] = response[r], call' = call,
           r \in updated' <=> r \in updated,
           UpdateEntry(r) \in auditLog' <=> UpdateEntry(r) \in auditLog
    PROVE  Phase(r)'
BY DEF Phase, UpdateEntry, Id

LEMMA NextPhases ==
    ASSUME TypeOK, Phases, [Next]_vars
    PROVE  Phases'
<1> SUFFICES ASSUME NEW r \in Request
             PROVE  Phase(r)'
    BY DEF Phases
<1>0. Phase(r)
    BY DEF Phases
<1>1. ASSUME NEW q \in Request, Arrive(q) \/ Connect(q) \/ BeginFails(q) \/ Find(q)
                 \/ CheckBlockers(q) \/ UpdateRefused(q) \/ QueryFails(q) \/ LockTimeout(q)
                 \/ Rollback(q) \/ Release(q) \/ AuditFails(q)
      PROVE  Phase(r)'
    <2> USE DEF Arrive, Connect, BeginFails, Find, FindNothing, FindRefused, FindForUpdate,
                CheckBlockers, ReadDependencies, BlockerResolved, BlockerUnresolved,
                UpdateRefused, QueryFails, LockTimeout, Rollback, Release, AuditFails,
                Throw, GoTo, Answer, record
    <2>1. UNCHANGED <<updated, auditLog, call>> /\ UpdateEntry(r)' = UpdateEntry(r)
        BY <1>1 DEF UpdateEntry, Id
    <2>2. CASE q # r
        <3>1. pc'[r] = pc[r] /\ response'[r] = response[r]
            BY <1>1, <2>2 DEF TypeOK
        <3> QED
            BY <1>0, <2>1, <3>1 DEF Phase
    <2>3. CASE q = r
        <3>1. CASE Arrive(r) \/ Connect(r) \/ FindForUpdate(r) \/ ReadDependencies(r)
                       \/ BlockerResolved(r)
            BY <1>0, <2>1, <3>1 DEF Phase, TypeOK, AfterFind
        <3>2. CASE FindNothing(r) \/ FindRefused(r) \/ BlockerUnresolved(r) \/ UpdateRefused(r)
                       \/ QueryFails(r) \/ LockTimeout(r)
            BY <1>0, <2>1, <3>2 DEF Phase, TypeOK, Errors
        <3>3. CASE BeginFails(r) \/ AuditFails(r)
            BY <1>0, <2>1, <3>3 DEF Phase, TypeOK
        <3>4. CASE Rollback(r) \/ Release(r)
            BY <1>0, <2>1, <3>4 DEF Phase, TypeOK, AfterFinally, Errors
        <3> QED
            BY <1>1, <2>3, <3>1, <3>2, <3>3, <3>4
    <2> QED
        BY <2>2, <2>3
<1>2. ASSUME NEW q \in Request, Commit(q)
      PROVE  Phase(r)'
    <2>1. CASE q = r
        BY <1>0, <1>2, <2>1 DEF Commit, GoTo, Phase, TypeOK, UpdateEntry, Id
    <2>2. CASE q # r
        BY <1>0, <1>2, <2>2, PhaseKept DEF Commit, GoTo, TypeOK
    <2> QED
        BY <2>1, <2>2
<1>3. ASSUME NEW q \in Request, Audit(q)
      PROVE  Phase(r)'
    <2>1. CASE q = r
        BY <1>0, <1>3, <2>1 DEF Audit, GoTo, Answer, Phase, TypeOK, UpdateEntry, Id
    <2>2. CASE q # r
        <3>1. UpdateEntry(r) # UpdateEntry(q)
            BY <2>2 DEF UpdateEntry
        <3> QED
            BY <1>0, <1>3, <2>2, <3>1, PhaseKept DEF Audit, GoTo, Answer, TypeOK
    <2> QED
        BY <2>1, <2>2
<1>4. CASE Crash
    BY <1>0, <1>4 DEF Crash, Phase, TypeOK, UpdateEntry, Id, record
<1>5. ASSUME Others \/ UNCHANGED vars
      PROVE  Phase(r)'
    <2>1. UNCHANGED <<pc, response, call, updated, auditLog>>
        BY <1>5 DEF Others, SoftDelete, Undelete, Link, Unlink, vars, request, record
    <2> QED
        BY <1>0, <2>1, PhaseKept
<1> QED
    BY <1>1, <1>2, <1>3, <1>4, <1>5 DEF Next, Step, Handle, Write, Finish, Fails

LEMMA PhasesHold == TypeOK /\ Phases => AnswerMatchesEffect
<1> SUFFICES ASSUME TypeOK, NEW r \in Request, Phase(r)
             PROVE  /\ response[r] \in {"400", "404", "409"} => r \notin updated
                    /\ response[r] = "200" => UpdateEntry(r) \in auditLog
                    /\ UpdateEntry(r) \in auditLog => r \in updated
    BY DEF Phases, AnswerMatchesEffect
<1> QED
    BY DEF TypeOK, Pc, Phase, Errors

(* Answers and audit entries never claim more than what was committed.     *)
THEOREM AnswersMatchEffects == Spec => []AnswerMatchesEffect
<1>1. Init => TypeOK /\ Phases
    BY InitTypeOK, InitPhases
<1>2. TypeOK /\ Phases /\ [Next]_vars => TypeOK' /\ Phases'
    BY NextTypeOK, NextPhases
<1> QED
    BY <1>1, <1>2, PhasesHold, PTL DEF Spec

-----------------------------------------------------------------------------
(* Locks and connections.  A handler has a connection from its BEGIN to    *)
(* its release(), and a row lock only between its SELECT and its COMMIT or *)
(* ROLLBACK.                                                               *)
Connected == {"locking", "reading", "checking", "rollback", "releasing"}

SessionInv ==
    /\ IsFiniteSet(connections)
    /\ \A r \in Request : pc[r] \in Connected => r \in connections
    /\ \A r \in connections : pc[r] \in Connected \cup {"done"}
    /\ \A t \in Ticket : Locked(t) => pc[lock[t]] \in {"reading", "checking", "rollback"}
    /\ Cardinality(connections) <= PoolSize
    /\ Cardinality(Leaked) <= MaxLeaks

LEMMA InitSessionInv == Init => SessionInv
<1> SUFFICES ASSUME Init
             PROVE  SessionInv
    OBVIOUS
<1>1. connections = {} /\ Leaked = {}
    BY DEF Init, Leaked
<1>2. IsFiniteSet({}) /\ Cardinality({}) = 0
    BY FS_EmptySet
<1>3. Cardinality(connections) <= PoolSize /\ Cardinality(Leaked) <= MaxLeaks
    BY <1>1, <1>2, TicketsAssumption
<1> QED
    BY <1>1, <1>2, <1>3 DEF Init, SessionInv, Connected, Locked

LEMMA SessionFinite ==
    ASSUME SessionInv
    PROVE  /\ Cardinality(connections) \in Nat
           /\ IsFiniteSet(Leaked) /\ Cardinality(Leaked) \in Nat
BY FS_Subset, FS_CardinalityType DEF SessionInv, Leaked

(* A step of one handler that hands out no connection keeps the bounds.    *)
LEMMA BoundsKept ==
    ASSUME SessionInv, connections' \subseteq connections, Leaked' \subseteq Leaked
    PROVE  /\ IsFiniteSet(connections') /\ Cardinality(connections') <= PoolSize
           /\ Cardinality(Leaked') <= MaxLeaks
<1>1. Cardinality(connections) \in Nat /\ IsFiniteSet(Leaked) /\ Cardinality(Leaked) \in Nat
    BY SessionFinite
<1>2. IsFiniteSet(connections') /\ Cardinality(connections') <= Cardinality(connections)
    BY FS_Subset DEF SessionInv
<1>3. IsFiniteSet(Leaked') /\ Cardinality(Leaked') <= Cardinality(Leaked)
    BY <1>1, FS_Subset
<1>4. Cardinality(connections') \in Nat /\ Cardinality(Leaked') \in Nat
    BY <1>2, <1>3, FS_CardinalityType
<1> QED
    BY <1>1, <1>2, <1>3, <1>4, TicketsAssumption DEF SessionInv

(* The locks of r are given up, or it is still where it may hold them.     *)
LEMMA LocksKept ==
    ASSUME TypeOK, SessionInv, NEW r \in Request,
           \A s \in Request \ {r} : pc'[s] = pc[s],
           \/ /\ lock' = lock
              /\ pc[r] \in {"reading", "checking", "rollback"} =>
                     pc'[r] \in {"reading", "checking", "rollback"}
           \/ lock' = Unlocked(r)
           \/ LockRow(r) /\ pc'[r] \in {"reading", "checking", "rollback"}
    PROVE  \A t \in Ticket : Locked(t)' => pc'[lock'[t]] \in {"reading", "checking", "rollback"}
<1>1. \A t \in Ticket : lock[t] \in Request \cup {Nobody}
    BY DEF TypeOK
<1> QED
    BY <1>1 DEF TypeOK, SessionInv, Locked, Unlocked, LockRow

LEMMA NextSessionInv ==
    ASSUME TypeOK, SessionInv, [Next]_vars
    PROVE  SessionInv'
<1> USE DEF GoTo, Answer, Throw
<1>1. ASSUME NEW r \in Request,
             Arrive(r) \/ FindNothing(r) \/ FindRefused(r) \/ FindForUpdate(r) \/ LockTimeout(r)
                \/ CheckBlockers(r) \/ Commit(r) \/ UpdateRefused(r) \/ QueryFails(r) \/ Rollback(r)
                \/ Audit(r) \/ AuditFails(r)
      PROVE  SessionInv'
    <2> USE DEF Arrive, FindNothing, FindRefused, FindForUpdate, LockTimeout, CheckBlockers,
                ReadDependencies, BlockerResolved, BlockerUnresolved, Commit, UpdateRefused,
                QueryFails, Rollback, Audit, AuditFails
    <2>1. UNCHANGED connections /\ \A s \in Request \ {r} : pc'[s] = pc[s]
        BY <1>1 DEF session, TypeOK
    <2>2. /\ pc[r] \in Connected <=> pc'[r] \in Connected
          /\ pc[r] \notin Connected => pc[r] # "done"
        BY <1>1 DEF TypeOK, Connected, AfterFind
    <2>3. \/ /\ lock' = lock
             /\ pc[r] \in {"reading", "checking", "rollback"} =>
                    pc'[r] \in {"reading", "checking", "rollback"}
          \/ lock' = Unlocked(r)
          \/ LockRow(r) /\ pc'[r] \in {"reading", "checking", "rollback"}
        BY <1>1 DEF session, TypeOK, AfterFind
    <2>4. \A t \in Ticket : Locked(t)' => pc'[lock'[t]] \in {"reading", "checking", "rollback"}
        BY <2>1, <2>3, LocksKept
    <2>5. Leaked' \subseteq Leaked
        BY <2>1, <2>2 DEF Leaked, SessionInv, TypeOK, Connected
    <2>6. IsFiniteSet(connections') /\ Cardinality(connections') <= PoolSize /\ Cardinality(Leaked') <= MaxLeaks
        BY <2>1, <2>5, BoundsKept
    <2>7. /\ \A s \in Request : pc'[s] \in Connected => s \in connections'
          /\ \A s \in connections' : pc'[s] \in Connected \cup {"done"}
        BY <2>1, <2>2 DEF SessionInv, TypeOK
    <2> QED
        BY <2>4, <2>6, <2>7 DEF SessionInv
<1>2. ASSUME NEW r \in Request, Connect(r) \/ BeginFails(r)
      PROVE  SessionInv'
    <2> USE DEF Connect, BeginFails
    <2>1. /\ connections' = connections \cup {r} /\ lock' = lock /\ pc[r] = "connecting"
          /\ \A s \in Request \ {r} : pc'[s] = pc[s]
          /\ pc'[r] \in {"locking", "done"}
        BY <1>2 DEF TypeOK
    <2>2. r \notin connections
        BY <2>1 DEF SessionInv, Connected
    <2>3. IsFiniteSet(connections') /\ Cardinality(connections') = Cardinality(connections) + 1
        BY <2>1, <2>2, FS_AddElement DEF SessionInv
    <2>4. Cardinality(connections') <= PoolSize
        BY <1>2, <2>3, SessionFinite, TicketsAssumption DEF PoolHasFree
    <2>5. Cardinality(Leaked') <= MaxLeaks
        <3>1. CASE Connect(r)
            <4>1. Leaked' = Leaked
                BY <2>1, <2>2, <3>1 DEF Leaked, TypeOK
            <4> QED
                BY <4>1 DEF SessionInv
        <3>2. CASE BeginFails(r)
            <4>1. Leaked' = Leaked \cup {r} /\ r \notin Leaked
                BY <2>1, <2>2, <3>2 DEF Leaked, TypeOK
            <4>2. Cardinality(Leaked') = Cardinality(Leaked) + 1
                BY <4>1, SessionFinite, FS_AddElement
            <4> QED
                BY <3>2, <4>2, SessionFinite, TicketsAssumption
        <3> QED
            BY <1>2, <3>1, <3>2
    <2>6. \A t \in Ticket : Locked(t)' => pc'[lock'[t]] \in {"reading", "checking", "rollback"}
        BY <2>1, LocksKept
    <2>7. \A s \in Request : pc'[s] \in Connected => s \in connections'
        BY <2>1 DEF SessionInv, Connected, TypeOK
    <2>8. \A s \in connections' : pc'[s] \in Connected \cup {"done"}
        BY <2>1 DEF SessionInv, Connected, TypeOK
    <2> HIDE DEF Connect, BeginFails
    <2> QED
        BY <2>3, <2>4, <2>5, <2>6, <2>7, <2>8 DEF SessionInv
<1>3. ASSUME NEW r \in Request, Release(r)
      PROVE  SessionInv'
    <2>1. /\ connections' = connections \ {r} /\ lock' = lock /\ pc[r] = "releasing"
          /\ \A s \in Request \ {r} : pc'[s] = pc[s]
          /\ pc'[r] \in {"auditing", "done"}
        BY <1>3 DEF Release, ConnectionsAfter, AfterFinally, TypeOK
    <2>2. Leaked' \subseteq Leaked
        BY <2>1 DEF Leaked, TypeOK
    <2>3. IsFiniteSet(connections') /\ Cardinality(connections') <= PoolSize /\ Cardinality(Leaked') <= MaxLeaks
        BY <2>1, <2>2, BoundsKept
    <2>4. \A t \in Ticket : Locked(t)' => pc'[lock'[t]] \in {"reading", "checking", "rollback"}
        BY <2>1, LocksKept
    <2> QED
        BY <2>1, <2>3, <2>4 DEF SessionInv, Connected, TypeOK
<1>4. CASE Crash
    <2>1. connections' = {} /\ Leaked' \subseteq Leaked
        BY <1>4 DEF Crash, Leaked
    <2>2. IsFiniteSet(connections') /\ Cardinality(connections') <= PoolSize /\ Cardinality(Leaked') <= MaxLeaks
        BY <2>1, BoundsKept
    <2> QED
        BY <1>4, <2>1, <2>2 DEF Crash, SessionInv, Connected, Locked
<1>5. CASE Others \/ UNCHANGED vars
    <2>1. UNCHANGED <<lock, connections, pc>>
        BY <1>5 DEF Others, SoftDelete, Undelete, Link, Unlink, vars, session, request
    <2> QED
        BY <2>1 DEF SessionInv, Locked, Leaked
<1> QED
    BY <1>1, <1>2, <1>3, <1>4, <1>5 DEF Next, Step, Handle, Find, Write, Finish, Fails

LEMMA SessionHolds == TypeOK /\ SessionInv => HoldersNeverWait
<1> SUFFICES ASSUME TypeOK, SessionInv
             PROVE  HoldersNeverWait
    OBVIOUS
<1>1. \A t \in Ticket : Locked(t) => lock[t] \in Request
    BY DEF TypeOK, Locked
<1> QED
    BY <1>1 DEF SessionInv, Connected, HoldersNeverWait

(* Whatever the number of requests and the size of the pool, no circle of  *)
(* requests wait for each other's locks and connections, and a connection  *)
(* is lost only to a failing BEGIN.                                        *)
THEOREM NoCircularWait == Spec => []HoldersNeverWait
<1>1. Init => TypeOK /\ SessionInv
    BY InitTypeOK, InitSessionInv
<1>2. TypeOK /\ SessionInv /\ [Next]_vars => TypeOK' /\ SessionInv'
    BY NextTypeOK, NextSessionInv
<1> QED
    BY <1>1, <1>2, SessionHolds, PTL DEF Spec

(* The holder of a row lock has what it needs; and of a full pool some     *)
(* connection is not lost, so its request is at work, or waits for the     *)
(* holder of a row lock.                                                   *)
LEMMA SomebodyCanGoOn ==
    ASSUME MaxLeaks < PoolSize, TypeOK, SessionInv
    PROVE  SomebodyGoesOn
<1>1. ASSUME NEW r \in Request, pc[r] = "locking", Locked(Id(r))
      PROVE  \E s \in connections : pc[s] # "done" /\ ~Waiting(s)
    <2>1. PICK t \in Ticket : t = Id(r)
        BY DEF TypeOK, Id
    <2>2. PICK s \in connections : s = lock[t] /\ pc[s] \in {"reading", "checking", "rollback"}
        BY <1>1, <2>1, SessionHolds DEF HoldersNeverWait
    <2> QED
        BY <2>2 DEF Waiting
<1>2. ASSUME ~PoolHasFree
      PROVE  \E s \in connections : pc[s] # "done" /\ ~Waiting(s)
    <2>1. connections # Leaked
        <3>1. Cardinality(connections) \in Nat /\ Cardinality(Leaked) \in Nat
            BY SessionFinite
        <3>2. Cardinality(connections) >= PoolSize /\ Cardinality(Leaked) <= MaxLeaks
            BY <1>2, <3>1, TicketsAssumption DEF PoolHasFree, SessionInv
        <3>3. Cardinality(connections) # Cardinality(Leaked)
            BY <3>1, <3>2, TicketsAssumption
        <3> QED
            BY <3>3
    <2>2. PICK s \in connections : pc[s] # "done"
        BY <2>1 DEF Leaked
    <2>3. s \in Request /\ pc[s] \in Connected
        BY <2>2 DEF TypeOK, SessionInv
    <2>4. Waiting(s) => pc[s] = "locking" /\ Locked(Id(s))
        BY <2>3 DEF Waiting, Connected
    <2> QED
        BY <1>1, <2>2, <2>3, <2>4
<1> QED
    BY <1>1, <1>2 DEF SomebodyGoesOn, Waiting

(* No standstill, as long as failing BEGINs leave one connection.          *)
THEOREM NoStandstill ==
    ASSUME MaxLeaks < PoolSize
    PROVE  Spec => []SomebodyGoesOn
<1>1. Init => TypeOK /\ SessionInv
    BY InitTypeOK, InitSessionInv
<1>2. TypeOK /\ SessionInv /\ [Next]_vars => TypeOK' /\ SessionInv'
    BY NextTypeOK, NextSessionInv
<1>3. TypeOK /\ SessionInv => SomebodyGoesOn
    BY SomebodyCanGoOn
<1> QED
    BY <1>1, <1>2, <1>3, PTL DEF Spec
=============================================================================
