---------------------------- MODULE Dependencies ----------------------------
(* POST and DELETE /tickets/:id/dependencies (DependenciesService.add and  *)
(* remove): one action per awaited call, without any transaction around    *)
(* them, while tickets are soft-deleted and restored.                      *)
EXTENDS Naturals, FiniteSets

CONSTANTS
    Ticket,     \* ids of the rows of "tickets"
    projectId,  \* the project of each ticket, fixed at creation
    Request,    \* the requests clients send; each is sent once
    Call,       \* the arguments they may have
    Stored      \* contents of "ticket_dependencies" the service may start from

ASSUME DependenciesAssumption ==
    /\ Call \subseteq [op : {"add", "remove"}, ticketId : Ticket, blockerId : Ticket]
    /\ Stored \subseteq SUBSET (Ticket \X Ticket)

VARIABLES
    isDeleted,      \* the soft-delete flag of each ticket
    dependencies,   \* the table "ticket_dependencies": pairs <<ticketId, blockerId>>
    call,           \* the arguments of each request
    pc,             \* the next step of each request
    queue,          \* wouldCreateCycle: tickets to expand (their order is left open)
    visited,        \* wouldCreateCycle: tickets expanded
    response,       \* what each request was answered
    auditLog        \* the entries of "audit_logs" about dependencies

search == <<queue, visited>>
vars   == <<isDeleted, dependencies, call, pc, search, response, auditLog>>

Pc == {"idle", "findTicket", "findBlocker", "findExisting", "searching",
       "auditing", "findDependency", "deleting", "done"}

(* Each refusal is named for its reason, so that properties can tell them  *)
(* apart; "self", "project", "exists" and "cycle" are answered 400.        *)
Response == {"none", "self", "notFound", "project", "exists", "cycle",
             "ok", "failed", "lost"}

AuditEntry == [call : Call, performedBy : Request]

TypeOK ==
    /\ isDeleted \in [Ticket -> BOOLEAN]
    /\ dependencies \subseteq Ticket \X Ticket
    /\ call \in [Request -> Call]
    /\ pc \in [Request -> Pc]
    /\ queue \in [Request -> SUBSET Ticket]
    /\ visited \in [Request -> SUBSET Ticket]
    /\ response \in [Request -> Response]
    /\ auditLog \subseteq AuditEntry

Init ==
    /\ isDeleted = [t \in Ticket |-> FALSE]
    /\ dependencies \in Stored
    /\ call \in [Request -> Call]
    /\ pc = [r \in Request |-> "idle"]
    /\ queue = [r \in Request |-> {}]
    /\ visited = [r \in Request |-> {}]
    /\ response = [r \in Request |-> "none"]
    /\ auditLog = {}

-----------------------------------------------------------------------------
Op(r)   == call[r].op
Id(r)   == call[r].ticketId
By(r)   == call[r].blockerId
Edge(r) == <<Id(r), By(r)>>

GoTo(r, step) == pc' = [pc EXCEPT ![r] = step]

Answer(r, what) ==
    /\ response' = [response EXCEPT ![r] = what]
    /\ GoTo(r, "done")

(* A step of r at pc "at" that only reads the tables.                      *)
Reading(r, at) ==
    /\ pc[r] = at
    /\ UNCHANGED <<isDeleted, dependencies, call, auditLog>>

(* Goes on to "next" if ok holds; otherwise the handler answers what.      *)
Unless(r, ok, what, next) ==
    \/ ok /\ GoTo(r, next) /\ UNCHANGED response
    \/ ~ok /\ Answer(r, what)

-----------------------------------------------------------------------------
(* add: the request arrives, and is refused at once if it links a ticket   *)
(* to itself.                                                              *)
StartAdd(r) ==
    /\ Reading(r, "idle")
    /\ Op(r) = "add"
    /\ Unless(r, Id(r) # By(r), "self", "findTicket")
    /\ UNCHANGED search

FindTicket(r) ==
    /\ Reading(r, "findTicket")
    /\ Unless(r, ~isDeleted[Id(r)], "notFound", "findBlocker")
    /\ UNCHANGED search

SameProject(r) == projectId[Id(r)] = projectId[By(r)]

FindBlocker(r) ==
    /\ Reading(r, "findBlocker")
    /\ IF isDeleted[By(r)]
       THEN Answer(r, "notFound")
       ELSE Unless(r, SameProject(r), "project", "findExisting")
    /\ UNCHANGED search

(* The search for a cycle starts from the new blocker.                     *)
FindExisting(r) ==
    /\ Reading(r, "findExisting")
    /\ Unless(r, Edge(r) \notin dependencies, "exists", "searching")
    /\ queue' = [queue EXCEPT ![r] = {By(r)}]
    /\ visited' = [visited EXCEPT ![r] = {}]

(* Mutants: the search follows what a ticket blocks; it queues the rows    *)
(* themselves.                                                             *)
BlockedBy(t) == {b \in Ticket : <<b, t>> \in dependencies}

RowsOf(t) == {edge \in dependencies : edge[1] = t}

BlockersOf(t) == {b \in Ticket : <<t, b>> \in dependencies}

CycleFound(r) ==
    /\ Reading(r, "searching")
    /\ Id(r) \in queue[r]
    /\ Answer(r, "cycle")
    /\ UNCHANGED search

(* Mutant: nothing is ever marked.                                         *)
Unmarked(seen, t) == seen

Marked(seen, t) == seen \cup {t}

(* The next ticket of the queue: skipped if visited, else its blockers are *)
(* fetched and queued.                                                     *)
Expand(r) ==
    /\ Reading(r, "searching")
    /\ \E t \in queue[r] \ {Id(r)} :
           IF t \in visited[r]
           THEN /\ queue' = [queue EXCEPT ![r] = @ \ {t}]
                /\ UNCHANGED visited
           ELSE /\ queue' = [queue EXCEPT ![r] = (@ \ {t}) \cup BlockersOf(t)]
                /\ visited' = [visited EXCEPT ![r] = Marked(@, t)]
    /\ UNCHANGED <<pc, response>>

(* Mutant: only the new blocker's own blockers are looked at.              *)
NoDirectCycleFound(r) ==
    pc[r] = "searching" /\ By(r) \in visited[r] /\ Id(r) \notin queue[r]

NoCycleFound(r) == pc[r] = "searching" /\ queue[r] = {}

(* save() inserts the row, or finds it there and has nothing to do.        *)
Save(r) ==
    /\ NoCycleFound(r)
    /\ dependencies' = dependencies \cup {Edge(r)}
    /\ GoTo(r, "auditing")
    /\ UNCHANGED <<isDeleted, call, search, response, auditLog>>

(* save() looked before the same row was inserted by another request.      *)
SaveConflicts(r) ==
    /\ Reading(r, "searching")
    /\ NoCycleFound(r)
    /\ Edge(r) \in dependencies
    /\ Answer(r, "failed")
    /\ UNCHANGED search

-----------------------------------------------------------------------------
(* remove.                                                                 *)
StartRemove(r) ==
    /\ Reading(r, "idle")
    /\ Op(r) = "remove"
    /\ GoTo(r, "findDependency")
    /\ UNCHANGED <<search, response>>

FindDependency(r) ==
    /\ Reading(r, "findDependency")
    /\ Unless(r, Edge(r) \in dependencies, "notFound", "deleting")
    /\ UNCHANGED search

(* The DELETE matches the row or nothing: its count is not looked at.      *)
Delete(r) ==
    /\ pc[r] = "deleting"
    /\ dependencies' = dependencies \ {Edge(r)}
    /\ GoTo(r, "auditing")
    /\ UNCHANGED <<isDeleted, call, search, response, auditLog>>

-----------------------------------------------------------------------------
Entry(r) == [call |-> call[r], performedBy |-> r]

Audit(r) ==
    /\ pc[r] = "auditing"
    /\ auditLog' = auditLog \cup {Entry(r)}
    /\ Answer(r, "ok")
    /\ UNCHANGED <<isDeleted, dependencies, call, search>>

(* Any call to the database may fail; no filter maps the error.            *)
QueryFails(r) ==
    /\ pc[r] \notin {"idle", "done"}
    /\ Answer(r, "failed")
    /\ UNCHANGED <<isDeleted, dependencies, call, search, auditLog>>

(* The process dies: each statement was committed by itself.               *)
Crash ==
    /\ pc' = [r \in Request |-> IF pc[r] = "idle" THEN "idle" ELSE "done"]
    /\ response' = [r \in Request |->
           IF pc[r] \in {"idle", "done"} THEN response[r] ELSE "lost"]
    /\ UNCHANGED <<isDeleted, dependencies, call, search, auditLog>>

(* Soft deletes and restores of other handlers.                            *)
ToggleDeleted(t) ==
    /\ isDeleted' = [isDeleted EXCEPT ![t] = ~@]
    /\ UNCHANGED <<dependencies, call, pc, search, response, auditLog>>

Add(r) ==
    \/ FindTicket(r) \/ FindBlocker(r) \/ FindExisting(r)
    \/ CycleFound(r) \/ Expand(r) \/ Save(r) \/ SaveConflicts(r)

Remove(r) == FindDependency(r) \/ Delete(r)

Handle(r) == Add(r) \/ Remove(r) \/ Audit(r)

(* Every step but the arrival of an add request.                           *)
Rest ==
    \/ \E r \in Request : StartRemove(r) \/ Handle(r) \/ QueryFails(r)
    \/ Crash
    \/ \E t \in Ticket : ToggleDeleted(t)

Next == Rest \/ \E r \in Request : StartAdd(r)

Spec == Init /\ [][Next]_vars

(* PostgreSQL answers every call a handler has made.                       *)
FairSpec == Spec /\ \A r \in Request : WF_vars(Handle(r))

(* A chain of blockers never comes back to where it began: every set of    *)
(* tickets has one that none of the others blocks.                         *)
Acyclic ==
    \A S \in SUBSET Ticket :
        S # {} => \E t \in S : \A b \in S : <<t, b>> \notin dependencies

(* An add request between its first check and its INSERT.                  *)
Adding(r) ==
    pc[r] \in {"findTicket", "findBlocker", "findExisting", "searching"}

(* Add requests served one at a time, from a table without cycles; the     *)
(* removals and soft deletes are as concurrent as ever.                    *)
StartAddAlone(r) == StartAdd(r) /\ \A s \in Request : ~Adding(s)

SerialInit == Init /\ Acyclic
SerialNext == Rest \/ \E r \in Request : StartAddAlone(r)
SerialSpec == SerialInit /\ [][SerialNext]_vars

-----------------------------------------------------------------------------
Graph == INSTANCE DependencyGraph

(* Served one at a time, an add of seven awaited calls is one INSERT whose *)
(* conditions hold at that instant: a new row, within a project, closing   *)
(* no cycle (wouldCreateCycle) in the table as it is by then.              *)
AtomicAdds == Graph!Spec

(* While no dependency is removed, "would create a circular dependency" is *)
(* only answered when it would.                                            *)
CycleRefusalJustified ==
    \A r \in Request : response[r] = "cycle" => Graph!LeadsTo(By(r), Id(r))

(* The search ends and the request is answered, also on a graph that other *)
(* requests change under it and that already has a cycle.                  *)
EveryCallAnswered ==
    \A r \in Request : pc[r] \notin {"idle", "done"} ~> pc[r] = "done"

=============================================================================
