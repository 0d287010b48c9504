----------------------------- MODULE SoftDelete -----------------------------
(* Soft delete and restore of projects, tickets and comments, against the  *)
(* creation of tickets and comments.  No handler here opens a transaction: *)
(* each awaited call is a statement committed by itself, and the cascades  *)
(* are bulk UPDATEs between which anything may happen.                     *)
EXTENDS Naturals, FiniteSets

CONSTANTS
    Project, Ticket, Comment,   \* ids of rows, inserted already or later
    ProjectOf,      \* the projectId of each ticket
    TicketOf,       \* the ticketId of each comment
    Request,        \* the requests clients send; each is sent once
    MaxFailures     \* bound: requests cut short

ASSUME SoftDeleteAssumption ==
    /\ ProjectOf \in [Ticket -> Project]
    /\ TicketOf \in [Comment -> Ticket]
    /\ MaxFailures \in Nat

VARIABLES
    project,    \* "projects": live or deleted (isDeleted)
    ticket,     \* "tickets": absent until inserted, then live or deleted
    comment,    \* "comments"
    call,       \* the operation and the row of each request
    pc,         \* the next awaited call of each request
    ticketIds,  \* the tickets a cascade over a project has selected
    response,   \* what each request was answered
    failures,   \* requests cut short so far
    disturbed   \* history: the projects on which a cascade was torn or raced

rows  == <<project, ticket, comment>>
vars  == <<rows, call, pc, ticketIds, response, failures, disturbed>>

ProjectOp == {"removeProject", "restoreProject"}
TicketOp  == {"removeTicket", "restoreTicket"}
Removal   == {"removeProject", "removeTicket"}
Revival   == {"restoreProject", "restoreTicket", "createTicket", "createComment"}

Call ==
    [op : ProjectOp, id : Project]
        \cup [op : TicketOp \cup {"createTicket"}, id : Ticket]
        \cup [op : {"createComment", "removeComment"}, id : Comment]

Pc == {"idle", "reading", "selecting", "tickets", "comments", "ticket",
       "project", "finding", "comment", "inserting", "auditing", "done"}

Response == {"none", "200", "400", "404", "500", "lost"}

Op(r) == call[r].op
Id(r) == call[r].id

(* The project a request is about.                                         *)
Scope(r) ==
    IF Op(r) \in ProjectOp THEN Id(r)
    ELSE IF Op(r) \in TicketOp \cup {"createTicket"} THEN ProjectOf[Id(r)]
    ELSE ProjectOf[TicketOf[Id(r)]]

(* The ticket a request on one ticket or comment is about.                 *)
TicketId(r) ==
    IF Op(r) \in TicketOp \cup {"createTicket"} THEN Id(r) ELSE TicketOf[Id(r)]

InFlight(r) == pc[r] \notin {"idle", "done"}

(* isDeleted in the WHERE clause of a removal or restore, and what it sets. *)
From(r) == IF Op(r) \in Removal THEN "live" ELSE "deleted"
Onto(r) == IF Op(r) \in Removal THEN "deleted" ELSE "live"

(* No comment is live under a ticket that is not.                          *)
Sheltered(p) ==
    \A c \in Comment :
        ProjectOf[TicketOf[c]] = p /\ comment[c] = "live" => ticket[TicketOf[c]] = "live"

ReferencesExist ==
    \A c \in Comment : comment[c] # "absent" => ticket[TicketOf[c]] # "absent"

(* Well-typed rows, and no comment without its ticket: rows are only ever  *)
(* marked as deleted.                                                      *)
SoftDeleteTypeOK ==
    /\ project \in [Project -> {"live", "deleted"}]
    /\ ticket \in [Ticket -> {"absent", "live", "deleted"}]
    /\ comment \in [Comment -> {"absent", "live", "deleted"}]
    /\ call \in [Request -> Call]
    /\ pc \in [Request -> Pc]
    /\ ticketIds \in [Request -> SUBSET Ticket]
    /\ response \in [Request -> Response]
    /\ failures \in Nat
    /\ disturbed \subseteq Project
    /\ ReferencesExist

(* The id of a new row is one that no row has and no other request gets.   *)
FreshId(r) ==
    /\ Op(r) = "createTicket" => ticket[Id(r)] = "absent"
    /\ Op(r) = "createComment" => comment[Id(r)] = "absent"
    /\ Op(r) \in {"createTicket", "createComment"} =>
           \A s \in Request : call[s] = call[r] => s = r

(* Tables as earlier requests, undisturbed, may have left them.            *)
Init ==
    /\ project \in [Project -> {"live", "deleted"}]
    /\ ticket \in [Ticket -> {"absent", "live", "deleted"}]
    /\ comment \in [Comment -> {"absent", "live", "deleted"}]
    /\ ReferencesExist
    /\ \A p \in Project : Sheltered(p)
    /\ call \in [Request -> Call]
    /\ \A r \in Request : FreshId(r)
    /\ pc = [r \in Request |-> "idle"]
    /\ ticketIds = [r \in Request |-> {}]
    /\ response = [r \in Request |-> "none"]
    /\ failures = 0
    /\ disturbed = {}

-----------------------------------------------------------------------------
GoTo(r, step) == pc' = [pc EXCEPT ![r] = step]

Answer(r, code) ==
    /\ GoTo(r, "done")
    /\ response' = [response EXCEPT ![r] = code]

(* A SELECT: go on when it finds its row, otherwise 404.                   *)
Unless404(r, found, next) ==
    /\ \/ found /\ GoTo(r, next) /\ UNCHANGED response
       \/ ~found /\ Answer(r, "404")
    /\ UNCHANGED <<rows, call, ticketIds, failures, disturbed>>

(* A removal and a revival of rows of one project.                         *)
Races(r, s) ==
    /\ Scope(r) = Scope(s)
    /\ \/ Op(r) \in Removal /\ Op(s) \in Revival
       \/ Op(s) \in Removal /\ Op(r) \in Revival

(* The request reaches its handler; TicketsService.create looks up nothing *)
(* that matters here, least of all whether the project is deleted.         *)
Arrive(r) ==
    /\ pc[r] = "idle"
    /\ GoTo(r, IF Op(r) = "createTicket" THEN "inserting" ELSE "reading")
    /\ disturbed' = disturbed \cup
           {Scope(s) : s \in {s \in Request : InFlight(s) /\ Races(r, s)}}
    /\ UNCHANGED <<rows, call, ticketIds, response, failures>>

-----------------------------------------------------------------------------
(* ProjectsService.remove and restore.                                     *)
FindProject(r) ==
    /\ pc[r] = "reading"
    /\ Op(r) \in ProjectOp
    /\ Unless404(r, project[Id(r)] = From(r), "selecting")

Selected(r) == {t \in Ticket : ProjectOf[t] = Id(r) /\ ticket[t] = From(r)}

SelectTickets(r) ==
    /\ pc[r] = "selecting"
    /\ ticketIds' = [ticketIds EXCEPT ![r] = Selected(r)]
    /\ GoTo(r, IF Selected(r) = {} THEN "project" ELSE "tickets")
    /\ UNCHANGED <<rows, call, response, failures, disturbed>>

(* The UPDATE evaluates its WHERE clause again: it may match tickets that  *)
(* are not among the ids selected before.                                  *)
UpdateTickets(r) ==
    /\ pc[r] = "tickets"
    /\ ticket' = [t \in Ticket |-> IF t \in Selected(r) THEN Onto(r) ELSE ticket[t]]
    /\ GoTo(r, "comments")
    /\ UNCHANGED <<project, comment, call, ticketIds, response, failures, disturbed>>

(* Mutant: the comments of the row with the id of the request, whatever    *)
(* table that id is of.                                                    *)
CascadesToOwnId(r, c) == TicketOf[c] = Id(r) /\ comment[c] = From(r)

(* A project cascades to every comment of the selected tickets, a ticket   *)
(* to those of its comments that match isDeleted.                          *)
CascadesTo(r, c) ==
    IF Op(r) \in ProjectOp
    THEN TicketOf[c] \in ticketIds[r] /\ comment[c] # "absent"
    ELSE TicketOf[c] = Id(r) /\ comment[c] = From(r)

UpdateComments(r) ==
    /\ pc[r] = "comments"
    /\ comment' = [c \in Comment |-> IF CascadesTo(r, c) THEN Onto(r) ELSE comment[c]]
    /\ GoTo(r, IF Op(r) \in ProjectOp THEN "project" ELSE "ticket")
    /\ UNCHANGED <<project, ticket, call, ticketIds, response, failures, disturbed>>

UpdateProject(r) ==
    /\ pc[r] = "project"
    /\ project' = [project EXCEPT ![Id(r)] = Onto(r)]
    /\ GoTo(r, "auditing")
    /\ UNCHANGED <<ticket, comment, call, ticketIds, response, failures, disturbed>>

-----------------------------------------------------------------------------
(* TicketsService.remove and restore: the comments first (UpdateComments). *)
FindTicket(r) ==
    /\ pc[r] = "reading"
    /\ Op(r) \in TicketOp
    /\ Unless404(r, ticket[Id(r)] = From(r), "comments")

(* Mutant: the row is deleted for good.                                    *)
HardUpdateTicket(r) ==
    /\ pc[r] = "ticket"
    /\ ticket' = [ticket EXCEPT ![Id(r)] = IF Op(r) \in Removal THEN "absent" ELSE Onto(r)]
    /\ GoTo(r, "auditing")
    /\ UNCHANGED <<project, comment, call, ticketIds, response, failures, disturbed>>

UpdateTicket(r) ==
    /\ pc[r] = "ticket"
    /\ ticket' = [ticket EXCEPT ![Id(r)] = Onto(r)]
    /\ GoTo(r, "auditing")
    /\ UNCHANGED <<project, comment, call, ticketIds, response, failures, disturbed>>

-----------------------------------------------------------------------------
(* Mutant: the ticket need not be live.                                    *)
ExistsTicket(r) == ticket[TicketId(r)] # "absent"

LiveTicket(r) == ticket[TicketId(r)] = "live"

(* CommentsService.validateTicket.                                         *)
ValidateTicket(r) ==
    /\ pc[r] = "reading"
    /\ Op(r) \in {"createComment", "removeComment"}
    /\ Unless404(r, LiveTicket(r),
                 IF Op(r) = "createComment" THEN "inserting" ELSE "finding")

FindComment(r) ==
    /\ pc[r] = "finding"
    /\ Unless404(r, comment[Id(r)] = "live", "comment")

UpdateComment(r) ==
    /\ pc[r] = "comment"
    /\ comment' = [comment EXCEPT ![Id(r)] = "deleted"]
    /\ GoTo(r, "auditing")
    /\ UNCHANGED <<project, ticket, call, ticketIds, response, failures, disturbed>>

(* save() of TicketsService.create and of CommentsService.create.          *)
Insert(r) ==
    /\ pc[r] = "inserting"
    /\ \/ /\ Op(r) = "createTicket"
          /\ ticket' = [ticket EXCEPT ![Id(r)] = "live"]
          /\ UNCHANGED comment
       \/ /\ Op(r) = "createComment"
          /\ comment' = [comment EXCEPT ![Id(r)] = "live"]
          /\ UNCHANGED ticket
    /\ GoTo(r, "auditing")
    /\ UNCHANGED <<project, call, ticketIds, response, failures, disturbed>>

(* A foreign key (assigneeId, authorId) names nobody.                      *)
InsertRefused(r) ==
    /\ pc[r] = "inserting"
    /\ Answer(r, "400")
    /\ UNCHANGED <<rows, call, ticketIds, failures, disturbed>>

-----------------------------------------------------------------------------
(* The audit entry is the last statement of every handler; the mentions a  *)
(* new comment saves before it change none of these rows.  (A creation     *)
(* answers 201.)                                                           *)
Audit(r) ==
    /\ pc[r] = "auditing"
    /\ Answer(r, "200")
    /\ UNCHANGED <<rows, call, ticketIds, failures, disturbed>>

(* What is left half done when a request ends here: tickets are deleted    *)
(* and their comments are not, or comments restored and their ticket not.  *)
Torn(r) ==
    \/ Op(r) = "removeProject" /\ pc[r] = "comments"
    \/ Op(r) = "restoreTicket" /\ pc[r] = "ticket"

TornScopes(ended) == {Scope(r) : r \in {r \in ended : Torn(r)}}

(* A statement fails: nothing undoes those before it.                      *)
QueryFails(r) ==
    /\ InFlight(r)
    /\ failures < MaxFailures
    /\ failures' = failures + 1
    /\ Answer(r, "500")
    /\ disturbed' = disturbed \cup TornScopes({r})
    /\ UNCHANGED <<rows, call, ticketIds>>

(* The process dies, and every request in it.                              *)
Crash ==
    /\ failures < MaxFailures
    /\ failures' = failures + 1
    /\ pc' = [r \in Request |-> IF pc[r] = "idle" THEN "idle" ELSE "done"]
    /\ response' = [r \in Request |-> IF InFlight(r) THEN "lost" ELSE response[r]]
    /\ disturbed' = disturbed \cup TornScopes({r \in Request : InFlight(r)})
    /\ UNCHANGED <<rows, call, ticketIds>>

Handle(r) ==
    \/ FindProject(r) \/ SelectTickets(r) \/ UpdateTickets(r) \/ UpdateProject(r)
    \/ FindTicket(r) \/ UpdateTicket(r) \/ UpdateComments(r)
    \/ ValidateTicket(r) \/ FindComment(r) \/ UpdateComment(r)
    \/ Insert(r) \/ InsertRefused(r) \/ Audit(r) \/ QueryFails(r)

Next == Crash \/ \E r \in Request : Arrive(r) \/ Handle(r)

Spec == Init /\ [][Next]_vars

(* A client that sends the same request again after each answer.           *)
RetryInit == Init /\ \A r, s \in Request : call[r] = call[s]

ArriveNext(r) == Arrive(r) /\ \A s \in Request : ~InFlight(s)

RetryNext == Crash \/ \E r \in Request : ArriveNext(r) \/ Handle(r)

RetrySpec == RetryInit /\ [][RetryNext]_vars

-----------------------------------------------------------------------------
AtRest(p) == \A r \in Request : InFlight(r) => Scope(r) # p

(* Once no request is working on a project, no comment in it is live under *)
(* a deleted ticket (where the feed of mentions would still show it),      *)
(* whatever overlapped or was cut short, except for two things: a removal  *)
(* overlapped with a creation or restore in that project, or the removal   *)
(* of the project, or the restore of a ticket, was cut short between two   *)
(* statements.                                                             *)
DeletedTicketHidesComments ==
    \A p \in Project : AtRest(p) /\ p \notin disturbed => Sheltered(p)

(* The removal of project p is answered with success.                      *)
Removed(p, r) ==
    /\ Op(r) = "removeProject" /\ Id(r) = p
    /\ pc[r] = "auditing" /\ response'[r] = "200"

NothingLive(p) ==
    /\ \A t \in Ticket : ProjectOf[t] = p => ticket[t] # "live"
    /\ \A c \in Comment : ProjectOf[TicketOf[c]] = p => comment[c] # "live"

(* A removal of a project answers 200 only when none of its tickets and    *)
(* comments is live, unless the project was disturbed before, or another   *)
(* request is still working on it.                                         *)
CleanRemovalCascades ==
    [][\A p \in Project, r \in Request :
           Removed(p, r) /\ p \notin disturbed /\ AtRest(p)' => NothingLive(p)]_vars

(* A removal that answers 200 has deleted every ticket and comment of the  *)
(* project, even when it repeats one that was cut short.                   *)
ProjectRemovalCascades ==
    [][\A p \in Project, r \in Request : Removed(p, r) => NothingLive(p)]_vars

=============================================================================
