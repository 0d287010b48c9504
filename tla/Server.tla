------------------------------- MODULE Server -------------------------------
(* What the request handlers on one ticket have in common: a request is    *)
(* sent once, its handler runs from one awaited call to the next, and it   *)
(* is answered, fails, or is lost with the process.  Comments, Attachments *)
(* and TicketCreation add their tables; TicketApi puts them together.      *)
EXTENDS Naturals, FiniteSets

CONSTANTS
    Request,
    Call,           \* what the clients may ask for, a record with field op
    MaxFailures     \* bound: failing calls (of the database, of the file system)

ASSUME ServerAssumption == MaxFailures \in Nat

VARIABLES
    call,               \* what each request asks for
    pc,                 \* the next awaited call of its handler
    response,
    failures,           \* calls that failed so far
    ticketIsDeleted     \* whether the ticket they are all about is deleted

serverVars == <<call, pc, response, failures, ticketIsDeleted>>

Response == {"none", "200", "201", "400", "404", "409", "500"}

Op(r) == call[r].op
InFlight(r) == pc[r] \notin {"idle", "done"}
Received(r, ops) == pc[r] = "idle" /\ Op(r) \in ops

ServerInit ==
    /\ call \in [Request -> Call]
    /\ pc = [r \in Request |-> "idle"]
    /\ response = [r \in Request |-> "none"]
    /\ failures = 0
    /\ ticketIsDeleted = FALSE

GoTo(r, step) ==
    /\ pc' = [pc EXCEPT ![r] = step]
    /\ UNCHANGED response

Answer(r, code) ==
    /\ pc' = [pc EXCEPT ![r] = "done"]
    /\ response' = [response EXCEPT ![r] = code]

(* A failure is one of the bounded number of things that go wrong.         *)
Fails ==
    /\ failures < MaxFailures
    /\ failures' = failures + 1
    /\ UNCHANGED <<call, ticketIsDeleted>>

NoFailure == UNCHANGED <<call, failures, ticketIsDeleted>>

(* A SELECT that answers 404 when it finds nothing.                        *)
Unless404(r, found, next) ==
    /\ IF found THEN GoTo(r, next) ELSE Answer(r, "404")
    /\ NoFailure

(* The audit entry is the last statement of a handler.                     *)
Audit(r, ops, code) ==
    /\ pc[r] = "auditing" /\ Op(r) \in ops
    /\ Answer(r, code)
    /\ NoFailure

(* The awaited call throws, or the process dies during it: nothing undoes  *)
(* the calls before it.  (A dead process answers nothing; the tables and   *)
(* files do not tell the difference.)                                      *)
CutShort(r, ops) ==
    /\ InFlight(r) /\ Op(r) \in ops
    /\ Fails
    /\ Answer(r, "500")

(* Meanwhile the ticket is soft-deleted (SoftDelete has the details).      *)
TicketIsRemoved ==
    /\ ~ticketIsDeleted
    /\ ticketIsDeleted' = TRUE
    /\ UNCHANGED <<call, pc, response, failures>>
=============================================================================
