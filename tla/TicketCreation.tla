--------------------------- MODULE TicketCreation ---------------------------
(* Tickets created one by one, assigned automatically or not, and imported *)
(* from a CSV file (TicketsService.create, autoAssign, importFromCsv).     *)
EXTENDS Server, Sequences, SequencesExt

CONSTANTS
    Developer,      \* user ids with role DEVELOPER
    MaxChanges      \* bound: changes others make while developers are chosen

Null == 0           \* no assignee: ids are positive

(* What a record of the file comes to: valid if the fields it must have    *)
(* are there, with a value of their enum.                                  *)
CsvRow == [valid : BOOLEAN, assigneeId : Nat, done : BOOLEAN]

ASSUME CreationAssumption ==
    /\ Developer \subseteq Nat \ {Null}
    /\ MaxChanges \in Nat
    /\ \A k \in Call :
           /\ k.op = "createTicket" => k.auto \in BOOLEAN /\ k.assigneeId \in Nat
           /\ k.op = "importTickets" => k.rows \in Seq(CsvRow)

CreationOp == {"createTicket", "importTickets"}

VARIABLES
    developers,     \* those who are not deleted
    open,           \* the open tickets of each in the project
    assignees,      \* the tickets inserted: [request, row, assigneeId]
    candidates,     \* the developers autoAssign has listed
    counts,         \* and the tickets it has counted, of some of them
    nextRow,        \* the row of the file an import has come to
    report,         \* created, failed and errors of importFromCsv
    changes,        \* changes made by others so far
    drift,          \* history: changes since autoAssign listed developers
    unaudited       \* history: rows inserted without an audit entry

autoAssignVars == <<candidates, counts, drift>>
importVars == <<nextRow, report, unaudited>>
creationVars == <<developers, open, assignees, changes, autoAssignVars, importVars>>

NoReport == [created |-> 0, failed |-> 0, errors |-> <<>>]

Rows(r) == call[r].rows
Inserted(r) == {t.row : t \in {t \in assignees : t.request = r}}

CreationTypeOK ==
    /\ developers \subseteq Developer
    /\ open \in [Developer -> Nat]
    /\ assignees \subseteq [request : Request, row : Nat, assigneeId : Developer \cup {Null}]
    /\ \A r \in Request :
           /\ candidates[r] \subseteq Developer
           /\ DOMAIN counts[r] \subseteq candidates[r]
           /\ \A d \in DOMAIN counts[r] : counts[r][d] \in Nat
           /\ Op(r) = "importTickets" =>
                  nextRow[r] \in 1 .. Len(Rows(r)) + 1 /\ unaudited[r] \subseteq Inserted(r)
    /\ changes \in 0 .. MaxChanges
    /\ drift \in [Request -> Nat]

CreationInit ==
    /\ developers \in {Developer, {}}
    /\ open = [d \in Developer |-> 0]
    /\ assignees = {}
    /\ candidates = [r \in Request |-> {}]
    /\ counts = [r \in Request |-> <<>>]
    /\ nextRow = [r \in Request |-> 1]
    /\ report = [r \in Request |-> NoReport]
    /\ changes = 0
    /\ drift = [r \in Request |-> 0]
    /\ unaudited = [r \in Request |-> {}]

-----------------------------------------------------------------------------
(* The developers and their loads change under every running autoAssign.   *)
Drifts == drift' = [s \in Request |-> IF pc[s] = "counting" THEN drift[s] + 1 ELSE drift[s]]

(* A new ticket, open unless it is created DONE.                           *)
Insert(r, row, assigneeId, done) ==
    /\ assignees' = assignees \cup
           {[request |-> r, row |-> row, assigneeId |-> assigneeId]}
    /\ IF assigneeId = Null \/ done THEN UNCHANGED <<open, drift>>
       ELSE open' = [open EXCEPT ![assigneeId] = @ + 1] /\ Drifts
    /\ UNCHANGED <<developers, candidates, counts, changes>>

(* Mutant: the column has no foreign key.                                  *)
NoForeignKey(assigneeId) == FALSE

(* users keeps the rows of deleted users, so only other ids are refused.   *)
ViolatesForeignKey(assigneeId) == assigneeId \notin Developer \cup {Null}

(* autoAssign runs only when the client leaves assigneeId out; an explicit *)
(* null means nobody.                                                      *)
ListDevelopers(r) ==
    /\ Received(r, {"createTicket"}) /\ call[r].auto
    /\ candidates' = [candidates EXCEPT ![r] = developers]
    /\ GoTo(r, "counting")
    /\ NoFailure
    /\ UNCHANGED <<developers, open, assignees, changes, counts, drift, importVars>>

(* Promise.all: the queries answer in any order.                           *)
CountOpen(r) ==
    /\ pc[r] = "counting"
    /\ \E d \in candidates[r] \ DOMAIN counts[r] :
           counts' = [counts EXCEPT ![r] = [x \in DOMAIN @ \cup {d} |->
                          IF x = d THEN open[d] ELSE @[x]]]
    /\ UNCHANGED <<serverVars, developers, open, assignees, changes, candidates, drift, importVars>>

(* order: { id: 'ASC' }.                                                   *)
ById(ids) == SetToSortSeq(ids, LAMBDA a, b : a < b)

(* developers.reduce: the best so far, replaced by one with fewer tickets. *)
Reduced(devs, load) ==
    FoldLeft(LAMBDA a, b : IF load[b] < load[a] THEN b ELSE a,
             Head(ById(devs)), Tail(ById(devs)))

(* What it comes to: the first of those with the fewest open tickets.      *)
LeastLoaded(devs, load) == {a \in devs : \A b \in devs : load[a] <= load[b]}
FirstOf(ids) == CHOOSE a \in ids : \A b \in ids : a <= b

(* Mutant: a later developer wins a tie.                                   *)
LastBest(r) ==
    IF candidates[r] = {} THEN Null
    ELSE LET least == LeastLoaded(candidates[r], counts[r])
         IN  CHOOSE a \in least : \A b \in least : a >= b

(* Nobody if no developer was listed.                                      *)
Best(r) ==
    IF candidates[r] = {} THEN Null
    ELSE FirstOf(LeastLoaded(candidates[r], counts[r]))

AssigneeId(r) == IF call[r].auto THEN Best(r) ELSE call[r].assigneeId

MayInsert(r) ==
    /\ Op(r) = "createTicket"
    /\ IF call[r].auto THEN pc[r] = "counting" /\ candidates[r] = DOMAIN counts[r]
       ELSE pc[r] = "idle"

InsertTicket(r) ==
    /\ MayInsert(r) /\ ~ViolatesForeignKey(AssigneeId(r))
    /\ Insert(r, 1, AssigneeId(r), call[r].done)
    /\ GoTo(r, "auditing")
    /\ NoFailure
    /\ UNCHANGED importVars

AssigneeUnknown(r) ==
    /\ MayInsert(r) /\ ViolatesForeignKey(AssigneeId(r))
    /\ Answer(r, "400")
    /\ NoFailure
    /\ UNCHANGED creationVars

(* CREATE, and AUTO_ASSIGN when somebody was chosen.                       *)
AuditCreate(r) ==
    /\ pc[r] = "auditing" /\ Op(r) = "createTicket"
    /\ IF call[r].auto /\ candidates[r] # {} THEN GoTo(r, "auditingAssignment")
       ELSE Answer(r, "201")
    /\ NoFailure
    /\ UNCHANGED creationVars

AuditAutoAssign(r) ==
    /\ pc[r] = "auditingAssignment"
    /\ Answer(r, "201")
    /\ NoFailure
    /\ UNCHANGED creationVars

-----------------------------------------------------------------------------
(* The whole file is parsed first.                                         *)
ParseCsv(r) ==
    /\ Received(r, {"importTickets"})
    /\ IF call[r].parses THEN GoTo(r, "importing") ELSE Answer(r, "400")
    /\ NoFailure
    /\ UNCHANGED creationVars

Row(r) == Rows(r)[nextRow[r]]

AtRow(r) == pc[r] = "importing" /\ nextRow[r] <= Len(Rows(r))

(* i + 2: rows are numbered from 1, and the header is the first.           *)
RowNumber(i) == i + 1

(* The catch clause: the row is reported and the loop goes on.             *)
CollectError(r) ==
    /\ report' = [report EXCEPT ![r] =
                      [created |-> @.created, failed |-> @.failed + 1,
                       errors |-> Append(@.errors, RowNumber(nextRow[r]))]]
    /\ nextRow' = [nextRow EXCEPT ![r] = @ + 1]
    /\ GoTo(r, "importing")

(* A field is missing or no value of its enum, or nobody has the id.       *)
RejectRow(r) ==
    /\ AtRow(r)
    /\ ~Row(r).valid \/ ViolatesForeignKey(Row(r).assigneeId)
    /\ CollectError(r)
    /\ NoFailure
    /\ UNCHANGED <<developers, open, assignees, changes, autoAssignVars, unaudited>>

InsertRow(r) ==
    /\ AtRow(r) /\ Row(r).valid /\ ~ViolatesForeignKey(Row(r).assigneeId)
    /\ Insert(r, nextRow[r], Row(r).assigneeId, Row(r).done)
    /\ GoTo(r, "auditingRow")
    /\ NoFailure
    /\ UNCHANGED importVars

InsertRowFails(r) ==
    /\ AtRow(r) /\ Row(r).valid
    /\ CollectError(r)
    /\ Fails
    /\ UNCHANGED <<developers, open, assignees, changes, autoAssignVars, unaudited>>

(* Mutant: the row counts as created before its entry is written.          *)
CountRowEarly(r) ==
    /\ pc[r] = "auditingRow"
    /\ report' = [report EXCEPT ![r] =
                      [created |-> @.created + 1, failed |-> @.failed + 1,
                       errors |-> Append(@.errors, RowNumber(nextRow[r]))]]
    /\ nextRow' = [nextRow EXCEPT ![r] = @ + 1]
    /\ unaudited' = [unaudited EXCEPT ![r] = @ \cup {nextRow[r]}]
    /\ GoTo(r, "importing")
    /\ Fails
    /\ UNCHANGED <<developers, open, assignees, changes, autoAssignVars>>

(* The row is reported as failed although it is inserted.                  *)
AuditRowFails(r) ==
    /\ pc[r] = "auditingRow"
    /\ CollectError(r)
    /\ unaudited' = [unaudited EXCEPT ![r] = @ \cup {nextRow[r]}]
    /\ Fails
    /\ UNCHANGED <<developers, open, assignees, changes, autoAssignVars>>

AuditRow(r) ==
    /\ pc[r] = "auditingRow"
    /\ report' = [report EXCEPT ![r] =
                      [created |-> @.created + 1, failed |-> @.failed, errors |-> @.errors]]
    /\ nextRow' = [nextRow EXCEPT ![r] = @ + 1]
    /\ GoTo(r, "importing")
    /\ NoFailure
    /\ UNCHANGED <<developers, open, assignees, changes, autoAssignVars, unaudited>>

EndImport(r) ==
    /\ pc[r] = "importing" /\ nextRow[r] > Len(Rows(r))
    /\ Answer(r, "200")
    /\ NoFailure
    /\ UNCHANGED creationVars

-----------------------------------------------------------------------------
CreationCutShort(r) ==
    /\ CutShort(r, CreationOp)
    /\ UNCHANGED creationVars

(* Others give a developer work, finish or delete it, or delete the user.  *)
OthersChange ==
    /\ changes < MaxChanges
    /\ \E r \in Request : Op(r) = "createTicket" /\ call[r].auto /\ Inserted(r) = {}
    /\ changes' = changes + 1
    /\ \E d \in Developer :
           \/ open' = [open EXCEPT ![d] = @ + 1] /\ UNCHANGED developers
           \/ open[d] > 0 /\ open' = [open EXCEPT ![d] = @ - 1] /\ UNCHANGED developers
           \/ d \in developers /\ developers' = developers \ {d} /\ UNCHANGED open
    /\ Drifts
    /\ UNCHANGED <<serverVars, assignees, candidates, counts, importVars>>

HandleCreation(r) ==
    \/ ListDevelopers(r) \/ CountOpen(r) \/ InsertTicket(r) \/ AssigneeUnknown(r)
    \/ AuditCreate(r) \/ AuditAutoAssign(r)
    \/ ParseCsv(r) \/ RejectRow(r) \/ InsertRow(r) \/ AuditRow(r) \/ EndImport(r)

CreationFault(r) == InsertRowFails(r) \/ AuditRowFails(r) \/ CreationCutShort(r)

-----------------------------------------------------------------------------
AutoAssigned(r) ==
    Op(r) = "createTicket" /\ call[r].auto /\ Inserted(r) = {} /\ Inserted(r)' # {}

(* The developer autoAssign chooses has at most as many more open tickets  *)
(* than any other it listed as there were changes (the other creations     *)
(* that run at the same time among them) since it listed them; without     *)
(* any, it is a developer who is not deleted and the one with the lowest   *)
(* id of those with the fewest.  Nobody is chosen only if there is none.   *)
AssignedWithinDrift ==
    [][\A r \in Request : AutoAssigned(r) =>
           \A t \in assignees' \ assignees :
               /\ t.assigneeId = Null <=> candidates[r] = {}
               /\ \A d \in candidates[r] :
                      /\ open[t.assigneeId] <= open[d] + drift[r]
                      /\ drift[r] = 0 =>
                             /\ t.assigneeId \in developers
                             /\ open[d] = open[t.assigneeId] => t.assigneeId <= d]_creationVars

(* The report of an import that ends accounts for every row once, in the   *)
(* order of the file: created, or failed with an error.  The rows without  *)
(* an error are inserted and the others are not, except for a row whose    *)
(* audit entry could not be written: reported as failed, it is there.      *)
ImportReportExact ==
    \A r \in Request : Op(r) = "importTickets" /\ response[r] = "200" =>
        LET errors == report[r].errors
            failed == {i \in DOMAIN Rows(r) : \E k \in DOMAIN errors : errors[k] = RowNumber(i)}
        IN  /\ report[r].created + report[r].failed = Len(Rows(r))
            /\ report[r].failed = Cardinality(failed)
            /\ \A k \in 2 .. Len(errors) : errors[k - 1] < errors[k]
            /\ Inserted(r) = (DOMAIN Rows(r) \ failed) \cup unaudited[r]
=============================================================================
