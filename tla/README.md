# IssueFlow: a TLA+ verification project

IssueFlow is a ticket tracker: a NestJS service with TypeORM over PostgreSQL. Every HTTP
handler is an async function; Node interleaves them at every `await`, and PostgreSQL (READ
COMMITTED, the default) interleaves the statements they send. Only two handlers open a
transaction (PATCH of a ticket and of a comment); everywhere else each awaited repository call
is a statement committed by itself. What is hard about this program is therefore not in any
one function but between their lines, and that is what is modelled here.

Paths below are relative to `src/src/`.

## 1. Inventory

| component | state | operations | what is hard | what makes it correct |
|---|---|---|---|---|
| Ticket update, `tickets/tickets.service.ts:223` | a row of `tickets`, its row lock, a pool connection | PATCH: SELECT FOR UPDATE, status rules, blocker look-up, UPDATE, COMMIT, audit | interleaved patches, edges and blockers that change during the look-up, lock timeout, connection held while waiting, crash before the audit entry | PATCH takes effect at one instant at which all its rules hold; DONE is final; everybody is answered |
| Escalation cron, `tickets/tickets-escalation.service.ts` | the rows it read, one index into them | read overdue tickets, then UPDATE and audit each | writes from a stale read; an exception ends the run | only overdue tickets are promoted, by one level; flag and priority agree; overdue tickets reach CRITICAL |
| Dependencies, `dependencies/dependencies.service.ts` | `ticket_dependencies`; BFS queue and visited set | add (five checks, a search, INSERT), remove, findAll | check and insert are separate statements; the graph changes under the search | no cycles; refusals are justified; the search ends |
| Creation and auto-assignment, `tickets.service.ts:107,173` | `tickets` | count open tickets per developer, INSERT, audit | counts are stale at the INSERT | least loaded developer of the counts read, ties to the lowest id |
| CSV import and export, `tickets.service.ts:359,400` | none of its own | row by row create | one row failing among many; row numbering | every row is created or reported once |
| Soft delete and restore, `tickets.service.ts:328,510`, `projects/projects.service.ts:145,189` | `isDeleted` of projects, tickets, comments | cascades of bulk UPDATEs, one statement each | crash or creation between the statements; restore brings back what was deleted on its own | nothing live under something deleted |
| Comments and mentions, `comments/comments.service.ts`, `mentions/mentions.service.ts` | `comments`, `comment_mentions` | create, update (row lock), remove; mentions rewritten after the commit | two edits commit in one order and write mentions in the other | mentions match the content |
| Attachments, `attachments/attachments.service.ts` | `attachments` and files on disk | upload (file first), remove (file first) | failure between disk and database | a row has its file, a file has its row |
| Authentication, `auth/` | blacklist of tokens | login, logout, guard, nightly cleanup | cleanup against token expiry; role and user read from the token | a logged-out token is never accepted again |
| Users, `users/users.service.ts` | `users` | create, update, soft delete | uniqueness race | user names are unique |
| Audit log, `audit-logs/` | `audit_logs`, append-only | log, findAll | always a separate statement, last | an entry for every change |

Interactions: every handler ends in `AuditLogsService.log`; PATCH reads
`ticket_dependencies`; the foreign keys of `ticket_dependencies` make its INSERT lock both
tickets FOR KEY SHARE, and so wait for a PATCH; the cron and the soft deletes write the rows
PATCH locks. There are no messages or queues; everything is shared tables and one pool of
connections.

## 2. Modules

| module | what it is |
|---|---|
| `TicketRules` | enums, the ticket row, the PATCH body, `STATUS_ORDER`, what a patch does to a row |
| `TicketLifecycle` | abstract: tickets and dependencies with an atomic PATCH and all its rules |
| `EscalatedLifecycle` | abstract: the same board with the cron's writes, one row at a time |
| `DependencyGraph` | abstract: a table of dependencies whose insertion refuses duplicates, cycles and other projects in one step |
| `Tickets` | `TicketsService.update`, one action per awaited call, with row locks, pool, failures and crash |
| `TicketsProofs` | theorems about `Tickets`, for every value of the constants |
| `Escalation` | extends `Tickets` with the cron |
| `EscalationProofs` | theorems about `Escalation` |
| `Dependencies` | `DependenciesService.add` (with the BFS of `wouldCreateCycle`) and `remove` |
| `DependenciesProofs` | theorems about `Dependencies` |
| `SoftDelete` | `remove` and `restore` of projects and tickets, creation of tickets and comments, removal of comments |
| `SoftDeleteProofs` | theorems about `SoftDelete` |
| `Server` | what the handlers on one ticket share: requests, their steps and answers, failures, the deletion of the ticket |
| `Comments` | `CommentsService.create`, `update`, `remove` and `MentionsService.saveMentions`, `updateMentions` |
| `Attachments` | upload (from Multer on) and removal of files: the disk and the table |
| `TicketCreation` | `TicketsService.create`, `autoAssign`, `importFromCsv` |
| `TicketApi` | composes `Comments`, `Attachments` and `TicketCreation` on one `Server` |
| `TicketApiProofs` | theorems about `TicketApi` |
| `Accounts` | users, login, logout, the guards, the token blacklist and its nightly pruning, on a clock |
| `AccountsProofs` | theorems about `Accounts` |
| `MCTickets`, `MCEscalation`, `MCDependencies`, `MCSoftDelete`, `MCTicketApi`, `MCAccounts` | the constants of the TLC instances |

### Tickets

`tickets` and `dependencies` are the tables. `lock[t]` is the request holding the FOR UPDATE
lock of row t, `connections` the requests holding a pool connection, `pc[r]` the next awaited
call of request r, `todo[r]` the blockers its loop has yet to look up, `response[r]` its answer,
`auditLog` the UPDATE entries. `updated` is a history variable: the requests that committed.

| step of `update` | action |
|---|---|
| `connect`, `startTransaction` (228-230) | `Connect`; `BeginFails` when BEGIN errors: outside the `try`, so the connection is never released |
| `SET LOCAL lock_timeout`, SELECT FOR UPDATE and the checks on its row (234-259) | `FindNothing` (404), `FindRefused` (400), `FindForUpdate`; `LockTimeout` (409) |
| `find` of the dependencies (262-265) | `ReadDependencies` |
| one turn of the loop (266-275) | `BlockerResolved`, `BlockerUnresolved` (400) |
| UPDATE and COMMIT (278-292) | `Commit`, or `UpdateRefused` when a column refuses the value (500) |
| `catch`, `finally` (293-309) | `Rollback`, `Release` |
| audit log (312) | `Audit`, `AuditFails` |
| any failing statement; process death | `QueryFails`, `Crash` |

The statements of other handlers that touch the same rows are actions too: `SoftDelete`,
`Undelete` (wait for the row lock), `Link` (waits for the row locks of both tickets, through the
foreign keys), `Unlink` (waits for nothing). What those handlers check first is left out, so they
may happen at any time: more behaviours than the code has, never fewer.

Abstractions: title, description and type carry no rule and are dropped; a due date is past or
future; the SELECT and the checks on its row are one step, because nobody can write the row in
between (it is locked); UPDATE and COMMIT are one step, because an uncommitted UPDATE of a locked
row is seen by nobody; a blocker row always exists (tickets are never hard-deleted). A ticket id
that does not exist behaves like a deleted ticket. The ROLLBACK and the release of a connection
are assumed to succeed.

### Escalation

`batch[t]` is the priority the run read for t (tickets it passes over are not in it), `escalated`
the ticket whose audit entry is due. `ReadOverdue` is the SELECT (60), `Escalate(t)` the UPDATE
(79), written from `batch[t]` to the row as it is then, `AuditEscalation` the entry (80),
`EscalateFails` an exception that leaves the loop. `DueDatePasses` is the clock. Runs start twelve
hours apart and are assumed not to overlap. The order of a batch, which the SELECT leaves open, is
left open.

### Dependencies

One pc value per awaited call of `add` and `remove`. `queue` and `visited` are the BFS's; the
queue is a set, its order left open. The tables are shared, so every read sees what is committed
at that moment. A refusal is named for its reason (`self`, `project`, `exists` and `cycle` are all
400). `Save` covers TypeORM's save(): insert, or nothing to do if the row is there;
`SaveConflicts` is the primary-key violation when two saves race. `ToggleDeleted` stands for soft
deletes and restores. The row locks the INSERT waits for are in `Tickets` (`Link`).

### SoftDelete

`project`, `ticket` and `comment` give `isDeleted` of each row, and `absent` for one not inserted
yet. One action per statement: `FindProject`, `SelectTickets`, `UpdateTickets`, `UpdateComments`,
`UpdateProject` for a project (tickets first, then their comments); `FindTicket`, `UpdateComments`,
`UpdateTicket` for a ticket (comments first); `ValidateTicket` and `Insert`, or `FindComment` and
`UpdateComment`, for a comment; `Insert` alone for a ticket, since `create` does not look at the
project. Removal and restore are the same code with `isDeleted` turned round (`From`, `Onto`). The
bulk UPDATE of the tickets evaluates its WHERE clause when it runs, the one of the comments uses
the ids selected before; both are as in the code. `QueryFails` ends one request, `Crash` all of
them, and what they wrote stays.

`disturbed` is a history variable: the projects on which a removal and a creation or restore
overlapped, or on which a removal of the project or a restore of a ticket ended between the two
statements that leave comments live under a deleted ticket. `deletedAt` is set with `isDeleted` and
left out; the mentions of a comment are in `Comments`. A pair of ids that do not belong together
(comment and ticket) is a 404 like any other row not found.

### Server, Comments, Attachments, TicketCreation, TicketApi

`Server` gives every request what it asks for (`call`, fixed when it is sent), the next awaited
call of its handler (`pc`) and its answer. `CutShort` is an awaited call that throws, or the death
of the process during it: both end the handler where it is, and nothing undoes what it wrote. A
component adds its tables and its handlers; `TicketApi` is their interleaving, so that requests of
different kinds run at the same time and share the failures and the deletion of the ticket.

| code | actions |
|---|---|
| `validateTicket` of `comments.service.ts` | `ValidateTicket` |
| `CommentsService.create` (80) | `InsertComment`, `AuthorUnknown` (the foreign key: 400), then the mentions |
| `CommentsService.update` (123-176): SELECT FOR UPDATE, UPDATE and COMMIT | `LockComment` (404 releases the lock), `LockTimeout` (409), `CommitContent` |
| `updateMentions`, `saveMentions` | `ClearMentions`, then `SaveMention` once per name, `LoseMention`, `EndMentions` |
| `CommentsService.remove` | `FindComment`, `HideComment` (waits for the row lock) |
| `FileInterceptor`, `fileFilter`, `ParseIntPipe` | `ReceiveFile`, `RefuseFile`, `RefuseTicketId` |
| `AttachmentsService.upload` | `RefuseSize`, `RefuseDeletedTicket`, `FindTicket`, `SaveAttachment` |
| `AttachmentsService.remove` | `FindAttachment`, `UnlinkFile`, `DeleteAttachment` |
| `TicketsService.create`, `autoAssign` | `ListDevelopers`, `CountOpen` (the `Promise.all`, in any order), `InsertTicket`, `AssigneeUnknown`, `AuditCreate`, `AuditAutoAssign` |
| `importFromCsv` | `ParseCsv`; per row `RejectRow`, `InsertRow` or `InsertRowFails`, `AuditRow` or `AuditRowFails`; `EndImport` |

A text is a model value with the set of names in it (`Names`, what `parseUsernames` returns) and a
name has the set of users its ILIKE matches (`Matches`): case is ignored and a `_` matches any
character, so a name may match several users, of which the first row found is mentioned; which one
is left open. `Known` is the users whose name it really is, but for case; where the two differ the
name is a pattern (`IsPattern`). Only the property reads `Known`, the code does not. An UPDATE of a locked row is seen by nobody before its COMMIT, so the two are one
step. `LoseMention` is a save whose error is swallowed, or that finds a row deleted by an
overlapping edit. A file is named for its request, as its UUID is fresh. A record of a CSV file
is valid or not, with an assignee who may not exist. `OthersChange` is everybody who gives work to
a developer, finishes it, or deletes the developer; it happens only while a creation that assigns
automatically has yet to insert, since nobody else reads the loads.

History variables, read by properties only: `unsynced` (comments whose mentions were written by
overlapping requests, or not to the end), `strays` (files that a failure, or a refusal before the
handler, set apart from the table), `drift` (changes of the loads and the developers since
`autoAssign` listed them), `unaudited` (rows inserted without their audit entry).

### Accounts

A token is its claims: user, role, `iat` in seconds. It is valid by its signature and its times
alone, so `Verifies` reads nothing but the clock, `now`, which is finer than a second. `login`
reads the user (`FindByUsername`), compares and signs (`Sign`). A guarded request passes Passport
(`Arrive`), the blacklist (`LookUpToken`), the user's row and the role in the token (`LookUpUser`).
Behind the guards are `Logout`, a route that asks for ADMIN (`Restore`), and `update` and `remove`
of `UsersService` (`FindUser`, then `UpdateUser` or `RemoveUser`). Registration (`HashPassword`,
`CreateUser`) is public; the unique constraint decides, and a deleted user keeps the name.
`CleanupBlacklist` is the cron; it is modelled as free to run at any time, which is more than the
code does. `CutShort` is everything else that ends a request, a wrong password among it. Names and
e-mail addresses are one identity; a request slot is used again after its request.

History: `loggedOut` (tokens whose logout was answered), `afterLogout` (requests that arrived with
such a token), `afterRemoval` (requests that arrived from a deleted user, or were between the look-ups
of the guards, `AtTheGuards`, when their user was removed), `roleSetAt` (the second of a user's last
role change), `outdated` (tokens signed with a role that had changed since the login read it).

Definitions whose comment begins with "Mutant" are plausible mistakes in the code they precede;
nothing in the models uses them. Each property was checked to fail when its mutant takes the place
of the definition that follows it.

## 3. What is checked

| run | shows |
|---|---|
| `tickets_safety` | `ReadsStayValid`: what a PATCH read (row and blockers) still holds when it writes. `AtomicPatch`: it implements `TicketLifecycle`. `DoneOnlyWhenUnblocked`, `DoneIsFrozen`, `StatusMovesForward`. `AnswerMatchesEffect`: a 4xx changed nothing, a 200 was logged, nothing is logged that did not happen. `HoldersNeverWait`: who holds a row lock has a connection and waits for nothing, who waits for the pool holds nothing, and the pool is never overdrawn |
| `tickets_live` | `EveryPatchAnswered`: nobody waits for ever for a row lock or the pool, even if no lock timeout fires. `SomebodyGoesOn`: whenever somebody waits, somebody who holds a connection can take a step |
| `tickets_audit` (violated) | `EveryUpdateAudited`: a crash or error between COMMIT and audit INSERT loses the entry |
| `escalation` | `PatchAndCronAtomic`: with the cron at work a PATCH is still atomic, and an UPDATE of the cron leaves the flag up exactly if it sets CRITICAL and never takes a flagged ticket down (`EscalatedLifecycle`). It is not promised to promote the ticket it meets: one without the flag, raised by hand since the read, it may lower, even from CRITICAL, which is what `escalation_rules` is about; `ReadsStayValid`: the cron changes nothing a PATCH relies on. `OverdueOnlyCritical`: although runs write from old reads, only CRITICAL tickets carry the flag. `OverdueReachesCritical`: a ticket that stays overdue ends up CRITICAL |
| `escalation_rules` (violated) | `EscalatesByTheRules`: a ticket finished, deleted, rescheduled or re-prioritised after the SELECT is escalated from the old row |
| `dependencies_serial` | `Acyclic` when adds do not overlap, with removals, soft deletes, failures and crashes in between. `AtomicAdds`: such an add, look-ups and search and INSERT, is one checked insertion of `DependencyGraph` |
| `dependencies_adders` | `CycleRefusalJustified`: with concurrent adds, and while nothing is removed, an add is refused as circular only if it is. `EveryCallAnswered`: the search ends, on a cyclic graph too |
| `dependencies_race` (violated) | `Acyclic`: two concurrent adds close a cycle, and neither ticket can become DONE |
| `soft_delete` | `DeletedTicketHidesComments`: in a project at rest no comment is live under a deleted ticket (the feed of mentions would show it), unless the project was disturbed. `CleanRemovalCascades`: a removal that answers 200 left nothing live, under the same condition |
| `ticket_api` | `MentionsMatchContent`: at rest a comment mentions the users its content names and nobody else (of a name that is a pattern it asks only that who is mentioned matches), unless writers of its mentions overlapped or one did not finish. `DiskMatchesTable`: a file at rest is on the disk exactly if a row names it, unless a failure or a refusal before the handler set them apart. `ImportReportExact`: an import's report accounts for every row once; what it does not report as failed is inserted, what it does is not, save rows whose audit entry failed. `AssignedWithinDrift`: automatic assignment is off the least loaded developer by no more than what changed since it looked, and exact, ties included, when nothing did. `EditsHoldTheirComment`: from its SELECT to its COMMIT an edit has its comment to itself, unremoved, and no lock outlives its transaction. `EveryRequestAnswered`: whatever is refused, timed out or failed, everybody is answered |
| `accounts` | `LoggedOutStaysOut`: a request that arrives after the logout of its token passes the guards only if the token has expired since, whatever the pruning does. `DeletedUserStaysOut`: no request that arrives from a deleted user passes, nor one that is between the guards' look-ups when the user is deleted, with a token signed before, during or after the removal. `StaleRoleExpires`: an old role in a token lasts less than a token. `BlacklistPruned`: no entry stays for ever |
| `soft_delete_retry` (violated) | `ProjectRemovalCascades`: a removal cut short after its tickets were deleted, and sent again, answers 200 and leaves their comments live |

**Bounds.** Two patches suffice for every pairwise race of a PATCH with a PATCH; a request holds
at most one row lock, so more requests add no new wait. Two tickets give a blocker and a blocked
ticket (and mutual blocking); loops over several blockers are left to the proofs, which have no
bound. `tickets_live` has three requests so that one can leak a connection, one can hold the lock
and one can wait. The bodies include each move, a null status and an unknown assignee, the two
ways a column refuses a body. `MaxLeaks` bounds the connections lost to failing BEGINs: it is
below `PoolSize`, since a pool that has leaked every connection serves nobody. `MaxFailures`
bounds the cron runs cut short (a run that fails for ever promotes nobody); `ByHand` has the two
bodies that meet a run in the ways that matter: one that lowers the priority the run has read, and
one that raises it to CRITICAL, without the flag, and finishes the ticket, whose PATCH is still
looking up blockers while the run writes. Three tickets give
cycles of length two and three, reached by three adds. `soft_delete` has two requests (every overlap of two, and one after
another), two tickets in one project and one in another, a comment in each project, and one
failure; its tables start in any state earlier requests may have left, so that longer histories
need no more requests. More requests are left to the proof.

`ticket_api` has two requests of any two kinds (every overlap of a pair on the same comment, file
or developers, and across components), one failing call at any point, the ticket deleted at any
point and one change made by others. The texts name nobody; a user; and together a pattern that matches
two users and is the name of none, a name that matches nobody, and a user (@al_ @bob @ann). The file has a good row, an invalid one, one with an
unknown assignee and a last good one. The edit and the removal may aim at the comment the other
request creates, and the removal of an attachment at the file it uploads. Three and more writers
are left to the proofs.

`accounts` has one user, two requests at a time and four in all: login, logout (or a role change,
or a removal) and a request that straddles it, or login, logout, login again. `TicksPerSecond` = 2
puts a tick before and one on every boundary of a second; `Lifetime` = 2 and `LoginsUntil` = 1 keep
the tokens few, and `MaxTime` = 7 is past the expiry of the last of them, so every entry of the
blacklist becomes one to prune. Any number of users, requests and ticks is left to the proofs.

**Fairness.** Weak fairness of each handler's own steps, and of the cron's: the event loop resumes
a handler whose call returned, PostgreSQL executes statements sent to it, `@Cron` starts the next
run. In `accounts` the clock (`Tick`) and the nightly pruning are fair, the handlers need not be.
Nothing is assumed of clients, of lock timeouts, of failures, or of other handlers.

## 4. What is proved

TLAPS checks these for every set of tickets, requests and bodies, every pool size and every bound;
the only assumptions are the named ASSUMEs (each ticket has a project and each comment a ticket;
new tickets are live rows without the flag; bodies pass the DTO; `Nobody` is no request; the
stored dependency table relates tickets; a call has the fields its operation reads; ids are
positive; a second has at least one tick).

* `TicketsProofs!TypeCorrect`, and from it `PatchReadsStayValid`. The inductive invariant is
  `TypeOK /\ ReadsStayValid`. It needs the lock conjunct (a handler past its SELECT holds its row,
  so SoftDelete, Link and the Commits of others leave that row and its edges alone) and that DONE
  is final (so a blocker found DONE stays DONE). `DoneUnblocked`, `DoneFrozen`, `StatusForward`
  and the refinement `PatchIsAtomic` follow step by step.
* `NoCircularWait` and `NoStandstill`. The invariant (`SessionInv`) says who has what at each pc: a
  lock only from the SELECT to the ROLLBACK or COMMIT, a connection until the `finally`; and
  that what failing BEGINs kept is counted. So the holder of a row has all it needs, and a full
  pool with fewer leaks than connections (the hypothesis `MaxLeaks < PoolSize` of `NoStandstill`,
  without which it is false) has a holder that is no leak: either it can go on, or it waits for a
  row, whose holder can.
* `AnswersMatchEffects`, from an invariant (`Phase`) that ties pc, answer, commit and audit entry
  of each request together.
* `EscalationProofs!OverdueFlagSound`. `OverdueOnlyCritical` is not inductive: an UPDATE written
  from an old read of LOW could lower a flagged ticket. The strengthening `FlagSound` says that a
  pending promotion read at LOW or MEDIUM finds the flag down, since only the run itself raises it.
* `SoftDeleteProofs!CommentsHiddenWithTicket` and `CleanRemovalIsComplete`. The invariant says that
  a comment live under a deleted ticket always has a request in flight that will deal with it
  (`SeenTo`): a removal of the project about to update the comments, with the ticket among its ids,
  or a restore about to revive the ticket. To keep that, each handler relies on something between
  its statements (`Reliable`), which another could only spoil by racing with it (`NoRace`).
  `DeletedTicketHidesComments` alone is not inductive, since it is false in the middle of every
  removal of a project.
* `EscalationProofs!CronTypeCorrect` comes with the same invariant.
* The theorems of `TicketsProofs` again with the cron at work: `ReadsStayValidWithCron`,
  `NoCircularWaitWithCron`, `NoStandstillWithCron`, `AnswersMatchEffectsWithCron` and
  `StatusRulesWithCron`. A step of the composition is one of `Tickets` or one of the cron
  (`CronOrTickets`), and the cron writes priorities, flags and its own audit entries and leaves
  locks, handlers and every column a rule reads alone (`CronWrites`); so `BoardInv`, the invariants
  of both, is preserved. `DoneIsFrozen` does not carry over, and must not: the cron escalates DONE
  tickets (`escalation_rules`).
* `BoardIsAtomic`: the refinement of `EscalatedLifecycle`. `FlagSound` is what maps the UPDATE of a
  run to `Overwrite`, which a flagged ticket allows to CRITICAL only.
* `DependenciesProofs!SerialAddsStayAcyclic`. `Acyclic` says every non-empty set of tickets has one
  that no other of the set blocks. The invariant `SearchSound` says that what a visited ticket is
  blocked by is visited or queued; when the queue is empty the visited tickets are closed and leave
  out the ticket to be blocked, so a set without such a ticket would have existed before the INSERT.
* `SerialAddsAreAtomic`: the refinement of `DependencyGraph`. At the INSERT the visited tickets are
  the closed set without the ticket to be blocked that refutes `LeadsTo` (`SearchSound`); and the
  pair is not in the table (`EdgesAreNew`), since it was looked for and nobody else adds. Of
  concurrent adds it is false (`dependencies_race`).
* `DependenciesProofs!RefusalsAreJustified`, when every request is an add. The invariant
  (`QueueReached`) says that the new blocker leads to everything in the queue. Rows are only added,
  so what led somewhere still does, although the search mixes rows read at different times.
* `TicketApiProofs`. A handler is only ever at steps of its own operation (`PcOK`), so a step of
  one component leaves the tables and the handlers of another as they are (`ForeignToComments` and
  its like), and each component has an argument of its own:
  - `FilesMatchRows`: a file apart from its row, and no stray, is in the hands of a request between
    its two calls (`DiskInv`); and nobody removes a file before the request that uploads it has
    saved the row (`Attached`), so a removal never crosses an upload of the same file.
  - `MentionsFollowContent`: unless a comment is unsynced, at most one request writes its mentions,
    the content is the one that request wrote, and the names it has yet to look up are the only
    ones that may lack a mention (`Settling`). That the mentions are in step with the matches
    (`InSync`) gives what the property says of names (`InSyncNames`), since who has a name matches it.
  - `ImportsAreAccounted`: of the rows before the next, each is counted once, the errors are in
    order and below the next row's number, and the rows inserted are those that did not fail, those
    that lack an audit entry and the one whose entry is being written (`Accounted`). The number of
    failed rows is the cardinality of the set because each error has a new row number.
  - `AutoAssignWithinDrift`: what an `autoAssign` has counted is off by no more than the changes since
    it listed the developers, each count by itself and any two taken together (`EstimatesInv`): a
    change is to one developer's tickets, so it cannot spoil a comparison twice. `Best` is stated as
    the first of the least loaded; that this is what the `reduce` of the code (`Reduced`, a fold)
    returns is an induction, which TLC checks instead (`ReduceIsBest` in `MCTicketApi`, all sets of
    up to four developers and loads up to three).
  - `EditsAreExclusive`: a comment's lock is held by exactly the edit between its SELECT and its
    COMMIT, in both directions (`EditInv`), and the removal waits for it.
  - `TicketApiTypeCorrect` needs these invariants: the target of a removal is a file because it is
    `Attached`, for example.
* `AccountsProofs!AccountsTypeCorrect`, `LogoutHolds`, `RemovalHolds`, `StaleRoleBounded`. The
  invariant (`AccountsInv`) adds three facts to the types. A token that was logged out is in the
  table or has expired: an entry is pruned only when `expiresAt`, the exact end of the token's life,
  is over (`PrunedIsExpired`). A request that is late for its token or its user, because it arrived
  late or because the removal found it between the guards (`RemovedIsLate`), finds that out before it
  is handled. And a token with another role than the user's was signed no later than
  `roleSetAt`, unless it is `outdated`.

Only model-checked: liveness (`EveryPatchAnswered`, `OverdueReachesCritical`, `EveryCallAnswered`,
`EveryRequestAnswered`, `BlacklistPruned`), which TLAPS cannot prove, and the equation of `Best`
with the fold. Every other property of a passing run is a theorem. The four violated properties have
no theorem, of course.

## 5. What the checks found

1. The audit entry of an update can be lost (`tickets_audit`); every other handler writes its entry
   the same way.
2. The cron escalates DONE, deleted or rescheduled tickets and overwrites a priority set by hand if
   the change falls between its SELECT and its UPDATE (`escalation_rules`). The overwriting may lower
   it: a ticket read at LOW and raised by hand to HIGH or CRITICAL goes down to MEDIUM, where
   `tickets-escalation.service.ts:6-7` says that a priority is promoted one level.
3. Concurrent adds can close a dependency cycle (`dependencies_race`).
4. A removal of a project that is cut short and repeated answers 200 and never reaches the comments
   (`soft_delete_retry`). The removal of a ticket, which updates the comments first, can be
   repeated safely.

What might be expected to go wrong and does not: a dependency added while a PATCH to DONE is
looking up blockers. The foreign keys of `ticket_dependencies` make the INSERT wait for the PATCH;
without them (`ForeignKeysMissing`) `ReadsStayValid` and `AtomicPatch` fail.

Things the code does that a reader may not expect, some of them against its own comments; the models
do them too, no run is spent on them, and the properties concerned make an exception that is named:

* Two edits of a comment that overlap can commit in one order and write their mentions in the
  other: `comments.service.ts` releases the row lock before it rewrites them. The mentions then
  stay apart from the content until the next edit, although `mentions/comment-mention.entity.ts:7-8`
  says they are kept in step with it. `MentionsMatchContent` excepts exactly these comments.
* `@al_` mentions somebody called al1 although nobody is called al_, or in place of the user who is,
  since ILIKE takes the `_` for a wildcard (`mentions.service.ts:41`). The comments there (4-6, 29-32)
  say that a username is looked up case-insensitively and that unknown ones are ignored.
  `MentionsMatchContent` takes no side where a name is a pattern (`IsPattern`).
* An import reports a row as failed although it is inserted, when its audit entry fails
  (`unaudited`); a client that sends the row again inserts it twice.
* `importFromCsv` numbers rows i + 2, the header being row 1; its comment
  (`tickets.service.ts:392`) says that row 1 is the first data row.
* A file uploaded with a ticket id that is no number is refused by `ParseIntPipe` after Multer has
  written it, and stays on the disk (`strays`).
* Two logins of a user within a second get the same token, so that logging out of one logs out of
  the other. `POST /auth/login` answers `expiresIn: 3600` whatever JWT_EXPIRES_IN is.
* A role change is noticed when the user logs in again; until then the token's role counts, for at
  most a token's lifetime.

What the history variables `disturbed`, `unsynced`, `strays` and `unaudited` except is thus not shown
not to happen; it does. The properties that read them show that nothing else has the same effect.

Left as hazards: `add` links a ticket soft-deleted after its check; two removals of one dependency
both report success; a restore of a project also brings back what was deleted on its own before;
a ticket may be created or restored in a deleted project; a user removed between the look-up and
the UPDATE of `UsersService.update` is updated.

## 6. Not modelled, and the plan

Not modelled, because they change no state: the lists (`findAll`, `findDeleted`, the audit log, the
feed of mentions), `getWorkload`, `exportToCsv`, the download of an attachment; controllers, DTO
decorators and wiring, apart from Multer, `ParseIntPipe` and the guards. What validation lets
through is in the sets of bodies and calls. `create` and `update` of a project set columns that no
rule reads. Hashing and signing are assumed to work.

What is left:

1. `Tickets` and `Dependencies` over the same tables, showing that the free statements of `Tickets`
   (`Link`, `Unlink`, `SoftDelete`) cover what those handlers send. The composition with the cron is
   `Escalation`.
2. Projects: `create` and `update`, with the owner's foreign key.
