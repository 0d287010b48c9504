-------------------------- MODULE SoftDeleteProofs --------------------------
(* Proofs about SoftDelete, for every set of rows and requests.            *)
EXTENDS SoftDelete, TLAPS

Types ==
    /\ project \in [Project -> {"live", "deleted"}]
    /\ ticket \in [Ticket -> {"absent", "live", "deleted"}]
    /\ comment \in [Comment -> {"absent", "live", "deleted"}]
    /\ call \in [Request -> Call]
    /\ pc \in [Request -> Pc]
    /\ ticketIds \in [Request -> SUBSET Ticket]
    /\ response \in [Request -> Response]
    /\ failures \in Nat
    /\ disturbed \subseteq Project

(* Which steps a handler takes.                                            *)
StepsOfOp(r) ==
    /\ pc[r] \in {"selecting", "tickets", "project"} => Op(r) \in ProjectOp
    /\ pc[r] = "comments" => Op(r) \in ProjectOp \cup TicketOp
    /\ pc[r] = "ticket" => Op(r) \in TicketOp
    /\ pc[r] \in {"finding", "comment"} => Op(r) = "removeComment"
    /\ pc[r] = "inserting" => Op(r) \in {"createTicket", "createComment"}

(* A row once found stays, deleted perhaps.                                *)
FoundExists(r) ==
    /\ pc[r] = "inserting" /\ Op(r) = "createComment" => ticket[TicketId(r)] # "absent"
    /\ pc[r] = "comment" => comment[Id(r)] # "absent"

(* The ids a cascade has selected are rows of its project.                 *)
SelectsOwn(r) ==
    pc[r] \in {"tickets", "comments"} /\ Op(r) \in ProjectOp =>
        \A t \in ticketIds[r] : ProjectOf[t] = Id(r) /\ ticket[t] # "absent"

(* What a handler relies on between its statements as long as its project  *)
(* is not disturbed.  A new comment goes under a ticket that is live;      *)
Calm(r) == InFlight(r) /\ Scope(r) \notin disturbed

InsertsUnderLive(r) ==
    Calm(r) /\ pc[r] = "inserting" /\ Op(r) = "createComment" => LiveTicket(r)

(* a removal of a project has selected all tickets its UPDATE will match;  *)
SelectionComplete(r) ==
    Calm(r) /\ pc[r] = "tickets" /\ Op(r) = "removeProject"
        => Selected(r) \subseteq ticketIds[r]

(* a removal of a ticket leaves no comment live before it deletes it;      *)
CommentsFirst(r) ==
    Calm(r) /\ pc[r] = "ticket" /\ Op(r) = "removeTicket" =>
        \A c \in Comment : TicketOf[c] = Id(r) => comment[c] # "live"

(* a removal of a project has deleted all its tickets before it goes on;   *)
LeavesNoneLive(r) ==
    Calm(r) /\ pc[r] \in {"comments", "project", "auditing"} /\ Op(r) = "removeProject"
        => Selected(r) = {}

(* a restore of a project restores comments of live tickets only.          *)
TicketsFirst(r) ==
    Calm(r) /\ pc[r] = "comments" /\ Op(r) = "restoreProject" =>
        \A t \in ticketIds[r] : ticket[t] = "live"

Local(r) == StepsOfOp(r) /\ FoundExists(r) /\ SelectsOwn(r)

Reliable(r) ==
    /\ InsertsUnderLive(r) /\ SelectionComplete(r) /\ CommentsFirst(r)
    /\ LeavesNoneLive(r) /\ TicketsFirst(r)

(* This is because no removal overlaps with a creation or a restore.       *)
NoRace ==
    \A r, s \in Request :
        InFlight(r) /\ InFlight(s) /\ Races(r, s) => Scope(r) \in disturbed

(* A comment live under a deleted ticket has a request that will see to it. *)
SeesTo(r, c) ==
    \/ Op(r) = "removeProject" /\ pc[r] = "comments" /\ TicketOf[c] \in ticketIds[r]
    \/ Op(r) = "restoreTicket" /\ pc[r] = "ticket" /\ TicketOf[c] = Id(r)

SeenTo(c) ==
    comment[c] = "live" /\ ticket[TicketOf[c]] # "live"
        => \/ ProjectOf[TicketOf[c]] \in disturbed
           \/ \E r \in Request : SeesTo(r, c)

Typed == Types /\ ReferencesExist /\ \A r \in Request : Local(r)

Orderly ==
    /\ NoRace
    /\ \A r \in Request : Reliable(r)
    /\ \A c \in Comment : SeenTo(c)

IInv == Typed /\ Orderly

-----------------------------------------------------------------------------
(* The arguments of a request never change.                                *)
LEMMA Arguments ==
    ASSUME Types, NEW r \in Request
    PROVE  /\ Scope(r) \in Project
           /\ Op(r) \in ProjectOp => Id(r) \in Project
           /\ Op(r) \in TicketOp \cup {"createTicket"} => Id(r) \in Ticket
           /\ Op(r) \in {"createComment", "removeComment"} => Id(r) \in Comment
BY SoftDeleteAssumption
   DEF Types, Call, Scope, Op, Id, ProjectOp, TicketOp

LEMMA SameCall ==
    ASSUME call' = call
    PROVE  \A r, s \in Request :
               /\ Op(r)' = Op(r) /\ Id(r)' = Id(r) /\ Scope(r)' = Scope(r)
               /\ TicketId(r)' = TicketId(r)
               /\ From(r)' = From(r) /\ Onto(r)' = Onto(r)
               /\ Races(r, s)' = Races(r, s)
BY DEF Op, Id, Scope, TicketId, From, Onto, Races

(* A step of a handler moves that handler alone, and marks at most.        *)
LEMMA StepOf ==
    ASSUME Types, NEW r \in Request, Arrive(r) \/ Handle(r)
    PROVE  /\ call' = call
           /\ \A s \in Request \ {r} : pc'[s] = pc[s]
           /\ \A s \in Request \ {r} : ticketIds'[s] = ticketIds[s]
           /\ disturbed \subseteq disturbed'
           /\ pc'[r] # pc[r]
BY DEF Types, Handle, Arrive, FindProject, SelectTickets, UpdateTickets, UpdateProject,
       FindTicket, UpdateTicket, UpdateComments, ValidateTicket, FindComment,
       UpdateComment, Insert, InsertRefused, Audit, QueryFails, Unless404, GoTo,
       Answer, InFlight

LEMMA InitIInv == Init => IInv
<1> SUFFICES ASSUME Init PROVE IInv
    OBVIOUS
<1>1. Types /\ ReferencesExist
    BY DEF Init, Types, Pc, Response
<1>2. \A r \in Request : pc[r] = "idle"
    BY DEF Init
<1>3. \A r \in Request : Local(r) /\ Reliable(r) /\ ~InFlight(r)
    BY <1>2 DEF Local, StepsOfOp, FoundExists, SelectsOwn, Reliable, InsertsUnderLive,
       SelectionComplete, CommentsFirst, LeavesNoneLive, TicketsFirst, Calm, InFlight
<1>4. \A c \in Comment : SeenTo(c)
    BY SoftDeleteAssumption DEF Init, Sheltered, SeenTo
<1> QED
    BY <1>1, <1>3, <1>4 DEF IInv, Typed, Orderly, NoRace

LEMMA NextTypes == Types /\ [Next]_vars => Types'
<1> SUFFICES ASSUME Types, [Next]_vars
             PROVE  Types'
    OBVIOUS
<1> USE DEF Types, GoTo, Answer, Unless404, Pc, Response, rows
<1>1. ASSUME NEW r \in Request, Arrive(r)
      PROVE  Types'
    <2>1. \A s \in Request : Scope(s) \in Project
        BY Arguments
    <2> QED
        BY <1>1, <2>1 DEF Arrive
<1>2. ASSUME NEW r \in Request, FindProject(r) \/ FindTicket(r) \/ ValidateTicket(r)
                 \/ FindComment(r) \/ InsertRefused(r) \/ Audit(r)
      PROVE  Types'
    BY <1>2 DEF FindProject, FindTicket, ValidateTicket, FindComment, InsertRefused, Audit
<1>3. ASSUME NEW r \in Request, SelectTickets(r)
      PROVE  Types'
    BY <1>3 DEF SelectTickets, Selected
<1>4. ASSUME NEW r \in Request, UpdateTickets(r) \/ UpdateProject(r) \/ UpdateTicket(r)
                 \/ UpdateComments(r) \/ UpdateComment(r) \/ Insert(r)
      PROVE  Types'
    BY <1>4 DEF UpdateTickets, UpdateProject, UpdateTicket, UpdateComments,
       UpdateComment, Insert, Onto
<1>5. ASSUME NEW r \in Request, QueryFails(r)
      PROVE  Types'
    <2>1. TornScopes({r}) \subseteq Project
        BY Arguments DEF TornScopes
    <2>2. disturbed' \subseteq Project
        BY <1>5, <2>1 DEF QueryFails
    <2>3. failures' \in Nat
        BY <1>5 DEF QueryFails
    <2> QED
        BY <1>5, <2>2, <2>3 DEF QueryFails
<1>6. CASE Crash
    <2>1. TornScopes({r \in Request : InFlight(r)}) \subseteq Project
        BY Arguments DEF TornScopes
    <2> QED
        BY <1>6, <2>1 DEF Crash
<1>7. CASE UNCHANGED vars
    BY <1>7 DEF vars
<1> QED
    BY <1>1, <1>2, <1>3, <1>4, <1>5, <1>6, <1>7 DEF Next, Handle

(* No row is ever removed.                                                 *)
LEMMA NothingVanishes ==
    ASSUME Types, [Next]_vars
    PROVE  /\ \A t \in Ticket : ticket[t] # "absent" => ticket'[t] # "absent"
           /\ \A c \in Comment : comment[c] # "absent" => comment'[c] # "absent"
<1> USE DEF Types, rows, Unless404
<1>1. ASSUME NEW r \in Request, UpdateTickets(r) \/ UpdateTicket(r)
                 \/ UpdateComments(r) \/ UpdateComment(r) \/ Insert(r)
      PROVE  /\ \A t \in Ticket : ticket[t] # "absent" => ticket'[t] # "absent"
             /\ \A c \in Comment : comment[c] # "absent" => comment'[c] # "absent"
    BY <1>1 DEF UpdateTickets, UpdateTicket, UpdateComments, UpdateComment, Insert, Onto
<1>2. ASSUME NEW r \in Request,
             Arrive(r) \/ FindProject(r) \/ SelectTickets(r) \/ UpdateProject(r)
                 \/ FindTicket(r) \/ ValidateTicket(r) \/ FindComment(r)
                 \/ InsertRefused(r) \/ Audit(r) \/ QueryFails(r)
      PROVE  UNCHANGED <<ticket, comment>>
    BY <1>2 DEF Arrive, FindProject, SelectTickets, UpdateProject, FindTicket,
       ValidateTicket, FindComment, InsertRefused, Audit, QueryFails
<1>3. CASE Crash \/ UNCHANGED vars
    BY <1>3 DEF Crash, vars
<1> QED
    BY <1>1, <1>2, <1>3 DEF Next, Handle

(* What a handler knows of itself survives the steps of the others,        *)
LEMMA LocalOfOthers ==
    ASSUME Typed, [Next]_vars, call' = call, NEW s \in Request,
           pc'[s] = pc[s], ticketIds'[s] = ticketIds[s]
    PROVE  Local(s)'
<1>1. Local(s) /\ Types
    BY DEF Typed
<1>2. StepsOfOp(s)'
    BY <1>1, SameCall DEF Local, StepsOfOp
<1>3. FoundExists(s)'
    <2>1. pc[s] = "inserting" /\ Op(s) = "createComment" => TicketId(s) \in Ticket
        BY <1>1, Arguments, SoftDeleteAssumption DEF TicketId, TicketOp
    <2>2. pc[s] = "comment" => Id(s) \in Comment
        BY <1>1, Arguments DEF Local, StepsOfOp
    <2> QED
        BY <1>1, <2>1, <2>2, SameCall, NothingVanishes DEF Local, FoundExists
<1>4. SelectsOwn(s)'
    BY <1>1, SameCall, NothingVanishes DEF Local, SelectsOwn, Types
<1> QED
    BY <1>2, <1>3, <1>4 DEF Local

(* and its own steps.                                                      *)
LEMMA LocalOfStep ==
    ASSUME Typed, NEW r \in Request, Arrive(r) \/ Handle(r)
    PROVE  Local(r)'
<1>1. Local(r) /\ Types /\ Types' /\ call' = call
    BY StepOf, NextTypes DEF Typed, Next
<1>2. Op(r)' = Op(r) /\ Id(r)' = Id(r) /\ TicketId(r)' = TicketId(r)
    BY <1>1, SameCall
<1>3. StepsOfOp(r)'
    BY <1>1, <1>2 DEF Local, StepsOfOp, Types, Handle, Arrive, FindProject, SelectTickets,
       UpdateTickets, UpdateProject, FindTicket, UpdateTicket, UpdateComments,
       ValidateTicket, FindComment, UpdateComment, Insert, InsertRefused, Audit,
       QueryFails, Unless404, GoTo, Answer, TicketOp, ProjectOp
<1>4. FoundExists(r)'
    <2>1. CASE ValidateTicket(r)
        BY <1>1, <1>2, <2>1
           DEF ValidateTicket, Unless404, GoTo, Answer, LiveTicket, FoundExists, Types, rows
    <2>2. CASE FindComment(r)
        BY <1>1, <1>2, <2>2 DEF FindComment, Unless404, GoTo, Answer, FoundExists, Types, rows
    <2>3. CASE ~ValidateTicket(r) /\ ~FindComment(r)
        <3>1. pc'[r] # "comment" /\ (pc'[r] = "inserting" => Op(r) = "createTicket")
            BY <1>1, <2>3 DEF Types, Handle, Arrive, FindProject, SelectTickets,
               UpdateTickets, UpdateProject, FindTicket, UpdateTicket, UpdateComments,
               UpdateComment, Insert, InsertRefused, Audit, QueryFails, Unless404, GoTo, Answer
        <3> QED
            BY <1>2, <3>1 DEF FoundExists
    <2> QED
        BY <2>1, <2>2, <2>3
<1>5. SelectsOwn(r)'
    <2>1. CASE SelectTickets(r)
        <3>1. \A t \in ticketIds'[r] : ProjectOf[t] = Id(r) /\ ticket[t] = From(r)
            BY <1>1, <2>1 DEF SelectTickets, Selected, Types
        <3>2. From(r) # "absent" /\ ticket' = ticket
            BY <2>1 DEF SelectTickets, From, rows
        <3> QED
            BY <1>2, <3>1, <3>2 DEF SelectsOwn
    <2>2. CASE UpdateTickets(r)
        <3>1. pc[r] = "tickets" /\ Op(r) \in ProjectOp /\ ticketIds' = ticketIds
            BY <1>1, <2>2 DEF UpdateTickets, Local, StepsOfOp
        <3>2. \A t \in Ticket : ticket[t] # "absent" => ticket'[t] # "absent"
            BY <1>1, NothingVanishes DEF Next
        <3> QED
            BY <1>1, <1>2, <3>1, <3>2 DEF SelectsOwn, Local, Types
    <2>3. CASE ~SelectTickets(r) /\ ~UpdateTickets(r)
        <3>1. pc'[r] = "comments" => Op(r) \notin ProjectOp
            BY <1>1, <2>3 DEF Types, Handle, Arrive, FindProject, UpdateProject, FindTicket,
               UpdateTicket, UpdateComments, ValidateTicket, FindComment, UpdateComment,
               Insert, InsertRefused, Audit, QueryFails, Unless404, GoTo, Answer,
               TicketOp, ProjectOp
        <3>2. pc'[r] # "tickets"
            BY <1>1, <2>3 DEF Types, Handle, Arrive, FindProject, UpdateProject, FindTicket,
               UpdateTicket, UpdateComments, ValidateTicket, FindComment, UpdateComment,
               Insert, InsertRefused, Audit, QueryFails, Unless404, GoTo, Answer
        <3> QED
            BY <1>2, <3>1, <3>2 DEF SelectsOwn
    <2> QED
        BY <2>1, <2>2, <2>3
<1> QED
    BY <1>3, <1>4, <1>5 DEF Local

LEMMA NextReferences == Typed /\ [Next]_vars => ReferencesExist'
<1> SUFFICES ASSUME Typed, [Next]_vars, NEW c \in Comment, comment'[c] # "absent"
             PROVE  ticket'[TicketOf[c]] # "absent"
    BY DEF ReferencesExist
<1>1. Types /\ TicketOf[c] \in Ticket
    BY SoftDeleteAssumption DEF Typed
<1>2. SUFFICES ASSUME comment[c] = "absent"
               PROVE  ticket[TicketOf[c]] # "absent"
    BY <1>1, NothingVanishes DEF Typed, ReferencesExist
<1>3. PICK r \in Request : UpdateComments(r) \/ UpdateComment(r) \/ Insert(r)
    BY <1>2 DEF Next, Handle, Crash, vars, rows, Unless404, Arrive, FindProject,
       SelectTickets, UpdateTickets, UpdateProject, FindTicket, UpdateTicket,
       ValidateTicket, FindComment, InsertRefused, Audit, QueryFails
<1>4. ~UpdateComments(r)
    BY <1>1, <1>2 DEF UpdateComments, CascadesTo, From, Types
<1>5. ~UpdateComment(r)
    BY <1>1, <1>2 DEF UpdateComment, Typed, Local, FoundExists, Types
<1>6. pc[r] = "inserting" /\ Op(r) = "createComment" /\ Id(r) = c
    BY <1>1, <1>2, <1>3, <1>4, <1>5 DEF Insert, Types
<1>7. TicketId(r) = TicketOf[c]
    BY <1>6 DEF TicketId, TicketOp
<1> QED
    BY <1>6, <1>7 DEF Typed, Local, FoundExists

LEMMA NextTyped == Typed /\ [Next]_vars => Typed'
<1> SUFFICES ASSUME Typed, [Next]_vars
             PROVE  Typed'
    OBVIOUS
<1>1. Types' /\ ReferencesExist'
    BY NextTypes, NextReferences DEF Typed
<1>2. ASSUME NEW s \in Request
      PROVE  Local(s)'
    <2>1. ASSUME NEW r \in Request, Arrive(r) \/ Handle(r)
          PROVE  Local(s)'
        BY <2>1, LocalOfStep, LocalOfOthers, StepOf DEF Typed
    <2>2. CASE Crash
        <3>1. pc'[s] \in {"idle", "done"}
            BY <2>2 DEF Crash
        <3> QED
            BY <3>1 DEF Local, StepsOfOp, FoundExists, SelectsOwn
    <2>3. CASE UNCHANGED vars
        BY <2>3, LocalOfOthers DEF vars
    <2> QED
        BY <2>1, <2>2, <2>3 DEF Next
<1> QED
    BY <1>1, <1>2 DEF Typed

(* Well-typed rows, and no comment without its ticket.                     *)
THEOREM TypeCorrect == Spec => []SoftDeleteTypeOK
<1>1. Init => Typed
    BY InitIInv DEF IInv
<1>2. Typed => SoftDeleteTypeOK
    BY DEF Typed, Types, SoftDeleteTypeOK
<1> QED
    BY <1>1, <1>2, NextTyped, PTL DEF Spec

-----------------------------------------------------------------------------
(* A request about to race marks its project when it arrives.              *)
LEMMA NextNoRace == Typed /\ NoRace /\ [Next]_vars => NoRace'
<1> SUFFICES ASSUME Typed, NoRace, [Next]_vars
             PROVE  NoRace'
    OBVIOUS
<1>1. Types /\ Types'
    BY NextTypes DEF Typed
<1>2. ASSUME call' = call, disturbed \subseteq disturbed',
             \A s \in Request : InFlight(s)' => InFlight(s)
      PROVE  NoRace'
    BY <1>2, SameCall DEF NoRace
<1>3. ASSUME NEW r \in Request, Handle(r)
      PROVE  NoRace'
    <2>1. InFlight(r)
        BY <1>3 DEF Handle, FindProject, SelectTickets, UpdateTickets, UpdateProject,
           FindTicket, UpdateTicket, UpdateComments, ValidateTicket, FindComment,
           UpdateComment, Insert, InsertRefused, Audit, QueryFails, InFlight
    <2>2. \A s \in Request : InFlight(s)' => InFlight(s)
        BY <1>1, <1>3, <2>1, StepOf DEF InFlight
    <2> QED
        BY <1>1, <1>2, <1>3, <2>2, StepOf
<1>4. ASSUME NEW r \in Request, Arrive(r)
      PROVE  NoRace'
    <2> SUFFICES ASSUME NEW q \in Request, NEW s \in Request,
                        InFlight(q)', InFlight(s)', Races(q, s)'
                 PROVE  Scope(q)' \in disturbed'
        BY DEF NoRace
    <2>1. call' = call /\ disturbed \subseteq disturbed' /\ pc[r] = "idle"
        BY <1>1, <1>4, StepOf DEF Arrive
    <2>2. Races(q, s) /\ Scope(q) = Scope(s) /\ Scope(q)' = Scope(q)
          /\ Races(s, q) /\ ~Races(r, r)
        BY <2>1, SameCall DEF Races, Removal, Revival
    <2>3. (q # r => InFlight(q)) /\ (s # r => InFlight(s))
        BY <1>1, <1>4, StepOf DEF InFlight
    <2>4. CASE q = r
        BY <1>4, <2>2, <2>3, <2>4 DEF Arrive
    <2>5. CASE s = r
        BY <1>4, <2>2, <2>3, <2>5 DEF Arrive
    <2>6. CASE q # r /\ s # r
        BY <2>1, <2>2, <2>3, <2>6 DEF NoRace
    <2> QED
        BY <2>4, <2>5, <2>6
<1>5. CASE Crash
    <2>1. \A s \in Request : ~InFlight(s)'
        BY <1>5 DEF Crash, InFlight
    <2> QED
        BY <2>1 DEF NoRace
<1>6. CASE UNCHANGED vars
    BY <1>2, <1>6 DEF vars, InFlight
<1> QED
    BY <1>3, <1>4, <1>5, <1>6 DEF Next

(* Two handlers on an undisturbed project do not work against each other.  *)
LEMMA NoRemovalDuring ==
    ASSUME NoRace, NEW r \in Request, NEW s \in Request, Calm(s), InFlight(r),
           Scope(r) = Scope(s)
    PROVE  /\ Op(s) \in Revival => Op(r) \notin Removal
           /\ Op(s) \in Removal => Op(r) \notin Revival
BY DEF NoRace, Calm, Races

(* Which rows a step can bring to life or delete, and on whose behalf.     *)
LEMMA ChangesOfTicket ==
    ASSUME Typed, NEW r \in Request, Arrive(r) \/ Handle(r),
           NEW t \in Ticket, ticket'[t] # ticket[t]
    PROVE  /\ InFlight(r) /\ Scope(r) = ProjectOf[t]
           /\ \/ Op(r) \in Removal /\ ticket'[t] = "deleted"
              \/ Op(r) \in Revival /\ ticket'[t] = "live"
<1>1. Types /\ Local(r)
    BY DEF Typed
<1>2. UpdateTickets(r) \/ UpdateTicket(r) \/ Insert(r)
    BY DEF Handle, rows, Unless404, Arrive, FindProject, SelectTickets, UpdateProject,
       FindTicket, UpdateComments, ValidateTicket, FindComment, UpdateComment,
       InsertRefused, Audit, QueryFails
<1>3. CASE UpdateTickets(r)
    <2>1. Op(r) \in ProjectOp /\ t \in Selected(r) /\ ticket'[t] = Onto(r) /\ InFlight(r)
        BY <1>1, <1>3 DEF UpdateTickets, Local, StepsOfOp, InFlight
    <2> QED
        BY <2>1 DEF Selected, Scope, Onto, ProjectOp, Removal, Revival
<1>4. CASE UpdateTicket(r)
    <2>1. Op(r) \in TicketOp /\ t = Id(r) /\ ticket'[t] = Onto(r) /\ InFlight(r)
        BY <1>1, <1>4 DEF UpdateTicket, Local, StepsOfOp, InFlight, Types
    <2> QED
        BY <2>1 DEF Scope, Onto, ProjectOp, TicketOp, Removal, Revival
<1>5. CASE Insert(r)
    <2>1. Op(r) = "createTicket" /\ t = Id(r) /\ ticket'[t] = "live" /\ InFlight(r)
        BY <1>1, <1>5 DEF Insert, InFlight, Types
    <2> QED
        BY <2>1 DEF Scope, ProjectOp, TicketOp, Revival
<1> QED
    BY <1>2, <1>3, <1>4, <1>5

LEMMA ChangesOfComment ==
    ASSUME Typed, NEW r \in Request, Arrive(r) \/ Handle(r),
           NEW c \in Comment, comment[c] # "live", comment'[c] = "live"
    PROVE  /\ InFlight(r) /\ Scope(r) = ProjectOf[TicketOf[c]]
           /\ Op(r) \in Revival
           /\ \/ pc[r] = "inserting" /\ Op(r) = "createComment" /\ TicketId(r) = TicketOf[c]
              \/ pc[r] = "comments" /\ Op(r) = "restoreTicket" /\ Id(r) = TicketOf[c]
              \/ pc[r] = "comments" /\ Op(r) = "restoreProject"
                   /\ TicketOf[c] \in ticketIds[r]
<1>1. Types /\ Local(r)
    BY DEF Typed
<1>2. UpdateComments(r) \/ Insert(r)
    <2>1. ~UpdateComment(r)
        BY <1>1 DEF UpdateComment, Types
    <2> QED
        BY <2>1 DEF Handle, rows, Unless404, Arrive, FindProject, SelectTickets,
           UpdateTickets, UpdateProject, FindTicket, UpdateTicket, ValidateTicket,
           FindComment, InsertRefused, Audit, QueryFails
<1>3. CASE Insert(r)
    <2>1. pc[r] = "inserting" /\ Op(r) = "createComment" /\ c = Id(r)
        BY <1>1, <1>3 DEF Insert, Types
    <2> QED
        BY <2>1 DEF Scope, TicketId, ProjectOp, TicketOp, Revival, InFlight
<1>4. CASE UpdateComments(r)
    <2>1. pc[r] = "comments" /\ CascadesTo(r, c) /\ Onto(r) = "live"
        BY <1>1, <1>4 DEF UpdateComments
    <2>2. Op(r) \in {"restoreProject", "restoreTicket"}
        BY <1>1, <2>1 DEF Onto, Removal, Local, StepsOfOp, ProjectOp, TicketOp
    <2>3. CASE Op(r) = "restoreProject"
        <3>1. TicketOf[c] \in ticketIds[r]
            BY <2>1, <2>3 DEF CascadesTo, ProjectOp
        <3>2. ProjectOf[TicketOf[c]] = Id(r)
            BY <1>1, <2>1, <2>3, <3>1 DEF Local, SelectsOwn, ProjectOp
        <3> QED
            BY <2>1, <2>3, <3>1, <3>2 DEF Scope, ProjectOp, Revival, InFlight
    <2>4. CASE Op(r) = "restoreTicket"
        <3>1. TicketOf[c] = Id(r)
            BY <2>1, <2>4 DEF CascadesTo, ProjectOp
        <3> QED
            BY <2>1, <2>4, <3>1 DEF Scope, ProjectOp, TicketOp, Revival, InFlight
    <2> QED
        BY <2>2, <2>3, <2>4
<1> QED
    BY <1>2, <1>3, <1>4

(* The steps of one handler leave what the others rely on.                 *)
LEMMA ReliableOfOthers ==
    ASSUME Typed, Orderly, NEW r \in Request, Arrive(r) \/ Handle(r),
           NEW s \in Request \ {r}
    PROVE  Reliable(s)'
<1>1. /\ Types /\ Types' /\ Reliable(s) /\ NoRace /\ Local(s)
      /\ call' = call /\ pc'[s] = pc[s] /\ ticketIds'[s] = ticketIds[s]
      /\ Calm(s)' => Calm(s)
    BY StepOf, NextTypes, SameCall DEF Typed, Orderly, Next, Calm, InFlight
<1>2. /\ Op(s)' = Op(s) /\ Id(s)' = Id(s) /\ TicketId(s)' = TicketId(s)
      /\ From(s)' = From(s)
    BY <1>1, SameCall
<1>3. ASSUME Calm(s), Op(s) \in Revival, NEW t \in Ticket, ProjectOf[t] = Scope(s),
             ticket[t] = "live"
      PROVE  ticket'[t] = "live"
    BY <1>1, <1>3, ChangesOfTicket, NoRemovalDuring
<1>4. ASSUME Calm(s), Op(s) \in Removal, NEW t \in Ticket, ProjectOf[t] = Scope(s),
             ticket[t] # "live"
      PROVE  ticket'[t] # "live"
    BY <1>1, <1>4, ChangesOfTicket, NoRemovalDuring
<1>5. InsertsUnderLive(s)'
    <2> SUFFICES ASSUME Calm(s), pc[s] = "inserting", Op(s) = "createComment"
                 PROVE  ticket'[TicketId(s)] = "live"
        BY <1>1, <1>2 DEF InsertsUnderLive, LiveTicket
    <2>1. ticket[TicketId(s)] = "live"
        BY <1>1 DEF Reliable, InsertsUnderLive, LiveTicket
    <2>2. TicketId(s) \in Ticket /\ ProjectOf[TicketId(s)] = Scope(s)
        BY <1>1, Arguments, SoftDeleteAssumption DEF TicketId, Scope, TicketOp, ProjectOp
    <2> QED
        BY <1>3, <2>1, <2>2 DEF Revival
<1>6. SelectionComplete(s)'
    <2> SUFFICES ASSUME Calm(s), pc[s] = "tickets", Op(s) = "removeProject",
                        NEW t \in Ticket, ProjectOf[t] = Id(s), ticket'[t] = "live"
                 PROVE  t \in ticketIds[s]
        BY <1>1, <1>2 DEF SelectionComplete, Selected, From, Removal
    <2>1. ticket[t] = "live"
        BY <1>4 DEF Removal, Scope, ProjectOp
    <2> QED
        BY <1>1, <2>1 DEF Reliable, SelectionComplete, Selected, From, Removal
<1>7. CommentsFirst(s)'
    <2> SUFFICES ASSUME Calm(s), pc[s] = "ticket", Op(s) = "removeTicket",
                        NEW c \in Comment, TicketOf[c] = Id(s), comment'[c] = "live"
                 PROVE  FALSE
        BY <1>1, <1>2 DEF CommentsFirst
    <2>1. comment[c] # "live"
        BY <1>1 DEF Reliable, CommentsFirst
    <2>2. Scope(s) = ProjectOf[TicketOf[c]]
        BY DEF Scope, ProjectOp, TicketOp
    <2> QED
        BY <1>1, <2>1, <2>2, ChangesOfComment, NoRemovalDuring DEF Removal
<1>8. TicketsFirst(s)'
    <2> SUFFICES ASSUME Calm(s), pc[s] = "comments", Op(s) = "restoreProject",
                        NEW t \in ticketIds[s]
                 PROVE  ticket'[t] = "live"
        BY <1>1, <1>2 DEF TicketsFirst
    <2>1. t \in Ticket /\ ticket[t] = "live" /\ ProjectOf[t] = Scope(s)
        BY <1>1 DEF Reliable, TicketsFirst, Local, SelectsOwn, Types, Scope, ProjectOp
    <2> QED
        BY <1>3, <2>1 DEF Revival
<1>9. LeavesNoneLive(s)'
    <2> SUFFICES ASSUME Calm(s), pc[s] \in {"comments", "project", "auditing"},
                        Op(s) = "removeProject",
                        NEW t \in Ticket, ProjectOf[t] = Id(s), ticket'[t] = "live"
                 PROVE  FALSE
        BY <1>1, <1>2 DEF LeavesNoneLive, Selected, From, Removal
    <2>1. ticket[t] # "live"
        BY <1>1 DEF Reliable, LeavesNoneLive, Selected, From, Removal
    <2> QED
        BY <1>4, <2>1 DEF Removal, Scope, ProjectOp
<1> QED
    BY <1>5, <1>6, <1>7, <1>8, <1>9 DEF Reliable

(* What a handler relies on, its own step has established.                 *)
LEMMA ReliableOfStep ==
    ASSUME Typed, NEW r \in Request, Reliable(r), Arrive(r) \/ Handle(r)
    PROVE  Reliable(r)'
<1>1. /\ Types /\ Types' /\ Local(r) /\ Local(r)' /\ call' = call
      /\ Op(r)' = Op(r) /\ Id(r)' = Id(r) /\ TicketId(r)' = TicketId(r) /\ From(r)' = From(r)
    BY StepOf, NextTypes, LocalOfStep, SameCall DEF Typed, Next
<1> USE DEF GoTo, Answer, Unless404, rows
<1>2. InsertsUnderLive(r)'
    <2> SUFFICES ASSUME pc'[r] = "inserting", Op(r) = "createComment"
                 PROVE  ticket'[TicketId(r)] = "live"
        BY <1>1 DEF InsertsUnderLive, LiveTicket
    <2>1. ValidateTicket(r)
        BY <1>1 DEF Types, Handle, Arrive, FindProject, SelectTickets, UpdateTickets,
           UpdateProject, FindTicket, UpdateTicket, UpdateComments, FindComment,
           UpdateComment, Insert, InsertRefused, Audit, QueryFails
    <2> QED
        BY <1>1, <2>1 DEF ValidateTicket, LiveTicket, Types
<1>3. SelectionComplete(r)'
    <2> SUFFICES ASSUME pc'[r] = "tickets"
                 PROVE  Selected(r)' \subseteq ticketIds'[r]
        BY DEF SelectionComplete
    <2>1. SelectTickets(r)
        BY <1>1 DEF Types, Handle, Arrive, FindProject, UpdateTickets,
           UpdateProject, FindTicket, ValidateTicket, UpdateTicket, UpdateComments,
           FindComment, UpdateComment, Insert, InsertRefused, Audit, QueryFails
    <2> QED
        BY <1>1, <2>1 DEF SelectTickets, Selected, Types
<1>4. CommentsFirst(r)'
    <2> SUFFICES ASSUME pc'[r] = "ticket", Op(r) = "removeTicket",
                        NEW c \in Comment, TicketOf[c] = Id(r)
                 PROVE  comment'[c] # "live"
        BY <1>1 DEF CommentsFirst
    <2>1. UpdateComments(r)
        BY <1>1 DEF Types, Handle, Arrive, FindProject, SelectTickets, UpdateTickets,
           UpdateProject, FindTicket, ValidateTicket, UpdateTicket,
           FindComment, UpdateComment, Insert, InsertRefused, Audit, QueryFails
    <2> QED
        BY <2>1 DEF UpdateComments, CascadesTo, From, Onto, Removal, ProjectOp
<1>5. TicketsFirst(r)'
    <2> SUFFICES ASSUME pc'[r] = "comments", Op(r) = "restoreProject",
                        NEW t \in ticketIds'[r]
                 PROVE  ticket'[t] = "live"
        BY <1>1 DEF TicketsFirst
    <2>1. UpdateTickets(r)
        BY <1>1 DEF Types, Handle, Arrive, FindProject, SelectTickets, UpdateComments,
           UpdateProject, FindTicket, ValidateTicket, UpdateTicket, TicketOp,
           FindComment, UpdateComment, Insert, InsertRefused, Audit, QueryFails
    <2>2. t \in Ticket /\ ProjectOf[t] = Id(r) /\ ticket'[t] # "absent"
        BY <1>1 DEF Local, SelectsOwn, Types, ProjectOp
    <2>3. ticket[t] = "deleted" => ticket'[t] = "live"
        BY <2>1, <2>2 DEF UpdateTickets, Selected, From, Onto, Removal
    <2>4. ticket[t] # "deleted" => ticket'[t] = ticket[t]
        BY <2>1, <2>2 DEF UpdateTickets, Selected, From, Removal
    <2> QED
        BY <1>1, <2>2, <2>3, <2>4 DEF Types
<1>6. LeavesNoneLive(r)'
    <2> SUFFICES ASSUME Calm(r)', pc'[r] \in {"comments", "project", "auditing"},
                        Op(r) = "removeProject"
                 PROVE  Selected(r)' = {}
        BY <1>1 DEF LeavesNoneLive
    <2>1. UpdateTickets(r) \/ SelectTickets(r) \/ UpdateComments(r) \/ UpdateProject(r)
        BY <1>1 DEF Types, Local, StepsOfOp, Handle, Arrive, FindProject,
           FindTicket, ValidateTicket, UpdateTicket, TicketOp,
           FindComment, UpdateComment, Insert, InsertRefused, Audit, QueryFails
    <2>2. CASE UpdateTickets(r)
        BY <1>1, <2>2 DEF UpdateTickets, Selected, From, Onto, Removal
    <2>3. CASE SelectTickets(r)
        BY <1>1, <2>3 DEF SelectTickets, Selected, Types
    <2>4. CASE UpdateComments(r) \/ UpdateProject(r)
        <3>1. UNCHANGED <<ticket, disturbed>> /\ pc[r] \in {"comments", "project"}
            BY <2>4 DEF UpdateComments, UpdateProject
        <3>2. Calm(r)
            BY <1>1, <3>1, SameCall DEF Calm, InFlight
        <3> QED
            BY <1>1, <3>1, <3>2 DEF Reliable, LeavesNoneLive, Selected
    <2> QED
        BY <2>1, <2>2, <2>3, <2>4
<1> QED
    BY <1>2, <1>3, <1>4, <1>5, <1>6 DEF Reliable

LEMMA NextReliable ==
    Typed /\ Orderly /\ [Next]_vars => \A s \in Request : Reliable(s)'
<1> SUFFICES ASSUME Typed, Orderly, [Next]_vars, NEW s \in Request
             PROVE  Reliable(s)'
    OBVIOUS
<1>1. ASSUME NEW r \in Request, Arrive(r) \/ Handle(r)
      PROVE  Reliable(s)'
    BY <1>1, ReliableOfStep, ReliableOfOthers DEF Orderly
<1>2. CASE Crash
    <2>1. pc'[s] \in {"idle", "done"}
        BY <1>2 DEF Crash
    <2> QED
        BY <2>1 DEF Reliable, InsertsUnderLive, SelectionComplete, CommentsFirst,
           LeavesNoneLive, TicketsFirst
<1>3. CASE UNCHANGED vars
    BY <1>3, SameCall DEF vars, rows, Orderly, Reliable, InsertsUnderLive, SelectionComplete,
       CommentsFirst, LeavesNoneLive, TicketsFirst, Calm, InFlight, LiveTicket, Selected
<1> QED
    BY <1>1, <1>2, <1>3 DEF Next

(* A comment exposed by a step has a request to see to it, or its project  *)
(* is marked; and that request hides it again, or marks the project.       *)
LEMMA SeenToOfStep ==
    ASSUME Typed, Orderly, NEW r \in Request, Arrive(r) \/ Handle(r),
           NEW c \in Comment
    PROVE  SeenTo(c)'
<1> DEFINE t == TicketOf[c]
<1> DEFINE p == ProjectOf[t]
<1>1. /\ Types /\ Types' /\ Local(r) /\ Reliable(r) /\ SeenTo(c) /\ t \in Ticket
      /\ ticket[t] = "absent" => comment[c] = "absent"
    BY NextTypes, SoftDeleteAssumption DEF Typed, Orderly, Next, ReferencesExist
<1>2. /\ call' = call /\ disturbed \subseteq disturbed'
      /\ \A s \in Request \ {r} : pc'[s] = pc[s] /\ ticketIds'[s] = ticketIds[s]
    BY <1>1, StepOf
<1>3. \A s \in Request : Op(s)' = Op(s) /\ Id(s)' = Id(s)
    BY <1>2, SameCall
<1> SUFFICES ASSUME comment'[c] = "live", ticket'[t] # "live", p \notin disturbed'
             PROVE  \E s \in Request : SeesTo(s, c)'
    BY DEF SeenTo
<1>4. CASE comment[c] # "live"
    <2>1. /\ InFlight(r) /\ Scope(r) = p /\ Op(r) \in Revival
          /\ \/ pc[r] = "inserting" /\ Op(r) = "createComment" /\ TicketId(r) = t
             \/ pc[r] = "comments" /\ Op(r) = "restoreTicket" /\ Id(r) = t
             \/ pc[r] = "comments" /\ Op(r) = "restoreProject" /\ t \in ticketIds[r]
        BY <1>4, ChangesOfComment
    <2>2. Calm(r) /\ ticket[t] # "live"
        <3>1. Op(r) \notin Removal
            BY <2>1 DEF Removal, Revival
        <3> QED
            BY <1>1, <1>2, <2>1, <3>1, ChangesOfTicket DEF Calm, Types
    <2>3. pc[r] = "comments" /\ Op(r) = "restoreTicket" /\ Id(r) = t
        BY <1>1, <2>1, <2>2 DEF Reliable, InsertsUnderLive, TicketsFirst, LiveTicket
    <2>4. UpdateComments(r)
        BY <1>1, <1>4, <2>3 DEF Handle, rows, Unless404, Arrive, FindProject, SelectTickets,
           UpdateTickets, UpdateProject, FindTicket, UpdateTicket, ValidateTicket,
           FindComment, UpdateComment, Insert, InsertRefused, Audit, QueryFails
    <2>5. pc'[r] = "ticket"
        BY <1>1, <2>3, <2>4 DEF UpdateComments, GoTo, Types, ProjectOp
    <2> QED
        BY <1>3, <2>3, <2>5 DEF SeesTo
<1>5. CASE comment[c] = "live" /\ ticket[t] = "live"
    <2>1. InFlight(r) /\ Scope(r) = p /\ Op(r) \in Removal /\ ticket'[t] = "deleted"
        BY <1>1, <1>5, ChangesOfTicket
    <2>2. Calm(r)
        BY <1>2, <2>1 DEF Calm
    <2>3. UpdateTickets(r) \/ UpdateTicket(r)
        <3>1. ~Insert(r)
            BY <2>1 DEF Insert, Removal
        <3> QED
            BY <1>5, <2>1, <3>1 DEF Handle, rows, Unless404, Arrive, FindProject,
               SelectTickets, UpdateProject, FindTicket, UpdateComments, ValidateTicket,
               FindComment, UpdateComment, InsertRefused, Audit, QueryFails
    <2>4. CASE UpdateTicket(r)
        <3>1. pc[r] = "ticket" /\ Op(r) = "removeTicket" /\ t = Id(r)
            BY <1>1, <1>5, <2>1, <2>4 DEF UpdateTicket, Local, StepsOfOp, TicketOp, Removal, Types
        <3> QED
            BY <1>1, <1>5, <2>2, <3>1 DEF Reliable, CommentsFirst
    <2>5. CASE UpdateTickets(r)
        <3>1. /\ pc[r] = "tickets" /\ Op(r) = "removeProject" /\ t \in Selected(r)
              /\ pc'[r] = "comments" /\ ticketIds' = ticketIds
            BY <1>1, <1>5, <2>1, <2>5
               DEF UpdateTickets, Local, StepsOfOp, ProjectOp, Removal, Types, GoTo
        <3>2. t \in ticketIds[r]
            BY <1>1, <2>2, <3>1 DEF Reliable, SelectionComplete
        <3> QED
            BY <1>3, <3>1, <3>2 DEF SeesTo
    <2> QED
        BY <2>3, <2>4, <2>5
<1>6. CASE comment[c] = "live" /\ ticket[t] # "live"
    <2>1. PICK s \in Request : SeesTo(s, c)
        BY <1>1, <1>2, <1>6 DEF SeenTo
    <2>2. CASE s # r
        BY <1>2, <1>3, <2>1, <2>2 DEF SeesTo
    <2>3. CASE s = r
        <3>1. Torn(r) /\ Scope(r) = p
            BY <1>1, <2>1, <2>3 DEF SeesTo, Torn, Scope, Local, SelectsOwn, ProjectOp, TicketOp
        <3>2. UpdateComments(r) \/ UpdateTicket(r) \/ QueryFails(r)
            BY <2>1, <2>3 DEF SeesTo, Handle, Arrive, FindProject, SelectTickets,
               UpdateTickets, UpdateProject, FindTicket, ValidateTicket, FindComment,
               UpdateComment, Insert, InsertRefused, Audit
        <3>3. ~QueryFails(r)
            BY <3>1 DEF QueryFails, TornScopes
        <3>4. ~UpdateComments(r)
            BY <1>6, <2>1, <2>3 DEF UpdateComments, SeesTo, CascadesTo, Onto, ProjectOp, Removal
        <3>5. ~UpdateTicket(r)
            BY <1>1, <2>1, <2>3 DEF UpdateTicket, SeesTo, Onto, Removal, Types
        <3> QED
            BY <3>2, <3>3, <3>4, <3>5
    <2> QED
        BY <2>2, <2>3
<1> QED
    BY <1>4, <1>5, <1>6

LEMMA NextSeenTo ==
    Typed /\ Orderly /\ [Next]_vars => \A c \in Comment : SeenTo(c)'
<1> SUFFICES ASSUME Typed, Orderly, [Next]_vars, NEW c \in Comment
             PROVE  SeenTo(c)'
    OBVIOUS
<1>1. ASSUME NEW r \in Request, Arrive(r) \/ Handle(r)
      PROVE  SeenTo(c)'
    BY <1>1, SeenToOfStep
<1>2. CASE Crash
    <2>1. UNCHANGED rows /\ disturbed' = disturbed \cup
              {Scope(r) : r \in {r \in {q \in Request : InFlight(q)} : Torn(r)}}
        BY <1>2 DEF Crash, TornScopes
    <2>2. ASSUME NEW s \in Request, SeesTo(s, c)
          PROVE  ProjectOf[TicketOf[c]] \in disturbed'
        <3>1. Torn(s) /\ InFlight(s) /\ Scope(s) = ProjectOf[TicketOf[c]]
            BY <2>2 DEF SeesTo, Torn, InFlight, Scope, Typed, Local, SelectsOwn,
               ProjectOp, TicketOp
        <3> QED
            BY <2>1, <3>1
    <2> QED
        BY <2>1, <2>2 DEF SeenTo, Orderly, rows
<1>3. CASE UNCHANGED vars
    BY <1>3, SameCall DEF vars, rows, SeenTo, SeesTo, Orderly
<1> QED
    BY <1>1, <1>2, <1>3 DEF Next

LEMMA NextIInv == IInv /\ [Next]_vars => IInv'
BY NextTyped, NextNoRace, NextReliable, NextSeenTo DEF IInv, Orderly

(* Comments stay hidden with their ticket, for any number of requests,     *)
(* failures and rows, save for the two cases the property names.           *)
THEOREM CommentsHiddenWithTicket == Spec => []DeletedTicketHidesComments
<1>1. IInv => DeletedTicketHidesComments
    <2> SUFFICES ASSUME IInv, NEW p \in Project, AtRest(p), p \notin disturbed,
                        NEW c \in Comment, ProjectOf[TicketOf[c]] = p,
                        comment[c] = "live", ticket[TicketOf[c]] # "live"
                 PROVE  FALSE
        BY DEF DeletedTicketHidesComments, Sheltered
    <2>1. PICK r \in Request : SeesTo(r, c)
        BY DEF IInv, Orderly, SeenTo
    <2>2. InFlight(r) /\ Scope(r) = p
        BY <2>1 DEF SeesTo, InFlight, Scope, IInv, Typed, Local, SelectsOwn,
           ProjectOp, TicketOp
    <2> QED
        BY <2>2 DEF AtRest
<1> QED
    BY InitIInv, NextIInv, <1>1, PTL DEF Spec

(* A removal of a project that answers 200 has left nothing live in it,    *)
(* for any number of requests, failures and rows, unless the project was   *)
(* disturbed or somebody else still works on it.                           *)
THEOREM CleanRemovalIsComplete == Spec => CleanRemovalCascades
<1>1. ASSUME IInv, [Next]_vars, NEW p \in Project, NEW r \in Request,
             Removed(p, r), p \notin disturbed, AtRest(p)'
      PROVE  NothingLive(p)
    <2>1. /\ Types /\ Reliable(r) /\ Op(r) = "removeProject" /\ Id(r) = p
          /\ pc[r] = "auditing" /\ Scope(r) = p /\ InFlight(r) /\ Calm(r)
        BY <1>1 DEF IInv, Typed, Orderly, Removed, Scope, ProjectOp, InFlight, Calm
    <2>2. \A t \in Ticket : ProjectOf[t] = p => ticket[t] # "live"
        BY <2>1 DEF Reliable, LeavesNoneLive, Selected, From, Removal
    <2>3. ASSUME NEW c \in Comment, ProjectOf[TicketOf[c]] = p, comment[c] = "live"
          PROVE  FALSE
        <3>1. ticket[TicketOf[c]] # "live"
            BY <2>2, <2>3, SoftDeleteAssumption
        <3>2. PICK s \in Request : SeesTo(s, c)
            BY <1>1, <2>3, <3>1 DEF IInv, Orderly, SeenTo
        <3>3. s # r /\ InFlight(s) /\ Scope(s) = p
            BY <1>1, <2>1, <2>3, <3>2 DEF SeesTo, InFlight, Scope, IInv, Typed, Local,
               SelectsOwn, ProjectOp, TicketOp
        <3>4. ~Crash
            BY <1>1, <2>1 DEF Removed, Crash
        <3>5. call' = call
            BY <1>1, <2>1, <3>4, StepOf DEF Next, vars
        <3>6. ~InFlight(r)' /\ ~InFlight(s)'
            BY <1>1, <2>1, <3>3, <3>5, SameCall DEF AtRest
        <3>7. pc'[r] # pc[r] /\ pc'[s] # pc[s]
            BY <2>1, <3>3, <3>6 DEF InFlight
        <3> QED
            BY <1>1, <2>1, <3>3, <3>4, <3>7, StepOf DEF Next, vars
    <2> QED
        BY <2>2, <2>3 DEF NothingLive
<1>2. IInv /\ [Next]_vars =>
          [\A p \in Project, r \in Request :
               Removed(p, r) /\ p \notin disturbed /\ AtRest(p)' => NothingLive(p)]_vars
    BY <1>1
<1> QED
    BY InitIInv, NextIInv, <1>2, PTL DEF Spec, CleanRemovalCascades
=============================================================================
