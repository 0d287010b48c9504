------------------------- MODULE DependenciesProofs -------------------------
(* Proofs about Dependencies, for every set of tickets and requests.       *)
EXTENDS Dependencies, TLAPS

(* Every reachable state is well typed.                                    *)
LEMMA InitTypeOK == Init => TypeOK
BY DependenciesAssumption DEF Init, TypeOK, Pc, Response

LEMMA ArgumentsAreTickets ==
    ASSUME TypeOK, NEW r \in Request
    PROVE  Id(r) \in Ticket /\ By(r) \in Ticket /\ Edge(r) = <<Id(r), By(r)>>
                /\ Edge(r) \in Ticket \X Ticket
BY DependenciesAssumption DEF TypeOK, Id, By, Edge

LEMMA NextTypeOK == TypeOK /\ [Next]_vars => TypeOK'
<1> SUFFICES ASSUME TypeOK, [Next]_vars
             PROVE  TypeOK'
    OBVIOUS
<1> USE DEF TypeOK, GoTo, Answer, Reading, Unless, Pc, Response, search
<1>1. ASSUME NEW r \in Request, StartAdd(r) \/ StartRemove(r) \/ QueryFails(r)
      PROVE  TypeOK'
    BY <1>1 DEF StartAdd, StartRemove, QueryFails
<1>2. ASSUME NEW r \in Request, FindTicket(r) \/ FindBlocker(r) \/ CycleFound(r)
                 \/ SaveConflicts(r) \/ FindDependency(r)
      PROVE  TypeOK'
    BY <1>2 DEF FindTicket, FindBlocker, CycleFound, SaveConflicts, FindDependency
<1>3. ASSUME NEW r \in Request, FindExisting(r)
      PROVE  TypeOK'
    BY <1>3, ArgumentsAreTickets DEF FindExisting
<1>4. ASSUME NEW r \in Request, Expand(r)
      PROVE  TypeOK'
    <2>1. \A t : BlockersOf(t) \subseteq Ticket
        BY DEF BlockersOf
    <2>2. PICK t \in queue[r] \ {Id(r)} :
              /\ \/ queue' = [queue EXCEPT ![r] = @ \ {t}]
                 \/ queue' = [queue EXCEPT ![r] = (@ \ {t}) \cup BlockersOf(t)]
              /\ visited' = visited \/ visited' = [visited EXCEPT ![r] = @ \cup {t}]
        BY <1>4 DEF Expand, Marked
    <2>3. queue' \in [Request -> SUBSET Ticket] /\ visited' \in [Request -> SUBSET Ticket]
        BY <2>1, <2>2
    <2> QED
        BY <1>4, <2>3 DEF Expand
<1>5. ASSUME NEW r \in Request, Save(r) \/ Delete(r)
      PROVE  TypeOK'
    BY <1>5, ArgumentsAreTickets DEF Save, Delete
<1>6. ASSUME NEW r \in Request, Audit(r)
      PROVE  TypeOK'
    <2>1. Entry(r) \in AuditEntry
        BY DEF Entry, AuditEntry
    <2> QED
        BY <1>6, <2>1 DEF Audit
<1>7. ASSUME NEW t \in Ticket, ToggleDeleted(t)
      PROVE  TypeOK'
    BY <1>7 DEF ToggleDeleted
<1>8. CASE Crash
    BY <1>8 DEF Crash
<1>9. CASE UNCHANGED vars
    BY <1>9 DEF vars
<1> QED
    BY <1>1, <1>2, <1>3, <1>4, <1>5, <1>6, <1>7, <1>8, <1>9
       DEF Next, Rest, Handle, Add, Remove

(* Type correctness of the two tables and of every handler.                *)
THEOREM TypeCorrect == Spec => []TypeOK
BY InitTypeOK, NextTypeOK, PTL DEF Spec

-----------------------------------------------------------------------------
(* The search of wouldCreateCycle: whatever a marked ticket is blocked by  *)
(* is marked or waits in the queue, the new blocker too, and the ticket    *)
(* that would be blocked has not been marked.                              *)
SearchSound(r) ==
    pc[r] = "searching" =>
        /\ By(r) \in visited[r] \cup queue[r]
        /\ Id(r) \notin visited[r]
        /\ \A t \in visited[r] : \A b \in Ticket :
               <<t, b>> \in dependencies => b \in visited[r] \cup queue[r]

SearchesSound == \A r \in Request : SearchSound(r)

(* When the queue is empty the marked tickets are closed under "is blocked *)
(* by" and leave the new ticket out.  A set S in which every ticket is     *)
(* blocked by another of S would, with the new row, either live inside the *)
(* marked tickets, or not need the new row at all: both contradict that    *)
(* the table had no cycle.                                                 *)
LEMMA InsertKeepsAcyclic ==
    ASSUME TypeOK, Acyclic, NEW r \in Request, SearchSound(r), Save(r)
    PROVE  Acyclic'
<1>0. Id(r) \in Ticket /\ By(r) \in Ticket /\ Edge(r) = <<Id(r), By(r)>>
    BY ArgumentsAreTickets
<1>1. /\ By(r) \in visited[r]
      /\ Id(r) \notin visited[r]
      /\ \A t \in visited[r] : \A b \in Ticket : <<t, b>> \in dependencies => b \in visited[r]
    BY DEF SearchSound, Save, NoCycleFound
<1>2. dependencies' = dependencies \cup {<<Id(r), By(r)>>}
    BY <1>0 DEF Save
<1> SUFFICES ASSUME NEW S \in SUBSET Ticket, S # {},
                    \A t \in S : \E b \in S : <<t, b>> \in dependencies'
             PROVE  FALSE
    BY DEF Acyclic
<1>3. CASE S \cap visited[r] # {}
    <2>1. \A t \in S \cap visited[r] : \E b \in S \cap visited[r] : <<t, b>> \in dependencies
        BY <1>1, <1>2
    <2>2. S \cap visited[r] \in SUBSET Ticket
        OBVIOUS
    <2> QED
        BY <1>3, <2>1, <2>2 DEF Acyclic
<1>4. CASE S \cap visited[r] = {}
    <2>1. By(r) \notin S
        BY <1>1, <1>4
    <2>2. \A t \in S : \E b \in S : <<t, b>> \in dependencies
        BY <1>2, <2>1
    <2> QED
        BY <2>2 DEF Acyclic
<1> QED
    BY <1>3, <1>4

(* Removing rows makes no cycle.                                           *)
LEMMA FewerKeepAcyclic ==
    ASSUME Acyclic, dependencies' \subseteq dependencies
    PROVE  Acyclic'
BY DEF Acyclic

(* The rows change in Save and Delete alone.                               *)
LEMMA WhoWritesDependencies ==
    ASSUME [Next]_vars
    PROVE  \/ dependencies' \subseteq dependencies
           \/ \E r \in Request : Save(r)
<1> USE DEF Reading
<1>1. ASSUME NEW r \in Request, StartAdd(r) \/ StartRemove(r) \/ QueryFails(r) \/ FindTicket(r)
                 \/ FindBlocker(r) \/ FindExisting(r) \/ CycleFound(r) \/ Expand(r)
                 \/ SaveConflicts(r) \/ FindDependency(r) \/ Delete(r) \/ Audit(r)
      PROVE  dependencies' \subseteq dependencies
    BY <1>1 DEF StartAdd, StartRemove, QueryFails, FindTicket, FindBlocker, FindExisting,
                CycleFound, Expand, SaveConflicts, FindDependency, Delete, Audit
<1>2. ASSUME NEW t \in Ticket, ToggleDeleted(t)
      PROVE  UNCHANGED dependencies
    BY <1>2 DEF ToggleDeleted
<1>3. Crash \/ UNCHANGED vars => UNCHANGED dependencies
    BY DEF Crash, vars
<1> QED
    BY <1>1, <1>2, <1>3 DEF Next, Rest, Handle, Add, Remove

(* A search is undisturbed by steps that add no row and are not its own.   *)
LEMMA SearchKept ==
    ASSUME NEW r \in Request, SearchSound(r), dependencies' \subseteq dependencies,
           UNCHANGED call, pc'[r] = pc[r],
           pc[r] = "searching" => queue'[r] = queue[r] /\ visited'[r] = visited[r]
    PROVE  SearchSound(r)'
BY DEF SearchSound, Id, By

(* No two add requests are between their first check and their INSERT.     *)
Alone == \A r, s \in Request : Adding(r) /\ Adding(s) => r = s

LEMMA AloneKept ==
    ASSUME TypeOK, Alone, [SerialNext]_vars
    PROVE  Alone'
<1> USE DEF TypeOK, Adding
<1>1. ASSUME Rest \/ UNCHANGED vars, NEW s \in Request, Adding(s)'
      PROVE  Adding(s)
    <2> USE DEF Reading, Unless, GoTo, Answer
    <2>1. ASSUME NEW r \in Request, StartRemove(r) \/ QueryFails(r) \/ FindTicket(r)
                     \/ FindBlocker(r) \/ FindExisting(r) \/ CycleFound(r) \/ Expand(r)
                     \/ Save(r) \/ SaveConflicts(r) \/ FindDependency(r) \/ Delete(r) \/ Audit(r)
          PROVE  Adding(s)
        BY <1>1, <2>1 DEF StartRemove, QueryFails, FindTicket, FindBlocker, FindExisting,
               CycleFound, Expand, Save, SaveConflicts, FindDependency, Delete, Audit, NoCycleFound
    <2>2. Crash \/ UNCHANGED vars => Adding(s)
        BY <1>1 DEF Crash, vars
    <2>3. ASSUME NEW t \in Ticket, ToggleDeleted(t)
          PROVE  Adding(s)
        BY <1>1, <2>3 DEF ToggleDeleted
    <2> QED
        BY <1>1, <2>1, <2>2, <2>3 DEF Rest, Handle, Add, Remove
<1>2. ASSUME NEW r \in Request, StartAddAlone(r), NEW s \in Request, Adding(s)'
      PROVE  s = r
    BY <1>2 DEF StartAddAlone, StartAdd, Reading, Unless, GoTo, Answer
<1> QED
    BY <1>1, <1>2 DEF Alone, SerialNext

(* With adds one at a time the only rows that appear under a search are    *)
(* its own.                                                                *)
LEMMA NextSearchesSound ==
    ASSUME TypeOK, SearchesSound, Alone, [Next]_vars
    PROVE  SearchesSound'
<1> SUFFICES ASSUME NEW r \in Request
             PROVE  SearchSound(r)'
    BY DEF SearchesSound
<1>0. SearchSound(r)
    BY DEF SearchesSound
<1> USE DEF Reading, Unless, GoTo, Answer, search
<1>1. ASSUME NEW q \in Request, StartAdd(q) \/ StartRemove(q) \/ QueryFails(q) \/ FindTicket(q)
                 \/ FindBlocker(q) \/ CycleFound(q) \/ SaveConflicts(q) \/ FindDependency(q)
                 \/ Delete(q) \/ Audit(q)
      PROVE  SearchSound(r)'
    <2> USE DEF StartAdd, StartRemove, QueryFails, FindTicket, FindBlocker, CycleFound,
                SaveConflicts, FindDependency, Delete, Audit
    <2>1. UNCHANGED <<call, queue, visited>> /\ dependencies' \subseteq dependencies
        BY <1>1
    <2>2. pc'[r] = pc[r] \/ pc'[r] # "searching"
        BY <1>1 DEF TypeOK
    <2> QED
        BY <1>0, <2>1, <2>2, SearchKept DEF SearchSound
<1>2. ASSUME NEW q \in Request, FindExisting(q)
      PROVE  SearchSound(r)'
    <2>1. CASE q = r
        <3>1. queue'[r] = {By(r)} /\ visited'[r] = {} /\ UNCHANGED call
            BY <1>2, <2>1 DEF FindExisting, TypeOK
        <3> QED
            BY <3>1 DEF SearchSound, By, Id
    <2>2. CASE q # r
        BY <1>0, <1>2, <2>2, SearchKept DEF FindExisting, TypeOK
    <2> QED
        BY <2>1, <2>2
<1>3. ASSUME NEW q \in Request, Expand(q)
      PROVE  SearchSound(r)'
    <2>1. CASE q = r
        <3>1. PICK t \in queue[r] \ {Id(r)} :
                  IF t \in visited[r]
                  THEN /\ queue'[r] = queue[r] \ {t}
                       /\ visited'[r] = visited[r]
                  ELSE /\ queue'[r] = (queue[r] \ {t}) \cup BlockersOf(t)
                       /\ visited'[r] = visited[r] \cup {t}
            BY <1>3, <2>1 DEF Expand, Marked, TypeOK
        <3>2. UNCHANGED <<dependencies, call, pc>> /\ pc[r] = "searching"
            BY <1>3, <2>1 DEF Expand
        <3> QED
            BY <1>0, <3>1, <3>2 DEF SearchSound, BlockersOf, By, Id
    <2>2. CASE q # r
        BY <1>0, <1>3, <2>2, SearchKept DEF Expand, TypeOK
    <2> QED
        BY <2>1, <2>2
<1>4. ASSUME NEW q \in Request, Save(q)
      PROVE  SearchSound(r)'
    <2>1. CASE q = r
        BY <1>4, <2>1 DEF Save, NoCycleFound, SearchSound, TypeOK
    <2>2. CASE q # r
        <3>1. pc[r] # "searching"
            BY <1>4, <2>2 DEF Alone, Adding, Save, NoCycleFound
        <3> QED
            BY <1>4, <2>2, <3>1 DEF Save, SearchSound, TypeOK
    <2> QED
        BY <2>1, <2>2
<1>5. CASE Crash
    BY <1>5 DEF Crash, SearchSound
<1>6. ASSUME NEW t \in Ticket, ToggleDeleted(t)
      PROVE  SearchSound(r)'
    BY <1>0, <1>6, SearchKept DEF ToggleDeleted
<1>7. CASE UNCHANGED vars
    BY <1>0, <1>7, SearchKept DEF vars
<1> QED
    BY <1>1, <1>2, <1>3, <1>4, <1>5, <1>6, <1>7 DEF Next, Rest, Handle, Add, Remove

(* The inductive invariant of adds served one at a time.                   *)
SerialInv == TypeOK /\ Alone /\ SearchesSound /\ Acyclic

LEMMA InitSerialInv == SerialInit => SerialInv
<1> SUFFICES ASSUME SerialInit
             PROVE  SerialInv
    OBVIOUS
<1>1. Alone /\ SearchesSound
    BY DEF SerialInit, Init, Alone, Adding, SearchesSound, SearchSound
<1> QED
    BY <1>1, InitTypeOK DEF SerialInv, SerialInit

LEMMA NextSerialInv == SerialInv /\ [SerialNext]_vars => SerialInv'
<1> SUFFICES ASSUME SerialInv, [SerialNext]_vars
             PROVE  SerialInv'
    OBVIOUS
<1> USE DEF SerialInv
<1>0. [Next]_vars
    BY DEF SerialNext, Next, StartAddAlone
<1>1. TypeOK' /\ SearchesSound' /\ Alone'
    BY <1>0, NextTypeOK, NextSearchesSound, AloneKept
<1>2. Acyclic'
    <2>1. ASSUME NEW r \in Request, Save(r)
          PROVE  Acyclic'
        BY <2>1, InsertKeepsAcyclic DEF SearchesSound
    <2> QED
        BY <1>0, <2>1, FewerKeepAcyclic, WhoWritesDependencies
<1> QED
    BY <1>1, <1>2

(* Served one at a time, adds never close a cycle, however removals, soft  *)
(* deletes, failures and crashes fall between their calls: the search of   *)
(* wouldCreateCycle is right, and only concurrent adds can defeat it.      *)
THEOREM SerialAddsStayAcyclic == SerialSpec => []Acyclic
<1>1. SerialInv => Acyclic
    BY DEF SerialInv
<1> QED
    BY <1>1, InitSerialInv, NextSerialInv, PTL DEF SerialSpec

-----------------------------------------------------------------------------
(* Refusals, while no dependency is removed: everything in the queue of a  *)
(* search is a blocker, through others, of the ticket it started from.     *)
OnlyAdds == \A k \in Call : k.op = "add"

QueueReached ==
    /\ \A r \in Request : pc[r] \notin {"findDependency", "deleting"}
    /\ \A r \in Request : pc[r] = "searching" => \A t \in queue[r] : Graph!LeadsTo(By(r), t)
    /\ CycleRefusalJustified

LEMMA LeadsToItself == ASSUME NEW t \in Ticket PROVE Graph!LeadsTo(t, t)
BY DEF Graph!LeadsTo

LEMMA LeadsToBlockers ==
    ASSUME NEW t \in Ticket, NEW u \in Ticket, NEW b \in BlockersOf(u), Graph!LeadsTo(t, u)
    PROVE  Graph!LeadsTo(t, b)
BY DEF Graph!LeadsTo, BlockersOf

(* Rows that are added only lead further.                                  *)
LEMMA LeadsFurther ==
    ASSUME NEW t \in Ticket, NEW u \in Ticket, Graph!LeadsTo(t, u), dependencies \subseteq dependencies'
    PROVE  Graph!LeadsTo(t, u)'
BY DEF Graph!LeadsTo

LEMMA InitQueueReached == Init => QueueReached
BY DEF Init, QueueReached, CycleRefusalJustified

LEMMA NextQueueReached ==
    ASSUME OnlyAdds, TypeOK, QueueReached, [Next]_vars
    PROVE  QueueReached'
<1> USE DEF Reading, Unless, GoTo, Answer, search
<1>0. /\ UNCHANGED call /\ TypeOK'
      /\ \A r \in Request : By(r)' = By(r) /\ Id(r)' = Id(r) /\ By(r) \in Ticket /\ Id(r) \in Ticket
    <2>1. UNCHANGED call
        <3>1. ASSUME NEW r \in Request, StartAdd(r) \/ StartRemove(r) \/ QueryFails(r) \/ FindTicket(r)
                         \/ FindBlocker(r) \/ FindExisting(r) \/ CycleFound(r) \/ Expand(r) \/ Save(r)
                         \/ SaveConflicts(r) \/ FindDependency(r) \/ Delete(r) \/ Audit(r)
              PROVE  UNCHANGED call
            BY <3>1 DEF StartAdd, StartRemove, QueryFails, FindTicket, FindBlocker, FindExisting,
                   CycleFound, Expand, Save, SaveConflicts, FindDependency, Delete, Audit
        <3>2. Crash \/ UNCHANGED vars \/ (\E t \in Ticket : ToggleDeleted(t)) => UNCHANGED call
            BY DEF Crash, vars, ToggleDeleted
        <3> QED
            BY <3>1, <3>2 DEF Next, Rest, Handle, Add, Remove
    <2> QED
        BY <2>1, NextTypeOK, ArgumentsAreTickets DEF By, Id
(* A step that adds no entry to a queue and refuses nobody as circular.    *)
<1>K. ASSUME dependencies \subseteq dependencies',
             \A r \in Request : pc'[r] \notin {"findDependency", "deleting"},
             \A r \in Request : pc'[r] = "searching" => pc[r] = "searching" /\ queue'[r] \subseteq queue[r],
             \A r \in Request : response'[r] = "cycle" => response[r] = "cycle"
      PROVE  QueueReached'
    <2>1. ASSUME NEW r \in Request, pc'[r] = "searching", NEW t \in queue'[r]
          PROVE  Graph!LeadsTo(By(r), t)'
        <3>1. t \in Ticket /\ Graph!LeadsTo(By(r), t)
            BY <1>K, <2>1 DEF QueueReached, TypeOK
        <3>2. PICK b \in Ticket : b = By(r) /\ b = By(r)'
            BY <1>0
        <3>3. Graph!LeadsTo(b, t)'
            BY <1>K, <3>1, <3>2, LeadsFurther
        <3> QED
            BY <1>0, <3>2, <3>3 DEF Graph!LeadsTo
    <2>2. ASSUME NEW r \in Request, response'[r] = "cycle"
          PROVE  Graph!LeadsTo(By(r), Id(r))'
        <3>1. Graph!LeadsTo(By(r), Id(r))
            BY <1>K, <2>2 DEF QueueReached, CycleRefusalJustified
        <3>2. PICK b \in Ticket, i \in Ticket : b = By(r) /\ b = By(r)' /\ i = Id(r) /\ i = Id(r)'
            BY <1>0
        <3>3. Graph!LeadsTo(b, i)'
            BY <1>K, <3>1, <3>2, LeadsFurther
        <3> QED
            BY <3>2, <3>3 DEF Graph!LeadsTo
    <2> QED
        BY <1>K, <2>1, <2>2 DEF QueueReached, CycleRefusalJustified
<1>1. ASSUME NEW q \in Request, StartAdd(q) \/ QueryFails(q) \/ FindTicket(q) \/ FindBlocker(q)
                 \/ Save(q) \/ SaveConflicts(q) \/ Audit(q)
      PROVE  QueueReached'
    <2> USE DEF StartAdd, QueryFails, FindTicket, FindBlocker, Save, SaveConflicts, Audit
    <2>1. UNCHANGED queue /\ dependencies \subseteq dependencies'
        BY <1>1
    <2>2. \A r \in Request : /\ pc'[r] \notin {"findDependency", "deleting"}
                             /\ pc'[r] = "searching" => pc[r] = "searching"
        BY <1>1 DEF QueueReached, TypeOK
    <2>3. \A r \in Request : response'[r] = "cycle" => response[r] = "cycle"
        BY <1>1 DEF TypeOK
    <2> QED
        BY <1>K, <2>1, <2>2, <2>3
<1>2. ASSUME NEW q \in Request, StartRemove(q) \/ FindDependency(q) \/ Delete(q)
      PROVE  FALSE
    <2>1. Op(q) = "add"
        BY DEF OnlyAdds, TypeOK, Op
    <2> QED
        BY <1>2, <2>1 DEF StartRemove, FindDependency, Delete, QueueReached
<1>3. ASSUME NEW q \in Request, FindExisting(q)
      PROVE  QueueReached'
    <2>1. /\ UNCHANGED dependencies /\ queue' = [queue EXCEPT ![q] = {By(q)}]
          /\ \A r \in Request : pc'[r] \notin {"findDependency", "deleting"}
          /\ \A r \in Request \ {q} : pc'[r] = pc[r]
          /\ \A r \in Request : response'[r] = "cycle" => response[r] = "cycle"
        BY <1>3 DEF FindExisting, QueueReached, TypeOK
    <2>2. \A r \in Request : Graph!LeadsTo(By(r), Id(r))' = Graph!LeadsTo(By(r), Id(r))
        BY <1>0, <2>1 DEF Graph!LeadsTo
    <2>3. ASSUME NEW r \in Request, pc'[r] = "searching", NEW t \in queue'[r]
          PROVE  Graph!LeadsTo(By(r), t)'
        <3>1. Graph!LeadsTo(By(r), t)
            BY <1>0, <2>1, <2>3, LeadsToItself DEF QueueReached, TypeOK
        <3> QED
            BY <1>0, <2>1, <3>1 DEF Graph!LeadsTo
    <2> QED
        BY <2>1, <2>2, <2>3 DEF QueueReached, CycleRefusalJustified
<1>4. ASSUME NEW q \in Request, Expand(q)
      PROVE  QueueReached'
    <2>1. PICK t \in queue[q] \ {Id(q)} :
              \/ queue' = [queue EXCEPT ![q] = @ \ {t}]
              \/ queue' = [queue EXCEPT ![q] = (@ \ {t}) \cup BlockersOf(t)]
        BY <1>4 DEF Expand
    <2>2. UNCHANGED <<dependencies, pc, response>> /\ pc[q] = "searching"
        BY <1>4 DEF Expand
    <2>3. ASSUME NEW r \in Request, pc'[r] = "searching", NEW u \in queue'[r]
          PROVE  Graph!LeadsTo(By(r), u)'
        <3>1. u \in queue[r] \/ (r = q /\ u \in BlockersOf(t))
            BY <2>1, <2>3 DEF TypeOK
        <3>2. Graph!LeadsTo(By(q), t) /\ t \in Ticket
            BY <2>1, <2>2 DEF QueueReached, TypeOK
        <3>3. Graph!LeadsTo(By(r), u)
            BY <1>0, <2>2, <2>3, <3>1, <3>2, LeadsToBlockers DEF QueueReached
        <3> QED
            BY <1>0, <2>2, <3>3 DEF Graph!LeadsTo
    <2>4. CycleRefusalJustified'
        BY <1>0, <2>2 DEF QueueReached, CycleRefusalJustified, Graph!LeadsTo
    <2> QED
        BY <2>2, <2>3, <2>4 DEF QueueReached
<1>5. ASSUME NEW q \in Request, CycleFound(q)
      PROVE  QueueReached'
    <2>1. /\ pc[q] = "searching" /\ Id(q) \in queue[q] /\ UNCHANGED <<dependencies, queue>>
          /\ \A r \in Request : pc'[r] \notin {"findDependency", "deleting"}
          /\ \A r \in Request : pc'[r] = "searching" => pc[r] = "searching"
          /\ \A r \in Request : response'[r] = "cycle" => response[r] = "cycle" \/ r = q
        BY <1>5 DEF CycleFound, QueueReached, TypeOK
    <2>2. Graph!LeadsTo(By(q), Id(q))
        BY <2>1 DEF QueueReached
    <2>3. \A r \in Request : response'[r] = "cycle" => Graph!LeadsTo(By(r), Id(r))
        BY <2>1, <2>2 DEF QueueReached, CycleRefusalJustified
    <2>4. \A r \in Request : pc'[r] = "searching" => \A t \in queue'[r] : Graph!LeadsTo(By(r), t)
        BY <2>1 DEF QueueReached
    <2> QED
        BY <1>0, <2>1, <2>3, <2>4 DEF QueueReached, CycleRefusalJustified, Graph!LeadsTo
<1>6. CASE Crash \/ UNCHANGED vars \/ \E t \in Ticket : ToggleDeleted(t)
    <2>1. /\ UNCHANGED <<dependencies, queue>>
          /\ \A r \in Request : pc'[r] \notin {"findDependency", "deleting"}
          /\ \A r \in Request : pc'[r] = "searching" => pc[r] = "searching"
          /\ \A r \in Request : response'[r] = "cycle" => response[r] = "cycle"
        BY <1>6 DEF Crash, vars, ToggleDeleted, QueueReached, TypeOK
    <2> QED
        BY <1>K, <2>1
<1> QED
    BY <1>1, <1>2, <1>3, <1>4, <1>5, <1>6 DEF Next, Rest, Handle, Add, Remove

(* While no dependency is removed, an add is refused as circular only if   *)
(* the new row would close a cycle, although the search mixes rows read at *)
(* different times.                                                        *)
THEOREM RefusalsAreJustified ==
    ASSUME OnlyAdds
    PROVE  Spec => []CycleRefusalJustified
<1>1. Init => TypeOK /\ QueueReached
    BY InitTypeOK, InitQueueReached
<1>2. TypeOK /\ QueueReached /\ [Next]_vars => TypeOK' /\ QueueReached'
    BY NextTypeOK, NextQueueReached
<1>3. QueueReached => CycleRefusalJustified
    BY DEF QueueReached
<1> QED
    BY <1>1, <1>2, <1>3, PTL DEF Spec

-----------------------------------------------------------------------------
(* Adds served one at a time implement single checked INSERTs.  What the   *)
(* checks before the search found still holds when the row is inserted.    *)
EdgeIsNew(r) ==
    /\ pc[r] \in {"findExisting", "searching"} => SameProject(r)
    /\ pc[r] = "searching" => Edge(r) \notin dependencies

EdgesAreNew == \A r \in Request : EdgeIsNew(r)

LEMMA NextEdgesAreNew ==
    ASSUME TypeOK, EdgesAreNew, Alone, [Next]_vars
    PROVE  EdgesAreNew'
<1> SUFFICES ASSUME NEW r \in Request
             PROVE  EdgeIsNew(r)'
    BY DEF EdgesAreNew
<1>0. EdgeIsNew(r)
    BY DEF EdgesAreNew
<1> USE DEF Reading, Unless, GoTo, Answer, search
(* A step that inserts no row and moves no handler past a check.           *)
<1>K. ASSUME UNCHANGED call, dependencies' \subseteq dependencies,
             pc'[r] = pc[r] \/ pc'[r] \notin {"findExisting", "searching"}
      PROVE  EdgeIsNew(r)'
    BY <1>0, <1>K DEF EdgeIsNew, SameProject, Edge, Id, By
<1>1. ASSUME NEW q \in Request, StartAdd(q) \/ StartRemove(q) \/ QueryFails(q) \/ FindTicket(q)
                 \/ CycleFound(q) \/ Expand(q) \/ SaveConflicts(q) \/ FindDependency(q)
                 \/ Delete(q) \/ Audit(q)
      PROVE  EdgeIsNew(r)'
    <2> USE DEF StartAdd, StartRemove, QueryFails, FindTicket, CycleFound, Expand,
                SaveConflicts, FindDependency, Delete, Audit
    <2>1. UNCHANGED call /\ dependencies' \subseteq dependencies
        BY <1>1
    <2>2. pc'[r] = pc[r] \/ pc'[r] \notin {"findExisting", "searching"}
        BY <1>1 DEF TypeOK
    <2> QED
        BY <1>K, <2>1, <2>2
<1>2. ASSUME NEW q \in Request, FindBlocker(q)
      PROVE  EdgeIsNew(r)'
    <2>1. UNCHANGED <<call, dependencies>>
        BY <1>2 DEF FindBlocker
    <2>2. CASE q = r
        <3>1. pc'[r] = "done" \/ (pc'[r] = "findExisting" /\ SameProject(r))
            BY <1>2, <2>2 DEF FindBlocker, TypeOK
        <3> QED
            BY <2>1, <3>1 DEF EdgeIsNew, SameProject, Id, By
    <2>3. CASE q # r
        BY <1>2, <1>K, <2>1, <2>3 DEF FindBlocker, TypeOK
    <2> QED
        BY <2>2, <2>3
<1>3. ASSUME NEW q \in Request, FindExisting(q)
      PROVE  EdgeIsNew(r)'
    <2>1. UNCHANGED <<call, dependencies>>
        BY <1>3 DEF FindExisting
    <2>2. CASE q = r
        <3>1. /\ pc[r] = "findExisting"
              /\ pc'[r] = "done" \/ (pc'[r] = "searching" /\ Edge(r) \notin dependencies)
            BY <1>3, <2>2 DEF FindExisting, TypeOK
        <3> QED
            BY <1>0, <2>1, <3>1 DEF EdgeIsNew, SameProject, Edge, Id, By
    <2>3. CASE q # r
        BY <1>3, <1>K, <2>1, <2>3 DEF FindExisting, TypeOK
    <2> QED
        BY <2>2, <2>3
<1>4. ASSUME NEW q \in Request, Save(q)
      PROVE  EdgeIsNew(r)'
    <2>1. UNCHANGED call /\ pc[q] = "searching"
        BY <1>4 DEF Save, NoCycleFound
    <2>2. CASE q = r
        BY <1>4, <2>2 DEF Save, EdgeIsNew, TypeOK
    <2>3. CASE q # r
        <3>1. pc[r] \notin {"findExisting", "searching"} /\ pc'[r] = pc[r]
            BY <1>4, <2>1, <2>3 DEF Alone, Adding, Save, TypeOK
        <3> QED
            BY <3>1 DEF EdgeIsNew
    <2> QED
        BY <2>2, <2>3
<1>5. CASE Crash \/ UNCHANGED vars \/ \E t \in Ticket : ToggleDeleted(t)
    <2>1. UNCHANGED <<call, dependencies>>
        BY <1>5 DEF Crash, vars, ToggleDeleted
    <2>2. pc'[r] = pc[r] \/ pc'[r] \notin {"findExisting", "searching"}
        BY <1>5 DEF Crash, vars, ToggleDeleted
    <2> QED
        BY <1>K, <2>1, <2>2
<1> QED
    BY <1>1, <1>2, <1>3, <1>4, <1>5 DEF Next, Rest, Handle, Add, Remove

(* The INSERT at the end of a search is the abstract one: the tickets the  *)
(* search has visited are closed and leave out the ticket to be blocked.   *)
LEMMA SaveIsAdd ==
    ASSUME TypeOK, NEW r \in Request, SearchSound(r), EdgeIsNew(r), Save(r)
    PROVE  Graph!Add(Id(r), By(r))
<1>0. Id(r) \in Ticket /\ By(r) \in Ticket /\ Edge(r) = <<Id(r), By(r)>>
    BY ArgumentsAreTickets
<1>1. /\ By(r) \in visited[r]
      /\ Id(r) \notin visited[r]
      /\ \A t \in visited[r] : \A b \in Ticket : <<t, b>> \in dependencies => b \in visited[r]
    BY DEF SearchSound, Save, NoCycleFound
<1>2. visited[r] \in SUBSET Ticket
    BY DEF TypeOK
<1>3. ~Graph!LeadsTo(By(r), Id(r))
    BY <1>1, <1>2 DEF Graph!LeadsTo
<1>4. SameProject(r) /\ Edge(r) \notin dependencies
    BY DEF EdgeIsNew, Save, NoCycleFound
<1> QED
    BY <1>0, <1>3, <1>4 DEF Graph!Add, Save, SameProject

(* Every other step removes a row or leaves the table as it is.            *)
LEMMA GraphStep ==
    ASSUME TypeOK, SearchesSound, EdgesAreNew, [Next]_vars
    PROVE  [Graph!Next]_dependencies
<1> USE DEF Reading
<1>1. ASSUME NEW r \in Request, Save(r)
      PROVE  Graph!Next
    <2>1. Graph!Add(Id(r), By(r))
        BY <1>1, SaveIsAdd DEF SearchesSound, EdgesAreNew
    <2> QED
        BY <2>1, ArgumentsAreTickets DEF Graph!Next
<1>2. ASSUME NEW r \in Request, Delete(r)
      PROVE  Graph!Next
    <2>1. Graph!Remove(Id(r), By(r))
        BY <1>2 DEF Delete, Graph!Remove, Edge
    <2> QED
        BY <2>1, ArgumentsAreTickets DEF Graph!Next
<1>3. ASSUME NEW r \in Request, StartAdd(r) \/ StartRemove(r) \/ QueryFails(r) \/ FindTicket(r)
                 \/ FindBlocker(r) \/ FindExisting(r) \/ CycleFound(r) \/ Expand(r)
                 \/ SaveConflicts(r) \/ FindDependency(r) \/ Audit(r)
      PROVE  UNCHANGED dependencies
    BY <1>3 DEF StartAdd, StartRemove, QueryFails, FindTicket, FindBlocker, FindExisting,
                CycleFound, Expand, SaveConflicts, FindDependency, Audit
<1>4. Crash \/ UNCHANGED vars \/ (\E t \in Ticket : ToggleDeleted(t)) => UNCHANGED dependencies
    BY DEF Crash, vars, ToggleDeleted
<1> QED
    BY <1>1, <1>2, <1>3, <1>4 DEF Next, Rest, Handle, Add, Remove

(* An add of many awaited calls is one INSERT that closes no cycle in the  *)
(* table it meets, as long as no other add overlaps it; removals, soft     *)
(* deletes, failures and crashes may.                                      *)
THEOREM SerialAddsAreAtomic == SerialSpec => AtomicAdds
<1> DEFINE Inv == SerialInv /\ EdgesAreNew
<1>1. SerialInit => Inv
    BY InitSerialInv DEF SerialInit, Init, EdgesAreNew, EdgeIsNew
<1>2. [SerialNext]_vars => [Next]_vars
    BY DEF SerialNext, Next, StartAddAlone
<1>3. Inv /\ [SerialNext]_vars => Inv'
    BY <1>2, NextSerialInv, NextEdgesAreNew DEF SerialInv
<1>4. Inv /\ [SerialNext]_vars => [Graph!Next]_dependencies
    BY <1>2, GraphStep DEF SerialInv
<1>5. SerialInit => Graph!Init
    BY DEF SerialInit, Init, Graph!Init
<1> HIDE DEF Inv
<1> QED
    BY <1>1, <1>3, <1>4, <1>5, PTL DEF SerialSpec, AtomicAdds, Graph!Spec
=============================================================================
