--------------------------- MODULE MCDependencies ---------------------------
(* Small instances of Dependencies for TLC.                                *)
EXTENDS Dependencies, TLC

CONSTANTS t1, t2, t3, t4, r1, r2, r3

(* All tickets but t4 are of one project.                                  *)
Projects == [t \in Ticket |-> IF t = t4 THEN "other" ELSE "one"]

Links(op, T) ==
    {c \in [op : {op}, ticketId : T, blockerId : T] : c.ticketId # c.blockerId}

Adds == Links("add", Ticket)
Both == Adds \cup Links("remove", Ticket)

(* One of every kind of refusal, and adds that may close a cycle.          *)
SomeAdds ==
    {[op |-> "add", ticketId |-> t1, blockerId |-> t1],
     [op |-> "add", ticketId |-> t1, blockerId |-> t2],
     [op |-> "add", ticketId |-> t2, blockerId |-> t3],
     [op |-> "add", ticketId |-> t3, blockerId |-> t1],
     [op |-> "add", ticketId |-> t3, blockerId |-> t2],
     [op |-> "add", ticketId |-> t1, blockerId |-> t4]}

Empty == {{}}

(* A link that makes a longer chain possible, and the cycle that two       *)
(* concurrent adds can leave behind.                                       *)
ChainOrCycle == {{<<t2, t3>>}, {<<t1, t2>>, <<t2, t1>>}}

Interchangeable == Permutations(Ticket) \cup Permutations(Request)
=============================================================================
