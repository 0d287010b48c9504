---------------------------- MODULE MCSoftDelete ----------------------------
(* Small instances of SoftDelete for TLC.                                  *)
EXTENDS SoftDelete, TLC

CONSTANTS p1, p2, t1, t2, t3, c1, c2, r1, r2, r3

(* Two tickets in one project, the third in the other.                     *)
Projects == [t \in Ticket |-> IF t = t3 THEN p2 ELSE p1]

Tickets == c1 :> t1 @@ c2 :> t3

OneEach == [c \in Comment |-> IF c = c1 THEN t1 ELSE t2]

Interchangeable == Permutations(Request)
=============================================================================
