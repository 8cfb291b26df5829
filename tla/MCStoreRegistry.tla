--------------------------- MODULE MCStoreRegistry ---------------------------
(* Instances of StoreRegistry for TLC.                                       *)
EXTENDS StoreRegistry, TLC

CONSTANTS r1, r2, r3, i1, i2, p1, c1, c2

(* Which of the fresh ids a stream gets makes no difference.                 *)
FreshIds == Permutations(CsbStreams)

(* r1 and r2 meet in one process; r3 is served by that one or by another.    *)
Scene(past, start, last, a, b, c) ==
    [past |-> past, start |-> start,
     host |-> [r \in Requests |-> IF r = r3 THEN last ELSE i1],
     ops |-> [r \in Requests |-> IF r = r1 THEN a ELSE IF r = r2 THEN b ELSE c]]

New == [s \in Streams |-> 0]
Known == [s \in Streams |-> IF s \in PgStreams THEN 1 ELSE 0]
Examined(c) == [s \in Streams |-> IF s = c THEN 1 ELSE 0]

(* A group works in several windows at the limits, in one process or two, ...*)
Windows == Scene(New, 0, i2, {"visit"}, {"visit", "logout"}, {})
Elsewhere == Scene(New, 0, i2, {"visit"}, {}, {"visit", "login"})
(* ... it is imported while it works, ...                                    *)
Submission == Scene(Known, MaxTime, i2, {"import"}, {"login"}, {"login"})
(* ... or twice, by two members, ...                                         *)
Imports == Scene(Known, MaxTime, i2, {"import"}, {"overview", "create"}, {"import"})
(* ... and groups are examined, corrected on paper and deleted.              *)
Committee == Scene(Known, MaxTime, i2, {"import", "create"}, {"examine"}, {"examine", "paper"})
Examination(c) == Scene(Examined(c), MaxTime, i1, {"examine"}, {"examine", "paper"}, {"examine"})
Day == {Windows, Elsewhere, Submission, Imports, Committee} \cup {Examination(c) : c \in CsbStreams}

(* A group that has as many events as it can have, all of some time ago.     *)
Full == [s \in Streams |-> IF s \in PgStreams THEN EventsTotal ELSE 0]
Capped == {Scene(Full, MaxTime, i2, {"login"}, {"logout"}, {})}
=============================================================================
