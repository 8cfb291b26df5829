----------------------------- MODULE MCFinalise -----------------------------
(* Instances of Finalise for TLC.                                            *)
EXTENDS Finalise

CONSTANTS s1, s2, r1, r2, i1, i2

TwoProcesses == [r \in Requests |-> IF r = r1 THEN i1 ELSE i2]
UpToTwo == {<< >>} \cup {<<a>> : a \in Streams} \cup {<<a, b>> : a, b \in Streams}

Group(a, d, n) == [status |-> "live", name |-> a, districts |-> d, manned |-> n]
None == [status |-> "none", name |-> 0, districts |-> 0, manned |-> 0]
Does(a, b) == [r \in Requests |-> IF r = r1 THEN a ELSE b]
Both(a, b) == [s \in Streams |-> IF s = s1 THEN a ELSE b]

(* A download while the order is posted and a group deleted: of one group    *)
(* numbered on votes and one by lot, which may lose its candidates; ...      *)
Download == [order |-> << >>, votes |-> [a \in Names |-> IF a = 0 THEN 1 ELSE 0],
             groups |-> Both(Group(0, 1, 1), Group(1, 1, 1)), makes |-> {Group(1, 1, 0)},
             ops |-> Does({"zip", "draft"}, {"order", "delete"}), events |-> 2, changes |-> 1]
(* ... of one, and one that is imported; ...                                 *)
Import == [Download EXCEPT !.votes = [a \in Names |-> 0],
                           !.groups = Both(Group(0, 1, 1), None),
                           !.makes = {Group(0, 1, 1), Group(1, 0, 0)}]
(* ... and of a package that was imported twice.                             *)
Twice == [Download EXCEPT !.groups = Both(Group(0, 1, 1), Group(0, 1, 1)),
                          !.makes = {Group(0, 1, 0), Group(1, 1, 1)},
                          !.ops = Does({"zip"}, {"order"}), !.events = 1]
(* An order is posted while a group of the recorded one is deleted.          *)
Deletion == [Download EXCEPT !.order = <<s1, s2>>, !.ops = Does({"order"}, {"delete"}),
                             !.makes = {}, !.changes = 2]
Afternoon == {Download, Import, Twice, Deletion}
=============================================================================
