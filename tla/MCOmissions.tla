---------------------------- MODULE MCOmissions ----------------------------
(* Instances of Omissions for TLC.                                          *)
EXTENDS Omissions, TLC

CONSTANTS d1, d2, l1, l2, p1, t1, r1, r2

Support(ds) == [kind |-> "support", subject |-> NoPerson, parts |-> ds]
OnLists(ls) == [kind |-> "list", subject |-> NoPerson, parts |-> ls]
OnCandidate(p, ls) == [kind |-> "candidate", subject |-> p, parts |-> ls]
OfGroup(kind) == [kind |-> kind, subject |-> NoPerson, parts |-> {}]

Pending(category) ==
    [category |-> category, text |-> t1, recoverable |-> TRUE, status |-> "Pending"]

(* Reports on a district, a list, a candidate on both lists, and the name.  *)
AllReports == {Support({d2}), OnLists({l1}), OnCandidate(p1, {l1, l2}),
               OfGroup("appellation")}

MCSubmitted == [l \in {l1, l2} |-> IF l = l1 THEN {d1, d2} ELSE {d2}]
(* The lists as imported, and l1 withdrawn from a district with l2 deleted. *)
MCPaperLists == {MCSubmitted, [l \in {l1} |-> {d1}]}

(* Two reports of the same omission, on overlapping districts.              *)
Overlapping == 2 :> Pending(Support({d1, d2})) @@ 3 :> Pending(Support({d1}))
(* A report from before districts were required.                            *)
OneLegacy == 2 :> Pending(Support({}))

(* Two members decide on, split and delete overlapping reports at once.     *)
Race == [existing |-> Overlapping, reports |-> {}, papers |-> {},
         members |-> 2, ids |-> 4, events |-> 4]
(* One member reports, assesses and corrects on paper.                      *)
Examine == [existing |-> OneLegacy, reports |-> AllReports, papers |-> MCPaperLists,
            members |-> 1, ids |-> 3, events |-> 5]

Examination == {Race, Examine}

Symmetry == Permutations(Requests)
=============================================================================
