---------------------------- MODULE MCSubmission ----------------------------
(* Instances of Submission for TLC.                                         *)
EXTENDS Submission, TLC

CONSTANTS p1, p2, p3, l1, l2, k1, k2, n1, n2, a1

(* One person on the first list, another one not; the group may download.   *)
Entered ==
    [persons |-> [p \in Persons |-> IF p = p1 THEN k1 ELSE IF p = p2 THEN NoKey ELSE Unborn],
     lists |-> [l \in Lists |-> IF l = l1 THEN [at |-> 0, candidates |-> <<p1>>] ELSE NoList]]
Filled ==
    [group |-> [designation |-> "none", registration |-> Unbound, appellation |-> n1],
     agents |-> {a1}, submitter |-> "complete", substitutes |-> {},
     districts |-> [l \in Lists |-> IF l = l1 THEN {1} ELSE {}], complete |-> {p1}]
Registry == [g \in Registrations |-> n2]

(* A political group in each kind of election, and a correction of papers.  *)
AllSettings == {[own |-> TRUE, oneDistrict |-> FALSE], [own |-> TRUE, oneDistrict |-> TRUE],
                [own |-> FALSE, oneDistrict |-> FALSE]}
Perms == Permutations(Requests)
=============================================================================
