---------------------------- MODULE MCBrpCheck ----------------------------
(* Instances of BrpCheck for TLC.                                           *)
EXTENDS BrpCheck, TLC

CONSTANTS p1, p2, wrong, right, a1, a2, k1, k2, k3, i1, i2, m1, mismatch

(* A candidate with a wrong value; another is added on paper, if at all.    *)
One == p1 :> [value |-> wrong, rest |-> a1]
Two == One @@ p2 :> [value |-> right, rest |-> a1]
OneAndUnborn == One @@ p2 :> Unborn

(* The BRP has an answer about the wrong value only.                        *)
OneFinds == wrong :> <<mismatch>> @@ right :> << >>

(* Two tasks of one process, and one of another.                            *)
TwoProcesses == k1 :> i1 @@ k2 :> i1 @@ k3 :> i2
OneTask == k1 :> i1

(* Two sweeps of one process and two events, or two sweeps of two processes *)
(* and one; or events only.                                                 *)
Sweeps == {[starts |-> <<k1, k2>>, edits |-> 2], [starts |-> <<k1, k3>>, edits |-> 1]}
NoSweeps == {[starts |-> << >>, edits |-> 2]}
=============================================================================
