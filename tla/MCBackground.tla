---------------------------- MODULE MCBackground ----------------------------
EXTENDS Background

(* One task at a time: they share nothing that any of them changes.         *)
MCScenes == {{"prober"}, {"renewer"}, {"refresh"}}
MCProber == {{"prober"}}

(* A validity without a hint, a hint below every minimum, one above every   *)
(* maximum, and one that cannot be read.                                    *)
MCOffers == {[cache |-> Unset, left |-> 3], [cache |-> 0, left |-> Never],
             [cache |-> MaxAge + 3, left |-> Never], [cache |-> Unread, left |-> Never]}
=============================================================================
