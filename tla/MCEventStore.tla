---------------------------- MODULE MCEventStore ----------------------------
(* Two processes of different builds and the requests that share them.      *)
EXTENDS EventStore, TLC

CONSTANTS s1, s2, r1, r2, r3, plain, recent

(* s1 runs the old build, which does not know the recent kind.              *)
MCReads == (s1 :> {plain}) @@ (s2 :> {plain, recent})

(* Two requests race within s1 while a third writes from s2.                *)
MCHost == (r1 :> s1) @@ (r2 :> s1) @@ (r3 :> s2)

(* Only r1 writes twice.                                                    *)
MCMaxWrites == (r1 :> 2) @@ (r2 :> 1) @@ (r3 :> 1)

(* r1 writes through its handle or with a sweep's update_when, which the    *)
(* two others can make fail twice; r2 is a committee member in the same     *)
(* process, r3 has a handle in the other.                                   *)
MCUses == (r1 :> {"own", "when"}) @@ (r2 :> {"csb"}) @@ (r3 :> {"own"})
=============================================================================
