---- MODULE Tasks ----
(***************************************************************************)
(* What the background tasks of src/bin/eks.rs share: the instances of the *)
(* application they run in, and the database, which comes and goes.        *)
(***************************************************************************)
EXTENDS Naturals, FiniteSets

CONSTANTS Instances   \* of the application, each with its own tasks

VARIABLES db,    \* TRUE while the database answers
          jobs   \* the tasks that are started, and followed, in this behaviour

Jobs == {"prober", "renewer", "refresh"}

DbGoesDown == db /\ db' = FALSE /\ UNCHANGED jobs
DbComesUp == ~db /\ db' = TRUE /\ UNCHANGED jobs
====
