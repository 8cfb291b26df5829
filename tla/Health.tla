------------------------------- MODULE Health -------------------------------
(***************************************************************************)
(* The gate in front of the database: DbHealth and run_db_prober of        *)
(* src/store/health.rs, db_gate_middleware and handle_db_error of          *)
(* src/app/middleware/maintenance.rs, and the migrations that the prober   *)
(* runs once (src/store/database.rs).                                      *)
(*                                                                         *)
(* Requests that meet a broken database close the gate and wake the prober *)
(* of their process; only the prober opens it again.  Waiting for a while  *)
(* is a step that can be taken at any time.                                *)
(***************************************************************************)
EXTENDS Tasks

CONSTANTS Callers,    \* Callers: what is being handled at once, in each process
          Tables      \* the tables that the application needs

VARIABLES
    tables,    \* the number of tables that exist; they are made in order
    gate,      \* gate[i]: DbHealth.state of process i is Healthy
    permit,    \* permit[i]: DbHealth.wake holds a notification
    prober,    \* prober[i]: the task's place, and its local variables
    call,      \* call[i][c]: where a request is
    late       \* history: late[i]: reported since the prober began its look

healthVars == <<tables, gate, permit, prober, call, late>>

HealthInit ==
    /\ tables \in {0, Tables}
    /\ gate = [i \in Instances |-> TRUE]
    /\ permit = [i \in Instances |-> FALSE]
    /\ prober = [i \in Instances |->
                   [pc |-> IF "prober" \in jobs THEN "init" ELSE "off",
                    migrated |-> FALSE, made |-> 0]]
    /\ call = [i \in Instances |-> [c \in Callers |-> "none"]]
    /\ late = [i \in Instances |-> FALSE]

Ready == db /\ tables = Tables

Goes(i, x) == prober' = [prober EXCEPT ![i] = x]

-----------------------------------------------------------------------------
(* migrate: at startup, where its error is only logged, and by the prober.  *)

(* pool.acquire.                                                            *)
Acquire(i) ==
    /\ prober[i].pc \in {"init", "migrate"}
    /\ db
    /\ Goes(i, [prober[i] EXCEPT !.pc = IF @ = "init" THEN "init_ddl" ELSE "ddl", !.made = 0])
    /\ UNCHANGED <<tables, gate, permit, call, late>>

AcquireFails(i) ==
    /\ prober[i].pc \in {"init", "migrate"}
    /\ ~db
    /\ Goes(i, [prober[i] EXCEPT !.pc = IF @ = "init" THEN "look" ELSE "failed"])
    /\ UNCHANGED <<tables, gate, permit, call, late>>

InDdl(i) == prober[i].pc \in {"init_ddl", "ddl"}

(* One CREATE TABLE IF NOT EXISTS.                                          *)
CreateTable(i) ==
    /\ InDdl(i) /\ db
    /\ prober[i].made < Tables
    /\ Goes(i, [prober[i] EXCEPT !.made = @ + 1])
    /\ tables' = IF tables > prober[i].made THEN tables ELSE prober[i].made + 1
    /\ UNCHANGED <<gate, permit, call, late>>

(* migrate returns Ok after the last table; and also when a statement fails *)
(* because the connection is lost or another process migrates.              *)
Migrated(i) ==
    /\ InDdl(i)
    /\ \/ prober[i].made = Tables
       \/ ~db
       \/ \E j \in Instances \ {i} : InDdl(j) /\ tables < Tables
    /\ Goes(i, [prober[i] EXCEPT !.pc = IF @ = "init_ddl" THEN "look" ELSE "verify",
                                 !.migrated = prober[i].pc = "ddl"])
    /\ UNCHANGED <<tables, gate, permit, call, late>>

-----------------------------------------------------------------------------
(* run_db_prober.                                                           *)

Look(i) ==
    /\ prober[i].pc = "look"
    /\ Goes(i, [prober[i] EXCEPT !.pc = IF prober[i].migrated THEN "verify" ELSE "migrate"])
    /\ late' = [late EXCEPT ![i] = FALSE]
    /\ UNCHANGED <<tables, gate, permit, call>>

(* verify_schema probes every table.                                        *)
Verify(i) ==
    /\ prober[i].pc = "verify"
    /\ Goes(i, [prober[i] EXCEPT !.pc = IF Ready THEN "ready" ELSE "failed"])
    /\ UNCHANGED <<tables, gate, permit, call, late>>

MarkHealthy(i) ==
    /\ prober[i].pc = "ready"
    /\ gate' = [gate EXCEPT ![i] = TRUE]
    /\ Goes(i, [prober[i] EXCEPT !.pc = "asleep"])
    /\ UNCHANGED <<tables, permit, call, late>>

(* Mutant: only a prober that is waiting already hears of it.               *)
WakeWaiting(i) == permit' = [permit EXCEPT ![i] = prober[i].pc = "asleep"]

(* notify_one: the notification is kept until someone waits for it.         *)
Wake(i) == permit' = [permit EXCEPT ![i] = TRUE]

(* Mutant: the prober leaves closing the gate to the requests.              *)
FindUnavailableOnly(i) ==
    /\ prober[i].pc = "failed"
    /\ Goes(i, [prober[i] EXCEPT !.pc = "backoff"])
    /\ UNCHANGED <<tables, gate, permit, call, late>>

FindUnavailable(i) ==
    /\ prober[i].pc = "failed"
    /\ gate' = [gate EXCEPT ![i] = FALSE]
    /\ Wake(i)
    /\ Goes(i, [prober[i] EXCEPT !.pc = "backoff"])
    /\ UNCHANGED <<tables, call, late>>

(* HEALTHY_INTERVAL has passed, or someone asked; the backoff has passed.   *)
SleepOver(i) ==
    /\ prober[i].pc \in {"asleep", "backoff"}
    /\ Goes(i, [prober[i] EXCEPT !.pc = "look"])
    /\ UNCHANGED <<tables, gate, permit, call, late>>

Woken(i) ==
    /\ prober[i].pc = "asleep"
    /\ permit[i]
    /\ permit' = [permit EXCEPT ![i] = FALSE]
    /\ Goes(i, [prober[i] EXCEPT !.pc = "look"])
    /\ UNCHANGED <<tables, gate, call, late>>

-----------------------------------------------------------------------------
(* Requests.                                                                *)

(* db_gate_middleware lets a request in, while the gate is open; the path   *)
(* of some makes that unconditional, and those do not use the tables.       *)
Enter(i, c) ==
    /\ prober[i].pc # "off"
    /\ call[i][c] = "none"
    /\ gate[i]
    /\ call' = [call EXCEPT ![i][c] = "inside"]
    /\ UNCHANGED <<tables, gate, permit, prober, late>>

(* It is served, or meets an error that is an infrastructure failure.  One  *)
(* of the middleware or of a login is going to be reported; a handler's own *)
(* error is only answered.                                                  *)
UseDatabase(i, c) ==
    /\ call[i][c] = "inside"
    /\ \E met \in {"none"} \cup (IF Ready THEN {} ELSE {"error"}) :
           call' = [call EXCEPT ![i][c] = met]
    /\ UNCHANGED <<tables, gate, permit, prober, late>>

(* handle_db_error, perhaps long after the error was raised.                *)
Report(i, c) ==
    /\ call[i][c] = "error"
    /\ call' = [call EXCEPT ![i][c] = "none"]
    /\ gate' = [gate EXCEPT ![i] = FALSE]
    /\ late' = [late EXCEPT ![i] = TRUE]
    /\ Wake(i)
    /\ UNCHANGED <<tables, prober>>

Probe(i) ==
    \/ Acquire(i) \/ AcquireFails(i) \/ CreateTable(i) \/ Migrated(i)
    \/ Look(i) \/ Verify(i) \/ MarkHealthy(i) \/ FindUnavailable(i)

HealthNext ==
    \E i \in Instances :
        \/ Probe(i) \/ SleepOver(i) \/ Woken(i)
        \/ \E c \in Callers : Enter(i, c) \/ UseDatabase(i, c) \/ Report(i, c)

(* The task is scheduled, its timers expire, and handlers that met an error *)
(* return it.                                                               *)
HealthFairness ==
    \A i \in Instances :
        /\ WF_healthVars(Probe(i))
        /\ WF_healthVars(SleepOver(i) \/ Woken(i))
        /\ \A c \in Callers : WF_healthVars(UseDatabase(i, c)) /\ WF_healthVars(Report(i, c))

-----------------------------------------------------------------------------
(* Properties.                                                              *)

(* The prober never sleeps for its whole interval on a report that its last *)
(* look may have missed: it opened the gate over it, but is woken at once   *)
(* (Notify keeps the permit of mark_unavailable).                           *)
NoReportSleptOn ==
    \A i \in Instances : prober[i].pc = "asleep" /\ late[i] => permit[i]

(* The gate ends up as the database does: open in every process once the    *)
(* database stays up with its tables, closed once it stays away, with or    *)
(* without requests that meet it (run_db_prober).                           *)
GateFollowsDatabase ==
    /\ (<>[]Ready) => <>[](\A i \in Instances : prober[i].pc # "off" => gate[i])
    /\ (<>[]~db) => <>[](\A i \in Instances : prober[i].pc # "off" => ~gate[i])

(* The same, of a database that had no tables yet: one that is down at boot *)
(* is migrated on recovery, and no restart is needed (src/bin/eks.rs).      *)
MigratedOnRecovery ==
    (<>[]db) => <>[](\A i \in Instances : prober[i].pc # "off" => gate[i])
=============================================================================
