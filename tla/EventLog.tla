------------------------------ MODULE EventLog ------------------------------
(***************************************************************************)
(* What the event store promises for one (stream, election) pair: a single *)
(* append-only, hash-chained log of events, and in every store handle of   *)
(* every running instance a view that is a prefix of that log.  An entry   *)
(* that was written conditionally was decided on exactly the entries that  *)
(* precede it.  EventStore, the database protocol of src/store/, is shown  *)
(* to implement this specification.                                        *)
(***************************************************************************)
EXTENDS Naturals, Sequences

CONSTANTS Stores,      \* the in-memory projections of the stream
          Requests,    \* the writers
          Kinds        \* what a payload is, as far as decoding tells apart

VARIABLES log,         \* the persisted events, in order
          view         \* per store, the events applied to its projection

vars == <<log, view>>

(* How the handlers of src/ write: through a PgStore handle ("own"), an     *)
(* unconditional update ("csb") or update_when ("when").                    *)
Ops == {"own", "csb", "when"}
ConditionalOps == {"own", "when"}

(* What the hash of an event commits to besides its predecessor.            *)
Contents == [id : Nat, kind : Kinds, by : Requests]
Hashes == Seq(Contents)
GenesisHash == << >>

(* A collision-free hash is the history it commits to.                      *)
ChainHash(prev, id, kind, by) == Append(prev, [id |-> id, kind |-> kind, by |-> by])

(* A persisted event; op and basis record how and on which prefix of the    *)
(* log its writer decided, and are not stored by the program.               *)
Events == [id : Nat, kind : Kinds, by : Requests, hash : Hashes,
           op : Ops, basis : Nat]

LastId(data) == IF data = << >> THEN 0 ELSE data[Len(data)].id
LastHash(data) == IF data = << >> THEN GenesisHash ELSE data[Len(data)].hash

Prefix(data, whole) == /\ Len(data) <= Len(whole)
                       /\ \A n \in 1 .. Len(data) : data[n] = whole[n]

-----------------------------------------------------------------------------
Init == /\ log = << >>
        /\ view = [s \in Stores |-> << >>]

(* The event by appends to data, decided on its first `basis' events.       *)
NewEvent(data, kind, by, op, basis) ==
    [id |-> Len(data) + 1, kind |-> kind, by |-> by,
     hash |-> ChainHash(LastHash(data), Len(data) + 1, kind, by),
     op |-> op, basis |-> basis]

(* One event is appended: it chains onto the last one, and if it was        *)
(* written conditionally its writer had seen the whole log.                 *)
AppendEvent ==
    \E kind \in Kinds, by \in Requests, op \in Ops, basis \in 0 .. Len(log) :
        /\ op \in ConditionalOps => basis = Len(log)
        /\ log' = Append(log, NewEvent(log, kind, by, op, basis))
        /\ view' = view

(* A store replays more of the log: its view grows and stays a prefix.      *)
Observe ==
    \E s \in Stores, n \in 0 .. Len(log) :
        /\ n >= Len(view[s])
        /\ view' = [view EXCEPT ![s] = SubSeq(log, 1, n)]
        /\ log' = log

(* A process stops: its projections are gone, the log is not.               *)
Forget ==
    \E s \in Stores :
        /\ view' = [view EXCEPT ![s] = << >>]
        /\ log' = log

Next == AppendEvent \/ Observe \/ Forget

Spec == Init /\ [][Next]_vars
=============================================================================
