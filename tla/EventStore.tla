----------------------------- MODULE EventStore -----------------------------
(***************************************************************************)
(* The event store of src/store/ on PostgreSQL, for one (stream, election) *)
(* pair that several instances of the application, and several requests   *)
(* within one instance, read and write at the same time.                   *)
(*                                                                         *)
(* A store is one Store<D> object: a projection behind a lock, shared by   *)
(* the requests of one process (store_handle.rs).  A request loads the     *)
(* store (catch_up), keeps the position it has seen (PgStore), decides on  *)
(* a snapshot and appends (update_in_database).  The streams row is the    *)
(* lock that serialises transactions; the projection is read before that   *)
(* lock is taken and written after it is released.                         *)
(*                                                                         *)
(* Processes of different builds share the database: an event kind that a  *)
(* build cannot decode truncates its replay.                               *)
(***************************************************************************)
EXTENDS Naturals, Sequences, FiniteSets

CONSTANTS Stores,      \* the Store objects, of all processes
          Requests,    \* the requests; each is served once
          Kinds,       \* event kinds, as far as decoding tells them apart
          Host,        \* Host[r]: the store that serves request r
          Uses,        \* Uses[r]: the ways request r may write
          Reads,       \* Reads[s]: the kinds the build of store s can decode
          Attempts,    \* UPDATE_WHEN_ATTEMPTS
          MaxWrites,   \* bound: MaxWrites[r] events are appended by request r
          NoRequest

ASSUME HostAssumption == Host \in [Requests -> Stores]
ASSUME ReadsAssumption == Reads \in [Stores -> SUBSET Kinds]
ASSUME UsesAssumption == Uses \in [Requests -> SUBSET {"own", "csb", "when"}]
ASSUME KindsAssumption == Kinds # {}
ASSUME AttemptsAssumption == Attempts \in Nat \ {0}
ASSUME MaxWritesAssumption == MaxWrites \in [Requests -> Nat]
ASSUME NoRequestAssumption == NoRequest \notin Requests

VARIABLES
    rows,      \* the events table: what is committed, in order
    lock,      \* the request whose transaction holds the streams row
    proj,      \* proj[s]: the events applied to the projection of store s
    cached,    \* the stores that finished their first load (registry entries)
    req        \* req[r]: where request r is, and its local variables

vars == <<rows, lock, proj, cached, req>>

Log == INSTANCE EventLog WITH log <- rows, view <- proj

LastId(data) == Log!LastId(data)
LastHash(data) == Log!LastHash(data)
ChainHash(prev, id, kind, by) == Log!ChainHash(prev, id, kind, by)

-----------------------------------------------------------------------------
(* The local state of a request.                                            *)

PCs == {"idle",        \* not arrived yet
        "begin",       \* about to call catch_up
        "queued",      \* waits for the streams row (SELECT ... FOR UPDATE)
        "locked",      \* holds the row and has selected the missing events
        "caught",      \* has replayed them, transaction still open
        "loaded",      \* load returned, PgStore::own not built yet
        "handle",      \* in the handler, free to read and to decide
        "committed",   \* the event is persisted but not applied
        "done"}
Transaction == {"locked", "caught"}
Results == {"none", "ok", "declined", "gaveup", "conflict", "error", "crashed"}

(* Replay: the stored last id, the chain tip, and truncated_at (0: None).   *)
Replays == [last : Nat, tip : Log!Hashes, gap : Nat]
NoReplay == [last |-> 0, tip |-> Log!GenesisHash, gap |-> 0]

ReqRecords ==
    [pc : PCs,
     op : Log!Ops,               \* how the request writes
     task : {"load", "append"},  \* what its transaction is for
     kind : Kinds,               \* the kind of the event it appends
     from : Nat,                 \* last_id, read before the row lock
     replay : Replays,           \* what catch_up returned
     seen : Nat,                 \* PgStore::seen_event_id
     basis : Nat,                \* the snapshot the request decided on
     tries : Nat,                \* attempts update_when has left
     wrote : Nat,                \* appends that were reported successful
     result : Results]           \* what the caller was told

NewRequest ==
    [pc |-> "idle", op |-> "csb", task |-> "load",
     kind |-> CHOOSE k \in Kinds : TRUE, from |-> 0, replay |-> NoReplay,
     seen |-> 0, basis |-> 0, tries |-> 0, wrote |-> 0, result |-> "none"]

Store(r) == Host[r]
Position(r) == LastId(proj[Host[r]])
Live(r) == req[r].pc \notin {"idle", "done"}

(* A call returned: its local variables are gone.                           *)
Returned(r) == [req[r] EXCEPT !.task = "load", !.from = 0, !.replay = NoReplay,
                              !.basis = 0, !.kind = NewRequest.kind]
(* The request is answered.                                                 *)
Answered(r, answer) == [NewRequest EXCEPT !.pc = "done", !.result = answer,
                                          !.wrote = req[r].wrote]

Becomes(r, x) == req' = [req EXCEPT ![r] = x]

Init ==
    /\ rows = << >>
    /\ lock = NoRequest
    /\ proj = [s \in Stores |-> << >>]
    /\ cached = {}
    /\ req = [r \in Requests |-> NewRequest]

-----------------------------------------------------------------------------
(* A request arrives.  store_middleware loads the stream of a political     *)
(* group on every request; a CSB stream is loaded only by the lookup that   *)
(* puts its store in the registry, and served as it is after that.          *)
Arrive(r, o) ==
    /\ req[r].pc = "idle"
    /\ o \in Uses[r]
    /\ Becomes(r, [req[r] EXCEPT !.op = o,
                                 !.pc = IF o # "own" /\ Store(r) \in cached
                                        THEN "handle" ELSE "begin",
                                 !.tries = Attempts])
    /\ UNCHANGED <<rows, lock, proj, cached>>

(* catch_up, first statement: the projection's position is read before the  *)
(* row lock is asked for.                                                   *)
ReadPosition(r) ==
    /\ req[r].pc = "begin"
    /\ Becomes(r, [req[r] EXCEPT !.pc = "queued", !.from = Position(r)])
    /\ UNCHANGED <<rows, lock, proj, cached>>

(* Mutant: the row is read without FOR UPDATE.                              *)
LockStreamShared(r) ==
    /\ req[r].pc = "queued"
    /\ lock' = r
    /\ Becomes(r, [req[r] EXCEPT !.pc = "locked"])
    /\ UNCHANGED <<rows, proj, cached>>

(* SELECT last_event_id ... FOR UPDATE returns, and the missing events are  *)
(* selected; the rows cannot change while the transaction is open.          *)
LockStream(r) ==
    /\ req[r].pc = "queued"
    /\ lock = NoRequest
    /\ lock' = r
    /\ Becomes(r, [req[r] EXCEPT !.pc = "locked"])
    /\ UNCHANGED <<rows, proj, cached>>

(* apply_encrypted_events, on the stored events after position `start' and  *)
(* the projection `data' of a build that can decode the kinds `readable'.   *)
(* The pass skips what the projection already holds.                        *)
SkippedTo(start, data) == IF start > LastId(data) THEN start ELSE LastId(data)
Missing(start, data) == SkippedTo(start, data) + 1 .. Len(rows)

(* `end' is the last event that is applied: everything up to it can be      *)
(* decoded, and it is the last one or the next one cannot.                  *)
StopsAt(end, start, data, readable) ==
    /\ \A n \in Missing(start, data) : n <= end => rows[n].kind \in readable
    /\ end < Len(rows) => rows[end + 1].kind \notin readable
TruncatedAt(end) == IF end = Len(rows) THEN 0 ELSE end + 1

(* The associated data of event n holds the hash of event n - 1, which its  *)
(* reader takes from the projection or from the event it read just before.  *)
AadMatches(n, start, data) ==
    LET prev == IF n - 1 \in Missing(start, data) THEN rows[n - 1].hash
                ELSE LastHash(data)
    IN  rows[n].hash = ChainHash(prev, rows[n].id, rows[n].kind, rows[n].by)
Unreadable(start, data, readable) ==
    \E n \in Missing(start, data) :
        /\ ~AadMatches(n, start, data)
        /\ \A m \in Missing(start, data) : m < n => rows[m].kind \in readable

(* The events are applied in order, each one a copy of the stored one.      *)
ApplyMissing(end, start, data) ==
    data \o SubSeq(rows, SkippedTo(start, data) + 1, end)

(* The hash of the last stored event the pass was handed.                   *)
ChainTip(start, data) ==
    IF Len(rows) > start THEN rows[Len(rows)].hash ELSE LastHash(data)

(* catch_up, under the projection's write lock: replay what is missing.     *)
CatchUp(r) ==
    LET s == Store(r)
        start == req[r].from
        data == proj[s]
    IN  /\ req[r].pc = "locked"
        /\ ~Unreadable(start, data, Reads[s])
        /\ \E end \in SkippedTo(start, data) .. Len(rows) :
              /\ StopsAt(end, start, data, Reads[s])
              /\ proj' = [proj EXCEPT ![s] = ApplyMissing(end, start, data)]
              /\ Becomes(r, [req[r] EXCEPT
                               !.pc = "caught",
                               !.replay = [last |-> Len(rows),
                                           tip |-> ChainTip(start, data),
                                           gap |-> TruncatedAt(end)]])
        /\ UNCHANGED <<rows, lock, cached>>

(* Mutant: the transaction of a load stays open.                            *)
EndLoadKeepsLock(r) ==
    /\ req[r].pc = "caught"
    /\ req[r].task = "load"
    /\ lock' = lock
    /\ cached' = cached \cup {Store(r)}
    /\ Becomes(r, [Returned(r) EXCEPT !.pc = IF req[r].op = "own" THEN "loaded"
                                             ELSE "handle"])
    /\ UNCHANGED <<rows, proj>>

(* load_from_database returns; dropping the transaction frees the row.      *)
EndLoad(r) ==
    /\ req[r].pc = "caught"
    /\ req[r].task = "load"
    /\ lock' = NoRequest
    /\ cached' = cached \cup {Store(r)}
    /\ Becomes(r, [Returned(r) EXCEPT !.pc = IF req[r].op = "own" THEN "loaded"
                                             ELSE "handle"])
    /\ UNCHANGED <<rows, proj>>

(* PgStore::own: the handle remembers the position of the projection, which *)
(* other requests of the process may have moved since the load.             *)
OpenHandle(r) ==
    /\ req[r].pc = "loaded"
    /\ Becomes(r, [req[r] EXCEPT !.pc = "handle", !.seen = Position(r)])
    /\ UNCHANGED <<rows, lock, proj, cached>>

(* The handler takes a snapshot, decides on it, and calls update,           *)
(* update_if_unchanged or (inside update_when) append.                      *)
Decide(r, k) ==
    /\ req[r].pc = "handle"
    /\ req[r].wrote < MaxWrites[r]
    /\ k \in Reads[Store(r)]
    /\ Becomes(r, [req[r] EXCEPT !.pc = "begin", !.task = "append",
                                 !.kind = k, !.basis = Position(r)])
    /\ UNCHANGED <<rows, lock, proj, cached>>

(* The handler returns without (another) write; update_when's closure       *)
(* declines.                                                                *)
Finish(r) ==
    /\ req[r].pc = "handle"
    /\ Becomes(r, Answered(r, IF req[r].op = "when" THEN "declined" ELSE "ok"))
    /\ UNCHANGED <<rows, lock, proj, cached>>

-----------------------------------------------------------------------------
(* update_in_database after catch_up.                                       *)

(* Mutant: the append expects whatever the projection is at by now.         *)
ExpectedLatest(r) == Position(r)

(* expected_last_id: what check_expected_event_id compares the stored last  *)
(* id with, unless the append is unconditional.                             *)
Expected(r) == IF req[r].op = "own" THEN req[r].seen ELSE req[r].basis
ExpectedMatches(r) ==
    req[r].op \in Log!ConditionalOps => Expected(r) = req[r].replay.last

Appending(r) == req[r].pc = "caught" /\ req[r].task = "append"

(* Replay::reject_append: this build cannot read the whole stream.          *)
RejectAppend(r) ==
    /\ Appending(r)
    /\ req[r].replay.gap # 0
    /\ lock' = NoRequest
    /\ Becomes(r, Answered(r, "error"))
    /\ UNCHANGED <<rows, proj, cached>>

(* AppError::Conflict: the stream moved.  update_when decides again, up to  *)
(* Attempts times; a PgStore handle reports it.                             *)
Conflict(r) ==
    /\ Appending(r)
    /\ req[r].replay.gap = 0
    /\ ~ExpectedMatches(r)
    /\ lock' = NoRequest
    /\ \/ /\ req[r].op = "own"
          /\ Becomes(r, Answered(r, "conflict"))
       \/ /\ req[r].op = "when"
          /\ req[r].tries > 1
          /\ Becomes(r, [Returned(r) EXCEPT !.pc = "handle",
                                            !.tries = @ - 1])
       \/ /\ req[r].op = "when"
          /\ req[r].tries <= 1
          /\ Becomes(r, Answered(r, "gaveup"))
    /\ UNCHANGED <<rows, proj, cached>>

(* insert_event: the row that chains onto the tip the replay returned.      *)
InsertedEvent(r) ==
    LET id == req[r].replay.last + 1
    IN  [id |-> id, kind |-> req[r].kind, by |-> r,
         hash |-> ChainHash(req[r].replay.tip, id, req[r].kind, r),
         op |-> req[r].op, basis |-> req[r].basis]

(* Mutant: reject_append is not called.                                     *)
CommitPastGap(r) ==
    /\ Appending(r)
    /\ ExpectedMatches(r)
    /\ rows' = Append(rows, InsertedEvent(r))
    /\ lock' = NoRequest
    /\ Becomes(r, [req[r] EXCEPT !.pc = "committed"])
    /\ UNCHANGED <<proj, cached>>

(* Mutant: a broken connection on COMMIT is taken for a refusal and retried. *)
CommitRetried(r) ==
    /\ Appending(r)
    /\ req[r].replay.gap = 0
    /\ ExpectedMatches(r)
    /\ rows' = Append(rows, InsertedEvent(r))
    /\ lock' = NoRequest
    /\ \/ Becomes(r, [req[r] EXCEPT !.pc = "committed"])
       \/ Becomes(r, [Returned(r) EXCEPT !.pc = "handle"])
    /\ UNCHANGED <<proj, cached>>

(* The transaction inserts and commits, which frees the row.  The client    *)
(* learns of it, or its connection breaks on COMMIT (or the handler's       *)
(* future is dropped there) and it reports an error.                        *)
Commit(r) ==
    /\ Appending(r)
    /\ req[r].replay.gap = 0
    /\ ExpectedMatches(r)
    /\ rows' = Append(rows, InsertedEvent(r))
    /\ lock' = NoRequest
    /\ \/ Becomes(r, [req[r] EXCEPT !.pc = "committed"])
       \/ Becomes(r, Answered(r, "error"))
    /\ UNCHANGED <<proj, cached>>

(* Mutant: the persisted event is applied whatever the projection holds.    *)
ApplyUnguarded(r) ==
    /\ req[r].pc = "committed"
    /\ proj' = [proj EXCEPT ![Store(r)] = Append(@, InsertedEvent(r))]
    /\ Becomes(r, [Returned(r) EXCEPT !.pc = "handle", !.wrote = @ + 1,
                                      !.seen = @ + 1])
    /\ UNCHANGED <<rows, lock, cached>>

(* apply_persisted_event, after the commit and without the row lock: a      *)
(* no-op when the projection is already there.  The PgStore handle moves on *)
(* to the event it wrote; update_when reports success.                      *)
ApplyPersisted(r) ==
    LET s == Store(r)
        id == req[r].replay.last + 1
    IN  /\ req[r].pc = "committed"
        /\ proj' = IF LastId(proj[s]) >= id THEN proj
                   ELSE [proj EXCEPT ![s] = Append(@, InsertedEvent(r))]
        /\ Becomes(r, IF req[r].op = "when"
              THEN [Answered(r, "ok") EXCEPT !.wrote = @ + 1]
              ELSE [Returned(r) EXCEPT
                      !.pc = "handle",
                      !.wrote = @ + 1,
                      !.seen = IF req[r].op = "own" THEN @ + 1 ELSE @])
        /\ UNCHANGED <<rows, lock, cached>>

(* The database fails a statement, a stored payload does not decrypt, or    *)
(* the client goes away and the future is dropped: the transaction, if      *)
(* there is one, rolls back.                                                *)
Fail(r) ==
    /\ req[r].pc \in {"begin", "queued", "locked", "caught"}
    /\ lock' = IF lock = r THEN NoRequest ELSE lock
    /\ Becomes(r, Answered(r, "error"))
    /\ UNCHANGED <<rows, proj, cached>>

(* The process of a store dies: its requests with it, open transactions     *)
(* roll back, the projection is gone.                                       *)
Crash(s) ==
    /\ proj' = [proj EXCEPT ![s] = << >>]
    /\ cached' = cached \ {s}
    /\ lock' = IF lock \in Requests /\ Store(lock) = s THEN NoRequest ELSE lock
    /\ req' = [r \in Requests |->
                  IF Store(r) = s /\ Live(r)
                  THEN Answered(r, "crashed")
                  ELSE req[r]]
    /\ UNCHANGED rows

-----------------------------------------------------------------------------
Step(r) ==
    \/ ReadPosition(r) \/ LockStream(r) \/ CatchUp(r)
    \/ EndLoad(r) \/ OpenHandle(r) \/ \E k \in Kinds : Decide(r, k)
    \/ Finish(r) \/ RejectAppend(r) \/ Conflict(r) \/ Commit(r)
    \/ ApplyPersisted(r)

Next ==
    \/ \E r \in Requests : \E o \in Log!Ops : Arrive(r, o)
    \/ \E r \in Requests : Step(r)
    \/ \E r \in Requests : Fail(r)
    \/ \E s \in Stores : Crash(s)

Spec == Init /\ [][Next]_vars

(* The runtime keeps polling a request, and PostgreSQL grants a row lock to *)
(* a waiting transaction in turn, however many others keep asking for it.   *)
Fairness == \A r \in Requests :
                /\ WF_vars(Step(r))
                /\ SF_vars(LockStream(r))

FairSpec == Spec /\ Fairness

-----------------------------------------------------------------------------
(* Types.                                                                   *)
TypeOK ==
    /\ rows \in Seq(Log!Events)
    /\ lock \in Requests \cup {NoRequest}
    /\ proj \in [Stores -> Seq(Log!Events)]
    /\ cached \in SUBSET Stores
    /\ req \in [Requests -> ReqRecords]

(* A projection holds exactly the first events of the table, in order: the  *)
(* position read before the row lock, the events applied after it by other  *)
(* requests of the process, and the apply after the commit never leave a    *)
(* hole, a duplicate or a foreign event (catch_up, apply_event).            *)
ProjectionIsPrefix == \A s \in Stores : Log!Prefix(proj[s], rows)

(* Whatever a request finds when it has the row lock decrypts: every writer *)
(* used the true hash of the preceding event as associated data, and every  *)
(* reader derives the same one (event_aad, Replay::chain_tip).              *)
NeverUnreadable ==
    \A r \in Requests :
        req[r].pc = "locked"
            => ~Unreadable(req[r].from, proj[Store(r)], Reads[Store(r)])

(* An event written through a PgStore handle or through update_when was     *)
(* decided on exactly the events before it, although a handle compares with *)
(* seen_event_id and not with the snapshot its handler used.                *)
DecidedOnPredecessor ==
    \A n \in 1 .. Len(rows) :
        rows[n].op \in Log!ConditionalOps => rows[n].basis = n - 1

(* No build appends after an event it cannot decode (Replay::reject_append): *)
(* such an event would disappear from its own projection on the next load.  *)
NoAppendPastGap ==
    \A n \in 1 .. Len(rows) : \A m \in 1 .. n :
        rows[m].kind \in Reads[Store(rows[n].by)]

-----------------------------------------------------------------------------
(* The inductive invariant behind ProjectionIsPrefix, NeverUnreadable,      *)
(* DecidedOnPredecessor and NoAppendPastGap.                                *)

(* The stored events are numbered and hash-chained.                         *)
HashBefore(n) == IF n = 1 THEN Log!GenesisHash ELSE rows[n - 1].hash
ChainIntact ==
    \A n \in 1 .. Len(rows) :
        /\ rows[n].id = n
        /\ rows[n].hash = ChainHash(HashBefore(n), n, rows[n].kind, rows[n].by)

(* Open transactions are the holders of the streams row.                    *)
LockHeld == \A r \in Requests : req[r].pc \in {"locked", "caught"} <=> lock = r

(* A projection holds only what its build can decode.                       *)
ProjectionReadable ==
    \A s \in Stores : \A n \in 1 .. Len(proj[s]) : rows[n].kind \in Reads[s]

(* The position read before the row lock is never ahead of the projection.  *)
FromBehind ==
    \A r \in Requests :
        req[r].pc \in {"queued", "locked"} => req[r].from <= Len(proj[Store(r)])

(* What catch_up returned stays true until the transaction ends.            *)
ReplayCurrent ==
    \A r \in Requests : req[r].pc = "caught" =>
        /\ req[r].replay.last = Len(rows)
        /\ req[r].replay.tip = LastHash(rows)
        /\ req[r].replay.gap = 0 => Len(proj[Store(r)]) = Len(rows)

(* A committed event is in the table, and only it may be missing from the   *)
(* projection of its writer.                                                *)
CommittedStored ==
    \A r \in Requests : req[r].pc = "committed" =>
        /\ req[r].replay.last + 1 <= Len(rows)
        /\ rows[req[r].replay.last + 1] = InsertedEvent(r)
        /\ req[r].replay.last <= Len(proj[Store(r)])

(* A handle has seen no more than the snapshot its handler decided on, and  *)
(* that no more than the projection holds.                                  *)
Writing(r) == req[r].task = "append"
                  /\ req[r].pc \in {"begin", "queued", "locked", "caught", "committed"}
DecisionsBehind ==
    \A r \in Requests :
        /\ req[r].op = "own" /\ (req[r].pc = "handle" \/ Writing(r))
              => req[r].seen <= Len(proj[Store(r)])
        /\ Writing(r) => /\ req[r].basis <= Len(proj[Store(r)])
                         /\ req[r].kind \in Reads[Store(r)]
        /\ Writing(r) /\ req[r].op = "own" => req[r].seen <= req[r].basis
        /\ req[r].pc = "committed" => /\ Writing(r)
                                      /\ req[r].op = "own" => req[r].seen = req[r].replay.last

(* A request starts with a load.                                            *)
StartsWithLoad == \A r \in Requests : req[r].pc = "idle" => req[r].task = "load"

IInv ==
    /\ TypeOK
    /\ StartsWithLoad
    /\ ChainIntact
    /\ ProjectionIsPrefix
    /\ LockHeld
    /\ ProjectionReadable
    /\ FromBehind
    /\ ReplayCurrent
    /\ CommittedStored
    /\ DecisionsBehind
    /\ DecidedOnPredecessor
    /\ NoAppendPastGap

-----------------------------------------------------------------------------
(* What the caller is told is true: a request that was refused or declined  *)
(* left no event, one that succeeded left each event once, and one that got *)
(* an error left at most one event it does not know of (update_when's       *)
(* retries, the window between COMMIT and its answer).                      *)
WrittenBy(r) == {n \in 1 .. Len(rows) : rows[n].by = r}
AnswersAreTrue ==
    \A r \in Requests :
        LET n == Cardinality(WrittenBy(r))
            unknown == req[r].pc = "committed" \/ req[r].result \in {"error", "crashed"}
        IN  n = req[r].wrote \/ (unknown /\ n = req[r].wrote + 1)

(* The database protocol implements the append-only log.                    *)
ImplementsEventLog == Log!Spec

(* Every request that arrives is answered: no wait for the streams row is   *)
(* for ever, and update_when does not retry for ever.                       *)
RequestsEnd == \A r \in Requests : Live(r) ~> req[r].pc = "done"
=============================================================================
