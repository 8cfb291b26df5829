--------------------------- MODULE StoreRegistry ---------------------------
(***************************************************************************)
(* The registries of src/store/registry.rs and the requests that take      *)
(* their stores from them.  Every process keeps, for each scope, a map of  *)
(* streams to one shared Store; a miss builds a store from the database in *)
(* several steps, and the first one built is the one kept.                 *)
(*                                                                         *)
(* A political group's request loads its store again and writes under the  *)
(* limits of src/core/rate_limit.rs.  A committee member's request works   *)
(* on the projection as it is cached.  An import reads a group's stream    *)
(* and writes a fresh stream, for the examination or for the check that    *)
(* precedes the submission.                                                *)
(*                                                                         *)
(* EventStore models how a Store appends and loads; here both are single   *)
(* steps, as the EventLog it implements allows, and a projection is the    *)
(* number of events applied to it.  There is one election, and one clock.  *)
(***************************************************************************)
EXTENDS Naturals, Sequences, FiniteSets

CONSTANTS Instances,     \* the processes
          Requests,      \* each is served once
          Scenes,        \* what each request is, where, and what happened before
          PgStreams,     \* the streams of political groups
          CsbStreams,    \* ids that StreamId::new() can return
          EventsTotal,   \* RateLimits::events_total
          MaxEvents,     \* RateLimits::events.max
          MaxDownloads,  \* RateLimits::downloads.max
          Window,        \* the length of both sliding windows
          MaxTime,       \* bound: the last moment of the clock
          MaxWrites,     \* bound: the events one request records
          None

Streams == PgStreams \cup CsbStreams
Registries == {"pg", "csb", "pre"}
Ops == {"visit", "login", "logout", "examine", "paper", "import", "create", "overview"}
Scopes == {"PoliticalGroup", "ImportedByCsb", "PreSubmittedToCsb"}
Phases == {"serve", "scan", "source", "target"}

ASSUME StreamsAssumption ==
    /\ PgStreams \cap CsbStreams = {}
    /\ None \notin Streams \cup Requests \cup (Requests \X Registries \X Streams)
    /\ None \notin Registries \cup Scopes \cup Phases \cup Ops
ASSUME LimitsAssumption == {EventsTotal, MaxEvents, MaxDownloads, Window} \subseteq Nat
ASSUME BoundsAssumption == {MaxTime, MaxWrites} \subseteq Nat
ASSUME ScenesAssumption ==
    \A x \in Scenes : /\ x.ops \in [Requests -> SUBSET Ops]
                       /\ x.host \in [Requests -> Instances]
                       /\ x.past \in [Streams -> Nat]
                       /\ x.start \in Nat
(* A group's past kept to the limits, all of it at one moment.              *)
ASSUME PastAssumption ==
    \A x \in Scenes : \A s \in PgStreams :
        /\ EventsTotal > 0 => x.past[s] <= EventsTotal
        /\ MaxEvents > 0 => x.past[s] <= MaxEvents

VARIABLES
    rows,      \* rows[s]: the row of stream s, and its events
    cache,     \* cache[i][g][s]: the store that registry g of process i keeps
    objs,      \* objs[o]: the Store objects, cached or still held by a request
    req,       \* req[r]: where request r is, and its local variables
    now,       \* the clock of the processes and of created_at
    told       \* history: told[i][s]: the events a caller in i knows to be recorded

vars == <<rows, cache, objs, req, now, told>>

-----------------------------------------------------------------------------
(* The scope that a registry records on the rows it creates and lists by.   *)
ScopeOf(g) == CASE g = "pg"  -> "PoliticalGroup"
                [] g = "csb" -> "ImportedByCsb"
                [] g = "pre" -> "PreSubmittedToCsb"

NoRow == [scope |-> None, key |-> None, log |-> << >>]

(* An event: its kind, created_at, and the source that an import names.     *)
Event(k, src, upto) == [kind |-> k, at |-> now, src |-> src, upto |-> upto]

(* A store object is named by the request that built it, and for what.      *)
Object(r) == <<r, req[r].reg, req[r].stream>>

NewRequest(host, ops) ==
    [pc |-> "idle", host |-> host, ops |-> ops, op |-> None, phase |-> None, reg |-> None,
     stream |-> None, obj |-> None, expected |-> 0, kind |-> None, wrote |-> 0,
     todo |-> {}, src |-> None, upto |-> 0, into |-> None, sure |-> FALSE,
     before |-> {}, floor |-> {}, answer |-> None]

Step(r, x) == req' = [req EXCEPT ![r] = x]
Answer(r, a) ==
    Step(r, [NewRequest(req[r].host, {}) EXCEPT
               !.pc = "done", !.op = req[r].op, !.stream = req[r].stream, !.sure = req[r].sure,
               !.before = req[r].before, !.wrote = req[r].wrote, !.answer = a])

(* A store lives as long as a registry or a request holds it.               *)
Held == {req[r].obj : r \in Requests}
          \cup {cache[i][g][s] : i \in Instances, g \in Registries, s \in Streams}
Stores(new) == objs' = [o \in DOMAIN new \cap Held' |-> new[o]]

Log(s) == rows[s].log
Seen(o) == SubSeq(Log(o[3]), 1, objs[o].seen)
Deleted(log) == \E n \in 1..Len(log) : log[n].kind = "delete"

(* A stream with n events of before: of a group, or one made empty.          *)
Row(s, n) ==
    [scope |-> IF s \in PgStreams THEN "PoliticalGroup" ELSE "ImportedByCsb", key |-> s,
     log |-> [k \in 1..n |-> [kind |-> IF s \in PgStreams THEN "login" ELSE "create",
                              at |-> 0, src |-> None, upto |-> 0]]]

Init ==
    \E x \in Scenes :
    /\ now = x.start
    /\ rows = [s \in Streams |-> IF x.past[s] = 0 THEN NoRow ELSE Row(s, x.past[s])]
    /\ cache = [i \in Instances |-> [g \in Registries |-> [s \in Streams |-> None]]]
    /\ objs = << >>
    /\ req = [r \in Requests |-> NewRequest(x.host[r], x.ops[r])]
    /\ told = [i \in Instances |-> [s \in Streams |-> 0]]

-----------------------------------------------------------------------------
(* What the database is asked.                                              *)

(* Streams of the registry's scope that have persisted events.              *)
StreamsByScope(g) == {s \in Streams : rows[s].scope = ScopeOf(g) /\ Len(Log(s)) > 0}

(* The streams of groups that have data, cached or persisted.               *)
ElectionsForStream(i) ==
    {s \in PgStreams : \/ /\ cache[i]["pg"][s] # None
                          /\ objs[cache[i]["pg"][s]].seen > 0
                       \/ Len(Log(s)) > 0}

(* Mutant: the key that was generated here is used, whatever is stored.     *)
EnsureStreamKeepsNew(r) ==
    /\ rows' = [rows EXCEPT ![req[r].stream] =
                  IF @ # NoRow THEN @
                  ELSE [scope |-> ScopeOf(req[r].reg), key |-> r, log |-> << >>]]
    /\ objs' = [o \in DOMAIN objs \cup {Object(r)} |->
                  IF o = Object(r) THEN [key |-> r, seen |-> 0] ELSE objs[o]]

(* ensure_stream: the first one to ask creates the row, with its scope and  *)
(* a key of its own; everyone unwraps the key that is stored.               *)
EnsureStream(r) ==
    /\ rows' = [rows EXCEPT ![req[r].stream] =
                  IF @ # NoRow THEN @
                  ELSE [scope |-> ScopeOf(req[r].reg), key |-> r, log |-> << >>]]
    /\ objs' = [o \in DOMAIN objs \cup {Object(r)} |->
                  IF o = Object(r) THEN [key |-> rows'[req[r].stream].key, seen |-> 0]
                  ELSE objs[o]]

-----------------------------------------------------------------------------
(* Requests arrive.                                                         *)

(* What the caller may count on in stream s: all that anyone was told, for  *)
(* a store that is loaded again, else what was told in the same process.    *)
Floor(i, g, s) == {told[j][s] : j \in IF g = "pg" THEN Instances ELSE {i}}

Arrived(r, op, x) ==
    /\ req[r].pc = "idle"
    /\ op \in req[r].ops
    /\ Step(r, [x EXCEPT !.op = op])
    /\ UNCHANGED <<rows, cache, objs, now, told>>

Serve(r, op, g, s) ==
    Arrived(r, op, [req[r] EXCEPT !.pc = "lookup", !.phase = "serve", !.reg = g,
                                  !.stream = s, !.floor = Floor(req[r].host, g, s)])

(* store_middleware resolves the store of a group's session; login_election *)
(* that of the pinned election or of one with data; record_logout that of   *)
(* the session that ends.                                                   *)
Visit(r, s) == Serve(r, "visit", "pg", s)
Login(r, s, pinned) ==
    (pinned \/ s \in ElectionsForStream(req[r].host)) /\ Serve(r, "login", "pg", s)
Logout(r, s) == Serve(r, "logout", "pg", s)

(* The extractors of the examination and of the pre-submission check, and   *)
(* the middleware of a session that corrects papers: the stream is named by *)
(* the path, or by the session.                                             *)
Examine(r, g, s) == Serve(r, "examine", g, s)
CorrectPapers(r, s) == Serve(r, "paper", "csb", s)

(* do_import: the hash entered names an event of a group's stream.  Unless  *)
(* the warning for it was confirmed, all imported streams are looked at.    *)
Import(r, g, s, id, sure) ==
    /\ id \in 1..Len(Log(s))
    /\ Arrived(r, "import",
               [req[r] EXCEPT
                  !.pc = IF sure THEN "lookup" ELSE "scan",
                  !.phase = IF sure THEN "source" ELSE "scan",
                  !.reg = IF sure THEN "pg" ELSE g,
                  !.stream = IF sure THEN s ELSE None,
                  !.src = s, !.upto = id, !.into = g, !.sure = sure,
                  !.before = {c \in StreamsByScope(g) :
                                /\ Log(c)[1].src = s
                                /\ \E i \in Instances : told[i][c] > 0}])

(* create_empty starts a stream for a group that hands in paper only.       *)
IsFresh(s) == rows[s] = NoRow /\ \A q \in Requests : req[q].stream # s
CreateEmpty(r, s) ==
    /\ IsFresh(s)
    /\ Arrived(r, "create", [req[r] EXCEPT !.pc = "lookup", !.phase = "target",
                                           !.reg = "csb", !.stream = s])

(* The overview pages list the stores of the election.                      *)
Overview(r, g) ==
    Arrived(r, "overview", [req[r] EXCEPT !.pc = "scan", !.phase = "scan", !.reg = g])

-----------------------------------------------------------------------------
(* lookup.                                                                  *)

Cached(r) == cache[req[r].host][req[r].reg][req[r].stream]

(* The store is cached: it is handed out as it is.                          *)
LookupHit(r) ==
    /\ req[r].pc = "lookup"
    /\ Cached(r) # None
    /\ Step(r, [req[r] EXCEPT !.pc = "held", !.obj = Cached(r)])
    /\ UNCHANGED <<rows, cache, objs, now, told>>

(* It is not; only get_store, without an init hook, asks for the row first. *)
LookupMiss(r) ==
    /\ req[r].pc = "lookup"
    /\ Cached(r) = None
    /\ Step(r, [req[r] EXCEPT
                  !.pc = IF req[r].op \in {"examine", "paper"} THEN "list" ELSE "build"])
    /\ UNCHANGED <<rows, cache, objs, now, told>>

ListForLookup(r) ==
    /\ req[r].pc = "list"
    /\ \/ /\ req[r].stream \in StreamsByScope(req[r].reg)
          /\ Step(r, [req[r] EXCEPT !.pc = "build"])
       \/ /\ req[r].stream \notin StreamsByScope(req[r].reg)
          /\ Answer(r, "NotFound")
    /\ UNCHANGED <<rows, cache, objs, now, told>>

Build(r) ==
    /\ req[r].pc = "build"
    /\ EnsureStream(r)
    /\ Step(r, [req[r] EXCEPT !.pc = "load", !.obj = Object(r)])
    /\ UNCHANGED <<cache, now, told>>

Loaded(o) == [objs EXCEPT ![o].seen = Len(Log(o[3]))]

LoadNew(r) ==
    /\ req[r].pc = "load"
    /\ objs' = Loaded(req[r].obj)
    /\ Step(r, [req[r] EXCEPT !.pc = "insert"])
    /\ UNCHANGED <<rows, cache, now, told>>

(* Mutant: the store that was built last replaces the one that is cached.   *)
InsertReplaces(r) ==
    /\ req[r].pc = "insert"
    /\ cache' = [cache EXCEPT ![req[r].host][req[r].reg][req[r].stream] = req[r].obj]
    /\ Step(r, [req[r] EXCEPT !.pc = "held"])
    /\ UNCHANGED <<rows, now, told>>
    /\ Stores(objs)

(* entry(key).or_insert_with: another request may have been first.          *)
Insert(r) ==
    LET kept == IF Cached(r) = None THEN req[r].obj ELSE Cached(r) IN
    /\ req[r].pc = "insert"
    /\ cache' = [cache EXCEPT ![req[r].host][req[r].reg][req[r].stream] = kept]
    /\ Step(r, [req[r] EXCEPT !.pc = "held", !.obj = kept])
    /\ UNCHANGED <<rows, now, told>>
    /\ Stores(objs)

(* purge_idle drops stores of groups that were not handed out for a while,  *)
(* however long a request that holds one still takes.                       *)
PurgeIdle(i, s) ==
    /\ cache[i]["pg"][s] # None
    /\ cache' = [cache EXCEPT ![i]["pg"][s] = None]
    /\ UNCHANGED <<rows, req, now, told>>
    /\ Stores(objs)

-----------------------------------------------------------------------------
(* stores_for_election: the streams are listed, and the stores looked up    *)
(* one by one.                                                              *)

Scan(r) ==
    /\ req[r].pc = "scan"
    /\ Step(r, [req[r] EXCEPT !.pc = "next", !.todo = StreamsByScope(req[r].reg)])
    /\ UNCHANGED <<rows, cache, objs, now, told>>

ScanNext(r, s) ==
    /\ req[r].pc = "next"
    /\ s \in req[r].todo
    /\ Step(r, [req[r] EXCEPT !.pc = "lookup", !.stream = s, !.todo = @ \ {s}])
    /\ UNCHANGED <<rows, cache, objs, now, told>>

(* imported_appellation, for one stream: it began with an import of src.    *)
(* The code collects the stores first; none of them is read before that.    *)
ImportedFrom(log, s) == Len(log) > 0 /\ log[1].src = s /\ ~Deleted(log)

Inspect(r) ==
    /\ req[r].pc = "held" /\ req[r].phase = "scan"
    /\ \/ /\ req[r].op = "import"
          /\ ImportedFrom(Seen(req[r].obj), req[r].src)
          /\ Answer(r, "AlreadyImported")
       \/ /\ req[r].op = "import" => ~ImportedFrom(Seen(req[r].obj), req[r].src)
          /\ Step(r, [req[r] EXCEPT !.pc = "next", !.obj = None])
    /\ UNCHANGED <<rows, cache, now, told>>
    /\ Stores(objs)

(* All were looked at: the overview is shown, or the import goes on with    *)
(* its source.                                                              *)
AfterScan(r) ==
    /\ IF req[r].op = "overview" THEN Answer(r, "Shown")
       ELSE Step(r, [req[r] EXCEPT !.pc = "lookup", !.phase = "source", !.reg = "pg",
                                   !.stream = req[r].src, !.todo = {}])
    /\ UNCHANGED <<rows, cache, objs, now, told>>

(* Mutant: only the stores that are cached here are asked.                  *)
ScanDoneCachedOnly(r) ==
    /\ req[r].pc = "next"
    /\ \A s \in req[r].todo : cache[req[r].host][req[r].reg][s] = None
    /\ AfterScan(r)

ScanDone(r) ==
    /\ req[r].pc = "next"
    /\ req[r].todo = {}
    /\ AfterScan(r)

-----------------------------------------------------------------------------
(* The import reads its source and records what it found on a new stream.   *)

(* The events up to the one with the hash, if that one was seen.            *)
Snapshot(r, fresh, seen) ==
    /\ IsFresh(fresh)
    /\ IF seen < req[r].upto THEN Answer(r, "NotFound")
       ELSE Step(r, [req[r] EXCEPT !.pc = "lookup", !.phase = "target",
                                   !.reg = req[r].into, !.stream = fresh, !.obj = None])

(* The source is loaded again, and replayed up to the event with the hash.  *)
TakeSnapshot(r, fresh) ==
    /\ req[r].pc = "held" /\ req[r].phase = "source"
    /\ Snapshot(r, fresh, Len(Log(req[r].src)))
    /\ UNCHANGED <<rows, cache, now, told>>
    /\ Stores(Loaded(req[r].obj))

-----------------------------------------------------------------------------
(* A request that has its store works with it.                              *)

(* inject_loaded_store, and the login and the logout: the store is loaded,  *)
(* and a group's handle remembers the last event it saw.                    *)
TakeLoaded(r) ==
    /\ req[r].pc = "held" /\ req[r].phase = "serve"
    /\ req[r].op \in {"visit", "login", "logout", "paper"}
    /\ objs' = Loaded(req[r].obj)
    /\ Step(r, [req[r] EXCEPT !.pc = "acting", !.expected = Len(Log(req[r].stream))])
    /\ UNCHANGED <<rows, cache, now, told>>

(* from_registry: as it is cached, unless that says it was deleted.         *)
TakeCached(r) ==
    /\ req[r].pc = "held" /\ req[r].phase = "serve"
    /\ req[r].op = "examine"
    /\ \/ /\ Deleted(Seen(req[r].obj))
          /\ Answer(r, "NotFound")
       \/ /\ ~Deleted(Seen(req[r].obj))
          /\ Step(r, [req[r] EXCEPT !.pc = "acting"])
    /\ UNCHANGED <<rows, cache, now, told>>
    /\ Stores(objs)

(* The fresh stream of an import, or of a group that hands in paper only.   *)
TakeFresh(r) ==
    /\ req[r].pc = "held" /\ req[r].phase = "target"
    /\ Step(r, [req[r] EXCEPT !.pc = "acting"])
    /\ UNCHANGED <<rows, cache, objs, now, told>>

KindsOf(op) == CASE op = "visit"   -> {"edit", "download"}
                 [] op = "examine" -> {"decide", "delete"}
                 [] op = "paper"   -> {"decide"}
                 [] OTHER          -> {op}

InWindow(log, t) == {n \in 1..Len(log) : log[n].at + Window > t}
Downloads(log, ns) == {n \in ns : log[n].kind = "download"}
Reached(max, count) == max > 0 /\ count >= max

(* check_limits, on the projection of the moment.                           *)
LimitHit(log, k) ==
    \/ Reached(EventsTotal, Len(log))
    \/ Reached(MaxEvents, Cardinality(InWindow(log, now)))
    \/ k = "download" /\ Reached(MaxDownloads, Cardinality(Downloads(log, InWindow(log, now))))

(* A handler decides to record an event; a group's is held to the limits.   *)
Check(r, k) ==
    /\ req[r].pc = "acting"
    /\ k \in KindsOf(req[r].op)
    /\ req[r].wrote < (IF req[r].op = "visit" THEN MaxWrites ELSE 1)
    /\ \/ /\ req[r].reg = "pg" /\ LimitHit(Seen(req[r].obj), k)
          /\ Answer(r, "LimitHit")
       \/ /\ ~(req[r].reg = "pg" /\ LimitHit(Seen(req[r].obj), k))
          /\ Step(r, [req[r] EXCEPT !.pc = "checked", !.kind = k])
    /\ UNCHANGED <<rows, cache, now, told>>
    /\ Stores(objs)

(* The append catches up first, also when it is then refused.               *)
Recorded(r) ==
    LET s == req[r].stream
        e == Event(req[r].kind, req[r].src, req[r].upto) IN
    /\ rows' = [rows EXCEPT ![s].log = Append(@, e)]
    /\ objs' = [objs EXCEPT ![req[r].obj].seen = Len(Log(s)) + 1]
    /\ told' = [told EXCEPT ![req[r].host][s] = Len(Log(s)) + 1]
    /\ Step(r, [req[r] EXCEPT !.pc = "acting", !.kind = None, !.wrote = @ + 1,
                              !.expected = @ + 1])
    /\ UNCHANGED <<cache, now>>

Conflict(r) ==
    /\ req[r].pc = "checked"
    /\ req[r].reg = "pg"
    /\ req[r].expected # Len(Log(req[r].stream))
    /\ Answer(r, "Conflict")
    /\ UNCHANGED <<rows, cache, now, told>>
    /\ Stores(Loaded(req[r].obj))

(* Mutant: a group's event is appended wherever the stream has got to.      *)
WriteAnyway(r) == req[r].pc = "checked" /\ Recorded(r)

(* update of a PgStore is refused when the stream moved since the handle    *)
(* saw it; that of a CsbStore is not.                                       *)
Write(r) ==
    /\ req[r].pc = "checked"
    /\ req[r].reg = "pg" => req[r].expected = Len(Log(req[r].stream))
    /\ Recorded(r)

(* The handler answers; one that only shows something has not written.      *)
Finish(r) ==
    /\ req[r].pc = "acting"
    /\ req[r].op \in {"visit", "examine", "paper"} \/ req[r].wrote > 0
    /\ Answer(r, "Done")
    /\ UNCHANGED <<rows, cache, now, told>>
    /\ Stores(objs)

(* The database, or the client, is gone at any step.                        *)
Fail(r) ==
    /\ req[r].pc \notin {"idle", "done"}
    /\ Answer(r, "Failed")
    /\ UNCHANGED <<rows, cache, now, told>>
    /\ Stores(objs)

Tick ==
    /\ now < MaxTime
    /\ now' = now + 1
    /\ UNCHANGED <<rows, cache, objs, req, told>>

Arrival(r) ==
    \/ \E s \in PgStreams :
         \/ Visit(r, s)
         \/ \E pinned \in BOOLEAN : Login(r, s, pinned)
         \/ Logout(r, s)
         \/ \E g \in {"csb", "pre"}, id \in 1..Len(Log(s)), sure \in BOOLEAN :
              Import(r, g, s, id, sure)
    \/ \E s \in CsbStreams :
         \/ \E g \in {"csb", "pre"} : Examine(r, g, s)
         \/ CorrectPapers(r, s)
         \/ CreateEmpty(r, s)
    \/ \E g \in {"csb", "pre"} : Overview(r, g)

Progress(r) ==
    \/ LookupHit(r) \/ LookupMiss(r) \/ ListForLookup(r)
    \/ Build(r) \/ LoadNew(r) \/ Insert(r)
    \/ Scan(r) \/ (\E s \in CsbStreams : ScanNext(r, s)) \/ Inspect(r) \/ ScanDone(r)
    \/ (\E fresh \in CsbStreams : TakeSnapshot(r, fresh))
    \/ TakeLoaded(r) \/ TakeCached(r) \/ TakeFresh(r)
    \/ (\E k \in KindsOf(req[r].op) : Check(r, k))
    \/ Conflict(r) \/ Write(r) \/ Finish(r)

Next ==
    \/ \E r \in Requests : Arrival(r) \/ Progress(r) \/ Fail(r)
    \/ \E i \in Instances, s \in PgStreams : PurgeIdle(i, s)
    \/ Tick

Spec == Init /\ [][Next]_vars

-----------------------------------------------------------------------------
(* Properties.                                                              *)

(* A handler works on a projection with everything that its caller may have *)
(* heard of: for a group's stream all that was acknowledged anywhere before *)
(* the request came, for the committee all that this process acknowledged.  *)
(* So it matters that lookup keeps one store per stream, also when several  *)
(* requests miss the cache at once.                                         *)
SeesWhatWasTold ==
    \A r \in Requests :
        req[r].pc \in {"acting", "checked"} =>
            \A n \in req[r].floor : n <= objs[req[r].obj].seen

(* Whoever creates the row of a stream first, all stores encrypt with one   *)
(* key (ensure_stream): with another one the stream could not be replayed.  *)
OneKeyPerStream ==
    \A o \in DOMAIN objs : objs[o].key = rows[o[3]].key

(* No stream of a group exceeds a limit, however many requests of however   *)
(* many processes check it at once (check_limits before the append).        *)
LimitsHold ==
    \A s \in PgStreams : \A n \in 1..Len(Log(s)) :
        LET log == SubSeq(Log(s), 1, n)
            recent == InWindow(log, log[n].at) IN
        /\ EventsTotal > 0 => n <= EventsTotal
        /\ MaxEvents > 0 => Cardinality(recent) <= MaxEvents
        /\ MaxDownloads > 0 => Cardinality(Downloads(log, recent)) <= MaxDownloads

(* What src/docs/code-architecture.md says of the cap on all events: it     *)
(* exempts session events, so that only the window can refuse a login or a  *)
(* logout.  check_rate_limits counts every event for every event, and does  *)
(* not keep to it.                                                          *)
CapExemptsSessions ==
    [][\A r \in Requests :
           /\ req[r].op \in {"login", "logout"} /\ req[r].pc = "acting"
           /\ req'[r].answer = "LimitHit"
           => Reached(MaxEvents, Cardinality(InWindow(Seen(req[r].obj), now)))]_vars

(* An import whose warning was not confirmed never repeats one that was     *)
(* acknowledged, by any process, before it was asked for, unless that was   *)
(* deleted since (imported_appellation).                                    *)
UnconfirmedIsFirst ==
    \A r \in Requests :
        req[r].op = "import" /\ ~req[r].sure /\ req[r].wrote > 0 =>
            \A c \in req[r].before : Deleted(Log(c))

=============================================================================
