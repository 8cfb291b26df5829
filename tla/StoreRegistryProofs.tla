------------------------ MODULE StoreRegistryProofs ------------------------
(***************************************************************************)
(* Proofs about StoreRegistry, for any processes, requests, streams,       *)
(* limits and starting points.                                             *)
(***************************************************************************)
EXTENDS StoreRegistry, FiniteSetTheorems, SequenceTheorems, TLAPS

Objects == Requests \X Registries \X Streams
ObjectsOrNone == Objects \cup {None}
Kinds == Ops \cup {"edit", "download", "decide", "delete"}
Entry == [kind : Kinds, at : Nat, src : PgStreams \cup {None}, upto : Nat]
StoreSet == [key : Streams \cup Requests, seen : Nat]
RowSet == [scope : Scopes \cup {None}, key : Streams \cup Requests \cup {None}, log : Seq(Entry)]

Seeking == {"lookup", "list", "build"}
Holding == {"held", "acting", "checked"}
Places == Seeking \cup Holding \cup {"idle", "scan", "next", "load", "insert", "done"}

Answers == {"NotFound", "AlreadyImported", "Shown", "LimitHit", "Conflict", "Done", "Failed"}

Req == [pc : Places, host : Instances, ops : SUBSET Ops, op : Ops \cup {None},
        phase : Phases \cup {None}, reg : Registries \cup {None}, stream : Streams \cup {None},
        obj : ObjectsOrNone, expected : Nat, kind : Kinds \cup {None}, wrote : Nat,
        todo : SUBSET CsbStreams, src : PgStreams \cup {None}, upto : Nat,
        into : Registries \cup {None}, sure : BOOLEAN, before : SUBSET CsbStreams,
        floor : SUBSET Nat,
        answer : Answers \cup {None}]

Types ==
    /\ rows \in [Streams -> RowSet]
    /\ cache \in [Instances -> [Registries -> [Streams -> ObjectsOrNone]]]
    /\ DOMAIN objs \subseteq Objects
    /\ \A o \in DOMAIN objs : objs[o] \in StoreSet
    /\ req \in [Requests -> Req]
    /\ now \in Nat
    /\ told \in [Instances -> [Streams -> Nat]]

-----------------------------------------------------------------------------
(* The tables.  A row has the scope of its streams; a store has the key and *)
(* the scope of its row, and is behind it or up to date.                    *)

IsCsb(g) == g \in {"csb", "pre"}
InScope(s, g) == rows[s].scope = ScopeOf(g) /\ Len(Log(s)) > 0

RowsOk ==
    \A s \in Streams :
        /\ rows[s] = NoRow \/ (rows[s].key # None /\ rows[s].scope # None)
        /\ s \in PgStreams => rows[s].scope \in {None, "PoliticalGroup"}
        /\ s \in CsbStreams => rows[s].scope # "PoliticalGroup"

ObjectsOk ==
    \A o \in DOMAIN objs :
        /\ objs[o].seen <= Len(Log(o[3]))
        /\ objs[o].key = rows[o[3]].key
        /\ rows[o[3]].scope = ScopeOf(o[2])

CacheOk ==
    \A i \in Instances, g \in Registries, s \in Streams :
        cache[i][g][s] # None =>
            /\ cache[i][g][s] \in DOMAIN objs /\ cache[i][g][s][2] = g /\ cache[i][g][s][3] = s
            /\ IsCsb(g) => /\ told[i][s] <= objs[cache[i][g][s]].seen
                           /\ Len(Log(s)) > 0 => objs[cache[i][g][s]].seen > 0

ToldOk == \A i \in Instances, s \in Streams : told[i][s] <= Len(Log(s))

(* A stream without events has one store, of the request that made it.      *)
EmptyHasOne ==
    \A o, p \in DOMAIN objs :
        o[3] = p[3] /\ o[3] \in CsbStreams /\ Len(Log(o[3])) = 0 => o = p

-----------------------------------------------------------------------------
(* The requests.                                                            *)

(* What a request is doing, and where.                                      *)
Task(q) ==
    /\ q.pc \in {"idle", "done"} => q.phase = None /\ q.obj = None /\ q.floor = {}
    /\ q.pc \notin {"idle", "done"} => q.phase # None
    /\ q.pc = "idle" => q.wrote = 0 /\ q.src = None /\ q.todo = {}
    /\ q.pc \in {"scan", "next"} => q.phase = "scan" /\ IsCsb(q.reg)
    /\ q.pc \in Seeking \cup {"scan", "next"} => q.obj = None
    /\ q.pc \in Seeking \cup {"load", "insert"} \cup Holding =>
         q.stream \in Streams /\ q.reg \in Registries
    /\ q.pc = "list" => q.op \in {"examine", "paper"}
    /\ q.pc \in {"acting", "checked"} => q.phase \in {"serve", "target"}
    /\ q.pc = "checked" => q.kind \in Kinds
    /\ q.phase = "serve" =>
         /\ q.op \in {"visit", "login", "logout"} => q.reg = "pg" /\ q.stream \in PgStreams
         /\ q.op \in {"examine", "paper"} => IsCsb(q.reg) /\ q.stream \in CsbStreams
         /\ q.op \in {"visit", "login", "logout", "examine", "paper"}
    /\ q.phase # "serve" => q.floor = {}
    /\ q.phase \in {"scan", "source"} /\ q.op = "import" => IsCsb(q.into) /\ q.src \in PgStreams
    /\ q.phase = "scan" => /\ IsCsb(q.reg) /\ q.op \in {"import", "overview"}
                           /\ q.op = "import" => q.reg = q.into
                           /\ q.pc \notin {"scan", "next"} =>
                                q.stream \in CsbStreams /\ q.stream \notin q.todo
    /\ q.phase = "source" => q.op = "import" /\ q.reg = "pg" /\ q.stream = q.src
    /\ q.phase = "target" => /\ q.op \in {"import", "create"}
                             /\ IsCsb(q.reg) /\ q.stream \in CsbStreams

(* The store it has: its own until that was inserted, the cached one of a   *)
(* committee stream from then on.                                           *)
Store(r, q) ==
    /\ q.pc \in {"load", "insert"} => q.obj = <<r, q.reg, q.stream>> /\ q.obj \in DOMAIN objs
    /\ q.pc \in Holding => /\ q.obj \in DOMAIN objs /\ q.obj[2] = q.reg /\ q.obj[3] = q.stream
                           /\ IsCsb(q.reg) => q.obj = cache[q.host][q.reg][q.stream]
    /\ q.pc = "insert" /\ IsCsb(q.reg) =>
         /\ cache[q.host][q.reg][q.stream] = None => told[q.host][q.stream] <= objs[q.obj].seen
         /\ Len(Log(q.stream)) > 0 => objs[q.obj].seen > 0

(* It never builds a store twice.                                           *)
Builds(r, q) ==
    \A o \in DOMAIN objs : o[1] = r =>
        /\ q.pc # "idle"
        /\ q.phase = "serve" => q.pc \notin Seeking
        /\ q.phase = "scan" => o[2] = q.reg /\ o[3] \notin q.todo /\ q.pc # "scan"
        /\ q.pc \in Seeking => o # <<r, q.reg, q.stream>>

(* The streams that it builds for have their scope, or no row yet.          *)
Scoped(q) ==
    /\ q.phase = "scan" => \A s \in q.todo : InScope(s, q.reg)
    /\ q.phase = "scan" /\ q.pc \notin {"scan", "next"} => InScope(q.stream, q.reg)
    /\ q.phase = "serve" /\ IsCsb(q.reg) /\ q.pc = "build" => InScope(q.stream, q.reg)
    /\ q.phase = "target" /\ q.pc \in Seeking => rows[q.stream] = NoRow

(* What it may count on, and what it checked.                               *)
Informed(q) ==
    \A n \in q.floor :
        /\ n <= Len(Log(q.stream))
        /\ IsCsb(q.reg) => n <= told[q.host][q.stream]
        /\ q.pc \in {"acting", "checked"} => n <= objs[q.obj].seen

Limited(q) ==
    q.reg = "pg" /\ q.pc \in {"acting", "checked"} =>
        /\ q.expected <= objs[q.obj].seen
        /\ q.pc = "checked" /\ q.expected = Len(Log(q.stream)) => ~LimitHit(Log(q.stream), q.kind)

(* Which of the imports that were there it has looked at.                   *)
Warned(q) ==
    q.op = "import" /\ ~q.sure =>
        /\ \A c \in q.before : Len(Log(c)) > 0
        /\ q.phase \in {"scan", "source"} => \A c \in q.before : Log(c)[1].src = q.src
        /\ q.pc = "scan" => \A c \in q.before : InScope(c, q.reg)
        /\ q.phase = "scan" /\ q.pc # "scan" =>
             \A c \in q.before : \/ c \in q.todo \/ Deleted(Log(c))
                                 \/ q.pc # "next" /\ c = q.stream
        /\ q.phase \in {"source", "target"} \/ q.wrote > 0 => \A c \in q.before : Deleted(Log(c))

Request(r, q) ==
    Task(q) /\ Store(r, q) /\ Builds(r, q) /\ Scoped(q) /\ Informed(q)

OwnTargets ==
    \A r, q \in Requests : req[r].phase = "target" /\ req[q].phase = "target"
                           /\ req[r].stream = req[q].stream => r = q

Tables == RowsOk /\ ObjectsOk /\ CacheOk /\ ToldOk /\ EmptyHasOne

RegistryInv ==
    /\ Types /\ Tables /\ OwnTargets
    /\ \A r \in Requests : Request(r, req[r])

PastOk == \A s \in Streams : \A n \in 1..Len(Log(s)) : Log(s)[n].at <= now

-----------------------------------------------------------------------------
(* Small facts.                                                             *)

LEMMA ScopesDiffer ==
    /\ \A g \in Registries : ScopeOf(g) \in Scopes /\ ScopeOf(g) # None
    /\ \A g, h \in Registries : ScopeOf(g) = ScopeOf(h) => g = h
    /\ \A g \in Registries : ScopeOf(g) = "PoliticalGroup" <=> g = "pg"
    /\ \A g \in Registries : IsCsb(g) <=> g # "pg"
<1>1. ScopeOf("pg") = "PoliticalGroup" /\ ScopeOf("csb") = "ImportedByCsb"
      /\ ScopeOf("pre") = "PreSubmittedToCsb"
    BY DEF ScopeOf
<1>2. None \notin Scopes
    BY StreamsAssumption
<1> QED
    BY <1>1, <1>2 DEF Registries, Scopes, IsCsb

LEMMA LogTypes ==
    ASSUME Types, NEW s \in Streams
    PROVE  rows[s] \in RowSet /\ Log(s) \in Seq(Entry) /\ Len(Log(s)) \in Nat
<1>1. rows[s] \in RowSet
    BY DEF Types
<1>2. Log(s) \in Seq(Entry)
    BY <1>1 DEF RowSet, Log
<1> QED
    BY <1>1, <1>2

LEMMA ObjectParts ==
    ASSUME NEW o \in Objects
    PROVE  o[1] \in Requests /\ o[2] \in Registries /\ o[3] \in Streams /\ o # None
           /\ o = <<o[1], o[2], o[3]>>
BY StreamsAssumption DEF Objects

(* A step of one request.                                                   *)
LEMMA OneSteps ==
    ASSUME Types, NEW r \in Requests, NEW x \in Req, Step(r, x)
    PROVE  /\ req' \in [Requests -> Req] /\ req'[r] = x
           /\ \A q \in Requests \ {r} : req'[q] = req[q]
BY DEF Types, Step

-----------------------------------------------------------------------------
(* Steps that leave the rows and the cache alone: stores are loaded again,  *)
(* or dropped when nobody holds them.                                       *)

Survives(o) == o \in DOMAIN objs => o \in DOMAIN objs'

ObjectsKept(r) ==
    /\ DOMAIN objs' \subseteq DOMAIN objs
    /\ \A o \in DOMAIN objs' :
         /\ objs'[o] \in StoreSet /\ objs'[o].key = objs[o].key
         /\ objs[o].seen <= objs'[o].seen /\ objs'[o].seen <= Len(Log(o[3]))
    /\ \A q \in Requests \ {r} : Survives(req[q].obj)
    /\ \A i \in Instances, g \in Registries, s \in Streams : Survives(cache[i][g][s])

LEMMA SeenTypes ==
    ASSUME Types, ObjectsOk, NEW o \in DOMAIN objs
    PROVE  /\ o \in Objects /\ o[3] \in Streams /\ objs[o] \in StoreSet /\ objs[o].seen \in Nat
           /\ Len(Log(o[3])) \in Nat /\ objs[o].seen <= Len(Log(o[3]))
<1>1. o \in Objects /\ objs[o] \in StoreSet /\ objs[o].seen <= Len(Log(o[3]))
    BY DEF Types, ObjectsOk
<1>2. o[3] \in Streams /\ objs[o].seen \in Nat
    BY <1>1, ObjectParts DEF StoreSet
<1> QED
    BY <1>1, <1>2, LogTypes

LEMMA ObjectsUnchanged ==
    ASSUME Types, ObjectsOk, NEW r, UNCHANGED objs
    PROVE  ObjectsKept(r)
BY SeenTypes DEF ObjectsKept, Survives

LEMMA LoadedIs ==
    ASSUME Types, ObjectsOk, NEW o \in DOMAIN objs
    PROVE  /\ DOMAIN Loaded(o) = DOMAIN objs
           /\ Loaded(o)[o].seen = Len(Log(o[3]))
           /\ \A p \in DOMAIN objs : /\ p # o => Loaded(o)[p] = objs[p]
                                     /\ Loaded(o)[p] \in StoreSet
                                     /\ Loaded(o)[p].key = objs[p].key
                                     /\ objs[p].seen <= Loaded(o)[p].seen
                                     /\ Loaded(o)[p].seen <= Len(Log(p[3]))
<1> DEFINE n == Len(Log(o[3]))
           y == [objs[o] EXCEPT !.seen = n]
<1>1. objs[o] \in StoreSet /\ n \in Nat /\ objs[o].seen <= n /\ objs[o].seen \in Nat
    BY SeenTypes
<1>2. y \in StoreSet /\ y.seen = n /\ y.key = objs[o].key
    BY <1>1 DEF StoreSet
<1>3. Loaded(o) = [objs EXCEPT ![o] = y]
    BY DEF Loaded
<1> HIDE DEF y, n
<1>4. \A p \in DOMAIN objs : objs[p] \in StoreSet /\ objs[p].seen <= Len(Log(p[3]))
                             /\ objs[p].seen \in Nat
    BY SeenTypes
<1>5. n <= Len(Log(o[3]))
    BY <1>1 DEF n
<1> QED
    BY <1>1, <1>2, <1>3, <1>4, <1>5 DEF n

LEMMA ObjectsLoaded ==
    ASSUME Types, ObjectsOk, NEW r, NEW o \in DOMAIN objs, objs' = Loaded(o)
    PROVE  ObjectsKept(r) /\ DOMAIN objs' = DOMAIN objs /\ objs'[o].seen = Len(Log(o[3]))
BY LoadedIs DEF ObjectsKept, Survives

LEMMA ObjectsDropped ==
    ASSUME Types, ObjectsOk, NEW r \in Requests, NEW x \in Req, Step(r, x), UNCHANGED cache,
           NEW new, DOMAIN new = DOMAIN objs,
           \A p \in DOMAIN objs : /\ new[p] \in StoreSet /\ new[p].key = objs[p].key
                                  /\ objs[p].seen <= new[p].seen /\ new[p].seen <= Len(Log(p[3])),
           Stores(new)
    PROVE  /\ ObjectsKept(r) /\ Survives(x.obj)
           /\ \A p \in DOMAIN objs' : objs'[p] = new[p]
<1>1. /\ DOMAIN objs' = DOMAIN objs \cap Held'
      /\ \A p \in DOMAIN objs' : objs'[p] = new[p]
    BY DEF Stores
<1>2. \A q \in Requests : req'[q].obj \in Held'
    BY DEF Held
<1>3. \A i \in Instances, g \in Registries, s \in Streams : cache'[i][g][s] \in Held'
    BY DEF Held
<1> HIDE DEF Held
<1> QED
    BY <1>1, <1>2, <1>3, OneSteps DEF ObjectsKept, Survives

LEMMA ObjectsDroppedOnly ==
    ASSUME Types, ObjectsOk, NEW r \in Requests, NEW x \in Req, Step(r, x), UNCHANGED cache,
           Stores(objs)
    PROVE  /\ ObjectsKept(r) /\ Survives(x.obj)
           /\ \A p \in DOMAIN objs' : objs'[p] = objs[p]
<1>1. \A p \in DOMAIN objs : /\ objs[p] \in StoreSet /\ objs[p].key = objs[p].key
                             /\ objs[p].seen <= objs[p].seen /\ objs[p].seen <= Len(Log(p[3]))
    BY SeenTypes
<1> QED
    BY <1>1, ObjectsDropped

(* Who holds a store that survives does not notice.                         *)
LEMMA RequestKept ==
    ASSUME Types, ObjectsOk, NEW r, UNCHANGED <<rows, cache, told>>, ObjectsKept(r),
           NEW q \in Requests, NEW y \in Req, Request(q, y), Survives(y.obj)
    PROVE  Request(q, y)'
<1>2. Task(y)'
    BY DEF Request, Task
<1>3. Store(q, y)'
    <2>1. y.pc \in {"load", "insert"} \cup Holding => y.obj \in DOMAIN objs /\ y.obj \in DOMAIN objs'
        BY DEF Request, Store, Survives
    <2>2. \A o \in DOMAIN objs' : objs[o].seen <= objs'[o].seen /\ objs[o].seen \in Nat /\ objs'[o].seen \in Nat
        BY SeenTypes DEF ObjectsKept, StoreSet
    <2>3. y.pc = "insert" /\ IsCsb(y.reg) => told[y.host][y.stream] \in Nat
        BY DEF Types, Req, Request, Task
    <2> QED
        BY <2>1, <2>2, <2>3 DEF Request, Store, Log
<1>4. Builds(q, y)'
    BY DEF Request, Builds, ObjectsKept
<1>5. Scoped(y)'
    BY DEF Request, Scoped, InScope, Log
<1>6. Informed(y)'
    <2>1. y.pc \in {"acting", "checked"} => y.obj \in DOMAIN objs /\ y.obj \in DOMAIN objs'
        BY DEF Request, Store, Survives, Holding
    <2>2. \A o \in DOMAIN objs' : objs[o].seen <= objs'[o].seen /\ objs[o].seen \in Nat /\ objs'[o].seen \in Nat
        BY SeenTypes DEF ObjectsKept, StoreSet
    <2>3. \A n \in y.floor : n \in Nat
        BY DEF Req
    <2> QED
        BY <2>1, <2>2, <2>3 DEF Request, Informed, Log
<1> QED
    BY <1>2, <1>3, <1>4, <1>5, <1>6 DEF Request

LEMMA OthersKept ==
    ASSUME RegistryInv, NEW r \in Requests, UNCHANGED <<rows, cache, told>>, ObjectsKept(r),
           NEW q \in Requests \ {r}, req'[q] = req[q]
    PROVE  Request(q, req[q])'
<1>0. Types /\ ObjectsOk /\ Request(q, req[q])
    BY DEF RegistryInv, Tables
<1>1. PICK y \in Req : y = req[q]
    BY <1>0 DEF Types
<1>2. Survives(y.obj)
    BY <1>1 DEF ObjectsKept
<1>3. Request(q, y)'
    BY <1>0, <1>1, <1>2, RequestKept
<1> QED
    BY <1>1, <1>3

LEMMA TablesKept ==
    ASSUME Types, Tables, NEW r \in Requests, UNCHANGED <<rows, cache, told>>, ObjectsKept(r)
    PROVE  Tables'
<1> USE DEF Tables
<1>1. RowsOk' /\ ToldOk'
    BY DEF RowsOk, ToldOk, Log
<1>2. ObjectsOk'
    BY DEF ObjectsOk, ObjectsKept, Log
<1>3. CacheOk'
    <2>1. \A o \in DOMAIN objs' : /\ objs[o].seen <= objs'[o].seen
                                  /\ objs[o].seen \in Nat /\ objs'[o].seen \in Nat
        BY SeenTypes DEF ObjectsKept, StoreSet
    <2> SUFFICES ASSUME NEW i \in Instances, NEW g \in Registries, NEW s \in Streams,
                        cache[i][g][s] # None
                 PROVE  /\ cache[i][g][s] \in DOMAIN objs'
                        /\ cache[i][g][s][2] = g /\ cache[i][g][s][3] = s
                        /\ IsCsb(g) => /\ told[i][s] <= objs'[cache[i][g][s]].seen
                                       /\ Len(Log(s)) > 0 => objs'[cache[i][g][s]].seen > 0
        BY DEF CacheOk, Log
    <2>2. told[i][s] \in Nat
        BY DEF Types
    <2> DEFINE o == cache[i][g][s]
    <2>3. /\ o \in DOMAIN objs /\ o[2] = g /\ o[3] = s
          /\ IsCsb(g) => /\ told[i][s] <= objs[o].seen
                         /\ Len(Log(s)) > 0 => objs[o].seen > 0
        BY DEF CacheOk
    <2>4. o \in DOMAIN objs'
        BY <2>3 DEF ObjectsKept, Survives
    <2> HIDE DEF o
    <2>5. objs[o].seen <= objs'[o].seen /\ objs[o].seen \in Nat /\ objs'[o].seen \in Nat
        BY <2>1, <2>4
    <2> QED
        BY <2>2, <2>3, <2>4, <2>5 DEF o
<1>4. EmptyHasOne'
    BY DEF EmptyHasOne, ObjectsKept, Log
<1> QED
    BY <1>1, <1>2, <1>3, <1>4

LEMMA InvKept ==
    ASSUME RegistryInv, NEW r \in Requests, NEW x \in Req, Step(r, x),
           UNCHANGED <<rows, cache, told, now>>, ObjectsKept(r), Request(r, req[r])',
           x.phase = "target" =>
               \/ req[r].phase = "target" /\ x.stream = req[r].stream
               \/ \A q \in Requests : req[q].stream # x.stream
    PROVE  RegistryInv'
<1>0. /\ Types /\ Tables /\ req' \in [Requests -> Req] /\ req'[r] = x
      /\ \A q \in Requests \ {r} : req'[q] = req[q]
    BY OneSteps DEF RegistryInv
<1>1. Types'
    BY <1>0 DEF Types, ObjectsKept
<1>2. Tables'
    BY <1>0, TablesKept
<1>3. OwnTargets'
    BY <1>0 DEF RegistryInv, OwnTargets
<1>4. \A q \in Requests \ {r} : Request(q, req[q])'
    BY <1>0, OthersKept
<1> QED
    BY <1>1, <1>2, <1>3, <1>4 DEF RegistryInv

(* A step that leaves the request in order keeps everything in order.       *)
LEMMA InvStep ==
    ASSUME RegistryInv, NEW r \in Requests, NEW x \in Req, Step(r, x),
           UNCHANGED <<rows, cache, told, now>>, ObjectsKept(r), Survives(x.obj), Request(r, x),
           x.phase = "target" =>
               \/ req[r].phase = "target" /\ x.stream = req[r].stream
               \/ \A q \in Requests : req[q].stream # x.stream
    PROVE  RegistryInv'
<1>1. Types /\ ObjectsOk
    BY DEF RegistryInv, Tables
<1>2. PICK y \in Req : y = x
    OBVIOUS
<1>3. req'[r] = y
    BY <1>1, <1>2, OneSteps
<1>4. Request(r, y)'
    BY <1>1, <1>2, RequestKept
<1>5. Request(r, req[r])'
    BY <1>3, <1>4
<1> QED
    BY <1>5, InvKept

(* A request that is answered.                                              *)
DoneWith(n, op, s, sure, before, wrote, a) ==
    [n EXCEPT !.pc = "done", !.op = op, !.stream = s, !.sure = sure,
              !.before = before, !.wrote = wrote, !.answer = a]

AnswerOf(q, a) ==
    DoneWith(NewRequest(q.host, {}), q.op, q.stream, q.sure, q.before, q.wrote, a)

LEMMA NewIs ==
    ASSUME NEW h \in Instances, NEW ops \in SUBSET Ops
    PROVE  NewRequest(h, ops) \in Req
BY DEF NewRequest, Req, Places, ObjectsOrNone

(* One field at a time: a record stays a request.                           *)
SetPc(q, v) == [q EXCEPT !.pc = v]
SetOp(q, v) == [q EXCEPT !.op = v]
SetPhase(q, v) == [q EXCEPT !.phase = v]
SetReg(q, v) == [q EXCEPT !.reg = v]
SetStream(q, v) == [q EXCEPT !.stream = v]
SetObj(q, v) == [q EXCEPT !.obj = v]
SetExpected(q, v) == [q EXCEPT !.expected = v]
SetKind(q, v) == [q EXCEPT !.kind = v]
SetWrote(q, v) == [q EXCEPT !.wrote = v]
SetTodo(q, v) == [q EXCEPT !.todo = v]
SetSrc(q, v) == [q EXCEPT !.src = v]
SetUpto(q, v) == [q EXCEPT !.upto = v]
SetInto(q, v) == [q EXCEPT !.into = v]
SetSure(q, v) == [q EXCEPT !.sure = v]
SetBefore(q, v) == [q EXCEPT !.before = v]
SetFloor(q, v) == [q EXCEPT !.floor = v]
SetAnswer(q, v) == [q EXCEPT !.answer = v]

LEMMA FieldsSet ==
    ASSUME NEW q \in Req
    PROVE  /\ \A v \in Places : SetPc(q, v) \in Req
           /\ \A v \in Ops \cup {None} : SetOp(q, v) \in Req
           /\ \A v \in Phases \cup {None} : SetPhase(q, v) \in Req
           /\ \A v \in Registries \cup {None} : SetReg(q, v) \in Req
           /\ \A v \in Streams \cup {None} : SetStream(q, v) \in Req
           /\ \A v \in ObjectsOrNone : SetObj(q, v) \in Req
           /\ \A v \in Nat : SetExpected(q, v) \in Req
           /\ \A v \in Kinds \cup {None} : SetKind(q, v) \in Req
           /\ \A v \in Nat : SetWrote(q, v) \in Req
           /\ \A v \in SUBSET CsbStreams : SetTodo(q, v) \in Req
           /\ \A v \in PgStreams \cup {None} : SetSrc(q, v) \in Req
           /\ \A v \in Nat : SetUpto(q, v) \in Req
           /\ \A v \in Registries \cup {None} : SetInto(q, v) \in Req
           /\ \A v \in BOOLEAN : SetSure(q, v) \in Req
           /\ \A v \in SUBSET CsbStreams : SetBefore(q, v) \in Req
           /\ \A v \in SUBSET Nat : SetFloor(q, v) \in Req
           /\ \A v \in Answers \cup {None} : SetAnswer(q, v) \in Req
<1>1. \A v \in Places : SetPc(q, v) \in Req
    BY DEF Req, SetPc
<1>2. \A v \in Ops \cup {None} : SetOp(q, v) \in Req
    BY DEF Req, SetOp
<1>3. \A v \in Phases \cup {None} : SetPhase(q, v) \in Req
    BY DEF Req, SetPhase
<1>4. \A v \in Registries \cup {None} : SetReg(q, v) \in Req
    BY DEF Req, SetReg
<1>5. \A v \in Streams \cup {None} : SetStream(q, v) \in Req
    BY DEF Req, SetStream
<1>6. \A v \in ObjectsOrNone : SetObj(q, v) \in Req
    BY DEF Req, SetObj
<1>7. \A v \in Nat : SetExpected(q, v) \in Req
    BY DEF Req, SetExpected
<1>8. \A v \in Kinds \cup {None} : SetKind(q, v) \in Req
    BY DEF Req, SetKind
<1>9. \A v \in Nat : SetWrote(q, v) \in Req
    BY DEF Req, SetWrote
<1>10. \A v \in SUBSET CsbStreams : SetTodo(q, v) \in Req
    BY DEF Req, SetTodo
<1>11. \A v \in PgStreams \cup {None} : SetSrc(q, v) \in Req
    BY DEF Req, SetSrc
<1>12. \A v \in Nat : SetUpto(q, v) \in Req
    BY DEF Req, SetUpto
<1>13. \A v \in Registries \cup {None} : SetInto(q, v) \in Req
    BY DEF Req, SetInto
<1>14. \A v \in BOOLEAN : SetSure(q, v) \in Req
    BY DEF Req, SetSure
<1>15. \A v \in SUBSET CsbStreams : SetBefore(q, v) \in Req
    BY DEF Req, SetBefore
<1>16. \A v \in SUBSET Nat : SetFloor(q, v) \in Req
    BY DEF Req, SetFloor
<1>17. \A v \in Answers \cup {None} : SetAnswer(q, v) \in Req
    BY DEF Req, SetAnswer
<1> QED
    BY <1>1, <1>2, <1>3, <1>4, <1>5, <1>6, <1>7, <1>8, <1>9, <1>10, <1>11, <1>12, <1>13, <1>14, <1>15, <1>16, <1>17

LEMMA DoneIs ==
    ASSUME NEW n \in Req, NEW op \in Ops \cup {None}, NEW s \in Streams \cup {None},
           NEW sure \in BOOLEAN, NEW before \in SUBSET CsbStreams, NEW wrote \in Nat,
           NEW a \in Answers
    PROVE  DoneWith(n, op, s, sure, before, wrote, a) \in Req
<1>1. DoneWith(n, op, s, sure, before, wrote, a)
        = SetAnswer(SetWrote(SetBefore(SetSure(SetStream(SetOp(SetPc(n, "done"), op), s), sure),
                                       before), wrote), a)
    BY DEF DoneWith, SetPc, SetOp, SetStream, SetSure, SetBefore, SetWrote, SetAnswer
<1> QED
    BY <1>1, FieldsSet DEF Places

LEMMA AnswerIs ==
    ASSUME NEW q \in Req, NEW a \in Answers
    PROVE  /\ AnswerOf(q, a) \in Req
           /\ AnswerOf(q, a).pc = "done" /\ AnswerOf(q, a).phase = None
           /\ AnswerOf(q, a).obj = None /\ AnswerOf(q, a).floor = {}
           /\ AnswerOf(q, a).op = q.op /\ AnswerOf(q, a).sure = q.sure
           /\ AnswerOf(q, a).before = q.before /\ AnswerOf(q, a).wrote = q.wrote
           /\ AnswerOf(q, a).stream = q.stream /\ AnswerOf(q, a).reg = None
<1> DEFINE x == AnswerOf(q, a)
<1>1. /\ x.pc = "done" /\ x.phase = None /\ x.obj = None /\ x.floor = {} /\ x.op = q.op
      /\ x.sure = q.sure /\ x.before = q.before /\ x.wrote = q.wrote /\ x.stream = q.stream
      /\ x.reg = None
    BY DEF AnswerOf, DoneWith, NewRequest
<1> DEFINE n == NewRequest(q.host, {})
<1>2. n \in Req
    BY NewIs DEF Req
<1> HIDE DEF n
<1>3. x \in Req
    <2>1. /\ q.op \in Ops \cup {None} /\ q.stream \in Streams \cup {None} /\ q.sure \in BOOLEAN
          /\ q.before \in SUBSET CsbStreams /\ q.wrote \in Nat
        BY DEF Req
    <2> QED
        BY <1>2, <2>1, DoneIs DEF AnswerOf, n
<1> QED
    BY <1>1, <1>3

LEMMA InvAnswered ==
    ASSUME RegistryInv, NEW r \in Requests, NEW a \in Answers, Answer(r, a),
           UNCHANGED <<rows, cache, told, now>>,
           ObjectsKept(r)
    PROVE  RegistryInv'
<1> DEFINE x == AnswerOf(req[r], a)
<1>1. Step(r, x) /\ req[r] \in Req /\ Types
    BY DEF Answer, AnswerOf, DoneWith, RegistryInv, Types
<1>2. x \in Req /\ x.pc = "done" /\ x.phase = None /\ x.obj = None /\ x.floor = {}
    BY <1>1, AnswerIs
<1> HIDE DEF x
<1>3. req'[r] = x
    BY <1>1, <1>2, OneSteps
<1>4. None \notin Phases
    BY StreamsAssumption
<1>5. Request(r, req[r])'
    BY <1>2, <1>3, <1>4
       DEF Request, Task, Store, Builds, Scoped, Informed, Seeking, Holding, Phases
<1> QED
    BY <1>1, <1>2, <1>4, <1>5, InvKept DEF Phases

-----------------------------------------------------------------------------
(* Requests that move along, with the same task.                            *)

SameTask(x, q) ==
    /\ x.host = q.host /\ x.op = q.op /\ x.src = q.src /\ x.upto = q.upto /\ x.into = q.into
    /\ x.sure = q.sure /\ x.before = q.before /\ x.wrote = q.wrote
SamePlace(x, q) ==
    /\ x.phase = q.phase /\ x.reg = q.reg /\ x.stream = q.stream /\ x.floor = q.floor
    /\ x.todo = q.todo

Now(q, pc, o) == [q EXCEPT !.pc = pc, !.obj = o]

LEMMA NowIs ==
    ASSUME NEW q \in Req, NEW pc \in Places, NEW o \in ObjectsOrNone
    PROVE  /\ Now(q, pc, o) \in Req
           /\ Now(q, pc, o).pc = pc /\ Now(q, pc, o).obj = o
           /\ SameTask(Now(q, pc, o), q) /\ SamePlace(Now(q, pc, o), q)
           /\ Now(q, pc, o).expected = q.expected
<1>1. Now(q, pc, o) = SetObj(SetPc(q, pc), o)
    BY DEF Now, SetObj, SetPc
<1>2. Now(q, pc, o) \in Req
    BY <1>1, FieldsSet
<1>3. Now(q, pc, o).pc = pc /\ Now(q, pc, o).obj = o /\ Now(q, pc, o).expected = q.expected
    BY DEF Now, Req
<1>4. SameTask(Now(q, pc, o), q)
    BY DEF Now, Req, SameTask
<1>5. SamePlace(Now(q, pc, o), q)
    BY DEF Now, Req, SamePlace
<1> QED
    BY <1>2, <1>3, <1>4, <1>5

LEMMA NowPc ==
    ASSUME NEW q \in Req, NEW pc
    PROVE  [q EXCEPT !.pc = pc] = Now(q, pc, q.obj)
BY DEF Now, Req

LEMMA PhasesAre ==
    \A p \in {"serve", "scan", "source", "target"} : p \in Phases /\ p # None
BY StreamsAssumption DEF Phases

LEMMA PlacesAre ==
    \A pc \in {"idle", "lookup", "list", "build", "load", "insert", "scan", "next", "held",
               "acting", "checked", "done"} : pc \in Places
BY DEF Places, Seeking, Holding

LEMMA RequestIs ==
    ASSUME RegistryInv, NEW r \in Requests
    PROVE  req[r] \in Req /\ Request(r, req[r]) /\ Types /\ Tables /\ ObjectsOk
BY DEF RegistryInv, Types, Tables

LEMMA LookupHitInv ==
    ASSUME RegistryInv, NEW r \in Requests, LookupHit(r)
    PROVE  RegistryInv'
<1>1. PICK q \in Req : q = req[r]
    BY RequestIs
<1>2. Request(r, q) /\ Types /\ Tables /\ ObjectsOk
    BY <1>1, RequestIs
<1>3. q.pc = "lookup" /\ q.stream \in Streams /\ q.reg \in Registries /\ q.host \in Instances
    BY <1>1, <1>2 DEF LookupHit, Request, Task, Req, Seeking
<1> DEFINE o == cache[q.host][q.reg][q.stream]
           x == Now(q, "held", o)
<1>4. o # None /\ Step(r, x) /\ UNCHANGED <<rows, cache, objs, now, told>>
    BY <1>1 DEF LookupHit, Cached, Now
<1>5. o \in DOMAIN objs /\ o[2] = q.reg /\ o[3] = q.stream /\ o \in ObjectsOrNone
    BY <1>2, <1>3, <1>4 DEF Tables, CacheOk, Types
<1> HIDE DEF o
<1>6. x \in Req /\ x.pc = "held" /\ x.obj = o /\ SameTask(x, q) /\ SamePlace(x, q)
    BY <1>5, NowIs, PlacesAre
<1> HIDE DEF x
<1>7. Task(x)
    BY <1>2, <1>3, <1>6 DEF Request, Task, SameTask, SamePlace, Seeking, Holding
<1>8. Store(r, x)
    BY <1>5, <1>6 DEF Store, SameTask, SamePlace, Holding, o
<1>9. Builds(r, x)
    BY <1>2, <1>3, <1>6 DEF Request, Builds, SameTask, SamePlace, Seeking
<1>10. Scoped(x)
    BY <1>2, <1>3, <1>6 DEF Request, Scoped, SameTask, SamePlace, Seeking
<1>11. Informed(x)
    BY <1>2, <1>3, <1>6 DEF Request, Informed, SameTask, SamePlace
<1>12. ObjectsKept(r) /\ Survives(x.obj)
    BY <1>2, <1>4, ObjectsUnchanged DEF Survives
<1> QED
    BY <1>1, <1>4, <1>6, <1>7, <1>8, <1>9, <1>10, <1>11, <1>12, InvStep DEF Request, SamePlace

(* What a request keeps that goes on with the same stream.                  *)
LEMMA MovedAlong ==
    ASSUME NEW r \in Requests, NEW q \in Req, NEW x \in Req, Request(r, q),
           SameTask(x, q), SamePlace(x, q),
           q.pc \in Seeking \cup {"load", "insert"} \cup Holding,
           x.pc \in Seeking \cup {"load", "insert"} \cup Holding,
           x.pc \in Seeking => q.pc \in Seeking,
           x.pc = "build" /\ q.phase = "serve" /\ IsCsb(q.reg) => InScope(q.stream, q.reg),
           x.pc \in {"acting", "checked"} => \A n \in q.floor : n <= objs[x.obj].seen
    PROVE  Builds(r, x) /\ Scoped(x) /\ Informed(x)
<1>1. Builds(r, x)
    BY DEF Request, Builds, SameTask, SamePlace, Seeking, Holding
<1>2. Scoped(x)
    BY DEF Request, Scoped, SameTask, SamePlace, Seeking, Holding
<1>3. Informed(x)
    BY DEF Request, Informed, SameTask, SamePlace
<1> QED
    BY <1>1, <1>2, <1>3

LEMMA LookupMissInv ==
    ASSUME RegistryInv, NEW r \in Requests, LookupMiss(r)
    PROVE  RegistryInv'
<1>1. PICK q \in Req : q = req[r]
    BY RequestIs
<1>2. Request(r, q) /\ Types /\ Tables /\ ObjectsOk
    BY <1>1, RequestIs
<1>3. q.pc = "lookup"
    BY <1>1 DEF LookupMiss
<1> DEFINE pc == IF q.op \in {"examine", "paper"} THEN "list" ELSE "build"
           x == Now(q, pc, q.obj)
<1>4. Step(r, x) /\ UNCHANGED <<rows, cache, objs, now, told>>
    BY <1>1, NowPc DEF LookupMiss
<1>5. pc \in Places /\ q.obj \in ObjectsOrNone /\ pc \in {"list", "build"}
      /\ (pc = "list" <=> q.op \in {"examine", "paper"})
    BY PlacesAre DEF Req
<1> HIDE DEF pc
<1>6. x \in Req /\ x.pc = pc /\ x.obj = q.obj /\ SameTask(x, q) /\ SamePlace(x, q)
    BY <1>5, NowIs
<1> HIDE DEF x
<1>7. Task(x)
    BY <1>2, <1>3, <1>5, <1>6 DEF Request, Task, SameTask, SamePlace, Seeking, Holding
<1>8. Store(r, x)
    BY <1>5, <1>6 DEF Store, Holding
<1>9. ~(pc = "build" /\ q.phase = "serve" /\ IsCsb(q.reg))
    BY <1>2, <1>5 DEF Request, Task, IsCsb
<1>10. Builds(r, x) /\ Scoped(x) /\ Informed(x)
    BY <1>2, <1>3, <1>5, <1>6, <1>9, MovedAlong DEF Seeking
<1>11. ObjectsKept(r) /\ Survives(x.obj)
    BY <1>2, <1>4, ObjectsUnchanged DEF Survives
<1> QED
    BY <1>1, <1>4, <1>6, <1>7, <1>8, <1>10, <1>11, InvStep DEF Request, SamePlace

LEMMA ListForLookupInv ==
    ASSUME RegistryInv, NEW r \in Requests, ListForLookup(r)
    PROVE  RegistryInv'
<1>1. PICK q \in Req : q = req[r]
    BY RequestIs
<1>2. Request(r, q) /\ Types /\ Tables /\ ObjectsOk
    BY <1>1, RequestIs
<1>3. q.pc = "list" /\ UNCHANGED <<rows, cache, objs, now, told>>
    BY <1>1 DEF ListForLookup
<1>4. ObjectsKept(r)
    BY <1>2, <1>3, ObjectsUnchanged
<1> DEFINE x == Now(q, "build", q.obj)
<1>5. CASE q.stream \in StreamsByScope(q.reg) /\ Step(r, x)
    <2>1. x \in Req /\ x.pc = "build" /\ x.obj = q.obj /\ SameTask(x, q) /\ SamePlace(x, q)
        BY PlacesAre, NowIs DEF Req
    <2> HIDE DEF x
    <2>2. InScope(q.stream, q.reg)
        BY <1>5 DEF StreamsByScope, InScope
    <2>3. Task(x)
        BY <1>2, <1>3, <2>1 DEF Request, Task, SameTask, SamePlace, Seeking, Holding
    <2>4. Store(r, x)
        BY <2>1 DEF Store, Holding
    <2>5. Builds(r, x) /\ Scoped(x) /\ Informed(x)
        BY <1>2, <1>3, <2>1, <2>2, MovedAlong DEF Seeking
    <2>6. Survives(x.obj)
        BY <1>3 DEF Survives
    <2> QED
        BY <1>1, <1>3, <1>4, <1>5, <2>1, <2>3, <2>4, <2>5, <2>6, InvStep DEF Request, SamePlace
<1>6. CASE Answer(r, "NotFound")
    BY <1>3, <1>4, <1>6, InvAnswered DEF Answers
<1> QED
    BY <1>1, <1>5, <1>6, NowPc DEF ListForLookup

LEMMA TakeFreshInv ==
    ASSUME RegistryInv, NEW r \in Requests, TakeFresh(r)
    PROVE  RegistryInv'
<1>1. PICK q \in Req : q = req[r]
    BY RequestIs
<1>2. Request(r, q) /\ Types /\ Tables /\ ObjectsOk
    BY <1>1, RequestIs
<1>3. q.pc = "held" /\ q.phase = "target" /\ UNCHANGED <<rows, cache, objs, now, told>>
    BY <1>1 DEF TakeFresh
<1> DEFINE x == Now(q, "acting", q.obj)
<1>4. Step(r, x)
    BY <1>1, NowPc DEF TakeFresh
<1>6. x \in Req /\ x.pc = "acting" /\ x.obj = q.obj /\ SameTask(x, q) /\ SamePlace(x, q)
    BY PlacesAre, NowIs DEF Req
<1> HIDE DEF x
<1>7. Task(x)
    BY <1>2, <1>3, <1>6 DEF Request, Task, SameTask, SamePlace, Seeking, Holding
<1>8. Store(r, x)
    BY <1>2, <1>3, <1>6 DEF Request, Store, SameTask, SamePlace, Holding
<1>9. q.floor = {}
    BY <1>2, <1>3 DEF Request, Task
<1>10. Builds(r, x) /\ Scoped(x) /\ Informed(x)
    BY <1>2, <1>3, <1>6, <1>9, MovedAlong DEF Seeking, Holding
<1>11. ObjectsKept(r) /\ Survives(x.obj)
    BY <1>2, <1>3, ObjectsUnchanged DEF Survives
<1> QED
    BY <1>1, <1>3, <1>4, <1>6, <1>7, <1>8, <1>10, <1>11, InvStep DEF Request, SamePlace

(* An answer lets go of the store.                                          *)
LEMMA InvAnsweredDropped ==
    ASSUME RegistryInv, NEW r \in Requests, NEW a \in Answers, Answer(r, a),
           UNCHANGED <<rows, cache, told, now>>,
           NEW new, DOMAIN new = DOMAIN objs,
           \A p \in DOMAIN objs : /\ new[p] \in StoreSet /\ new[p].key = objs[p].key
                                  /\ objs[p].seen <= new[p].seen /\ new[p].seen <= Len(Log(p[3])),
           Stores(new)
    PROVE  RegistryInv'
<1> DEFINE x == AnswerOf(req[r], a)
<1>1. Step(r, x) /\ x \in Req /\ Types /\ ObjectsOk
    BY RequestIs, AnswerIs DEF Answer, AnswerOf, DoneWith
<1> HIDE DEF x
<1>2. ObjectsKept(r)
    BY <1>1, ObjectsDropped
<1> QED
    BY <1>2, InvAnswered

LEMMA InvAnsweredOnly ==
    ASSUME RegistryInv, NEW r \in Requests, NEW a \in Answers, Answer(r, a),
           UNCHANGED <<rows, cache, told, now>>, Stores(objs)
    PROVE  RegistryInv'
<1>1. \A p \in DOMAIN objs : /\ objs[p] \in StoreSet /\ objs[p].key = objs[p].key
                             /\ objs[p].seen <= objs[p].seen /\ objs[p].seen <= Len(Log(p[3]))
    BY RequestIs, SeenTypes
<1> QED
    BY <1>1, InvAnsweredDropped

LEMMA FinishInv ==
    ASSUME RegistryInv, NEW r \in Requests, Finish(r)
    PROVE  RegistryInv'
BY InvAnsweredOnly DEF Finish, Answers

LEMMA FailInv ==
    ASSUME RegistryInv, NEW r \in Requests, Fail(r)
    PROVE  RegistryInv'
BY InvAnsweredOnly DEF Fail, Answers

LEMMA ConflictInv ==
    ASSUME RegistryInv, NEW r \in Requests, Conflict(r)
    PROVE  RegistryInv'
<1>1. Types /\ ObjectsOk /\ req[r].obj \in DOMAIN objs
    BY RequestIs DEF Conflict, Request, Store, Holding
<1> DEFINE new == Loaded(req[r].obj)
<1>2. /\ DOMAIN new = DOMAIN objs
      /\ \A p \in DOMAIN objs : /\ new[p] \in StoreSet /\ new[p].key = objs[p].key
                                /\ objs[p].seen <= new[p].seen /\ new[p].seen <= Len(Log(p[3]))
    BY <1>1, LoadedIs
<1>3. Answer(r, "Conflict") /\ UNCHANGED <<rows, cache, told, now>> /\ Stores(new)
    BY DEF Conflict
<1> HIDE DEF new
<1> QED
    BY <1>2, <1>3, InvAnsweredDropped DEF Answers

LEMMA TakeCachedInv ==
    ASSUME RegistryInv, NEW r \in Requests, TakeCached(r)
    PROVE  RegistryInv'
<1>1. PICK q \in Req : q = req[r]
    BY RequestIs
<1>2. Request(r, q) /\ Types /\ Tables /\ ObjectsOk
    BY <1>1, RequestIs
<1>3. /\ q.pc = "held" /\ q.phase = "serve" /\ q.op = "examine" /\ Stores(objs)
      /\ UNCHANGED <<rows, cache, now, told>>
    BY <1>1 DEF TakeCached
<1> DEFINE x == Now(q, "acting", q.obj)
<1>5. CASE Step(r, x)
    <2>1. x \in Req /\ x.pc = "acting" /\ x.obj = q.obj /\ SameTask(x, q) /\ SamePlace(x, q)
        BY PlacesAre, NowIs DEF Req
    <2> HIDE DEF x
    <2>2. ObjectsKept(r) /\ Survives(x.obj)
        BY <1>2, <1>3, <1>5, <2>1, ObjectsDroppedOnly
    <2>3. Task(x)
        BY <1>2, <1>3, <2>1 DEF Request, Task, SameTask, SamePlace, Seeking, Holding
    <2>4. Store(r, x)
        BY <1>2, <1>3, <2>1 DEF Request, Store, SameTask, SamePlace, Holding
    <2>5. \A n \in q.floor : n <= objs[x.obj].seen
        <3>1. IsCsb(q.reg) /\ q.host \in Instances /\ q.reg \in Registries /\ q.stream \in Streams
            BY <1>2, <1>3 DEF Request, Task, Holding, Req
        <3>2. q.obj = cache[q.host][q.reg][q.stream] /\ q.obj \in DOMAIN objs
            BY <1>2, <1>3, <3>1 DEF Request, Store, Holding
        <3>3. q.obj # None
            BY <1>2, <3>2, SeenTypes, ObjectParts
        <3>4. told[q.host][q.stream] <= objs[q.obj].seen
            BY <1>2, <3>1, <3>2, <3>3 DEF Tables, CacheOk
        <3>5. \A n \in q.floor : n <= told[q.host][q.stream] /\ n \in Nat
            BY <1>2, <3>1 DEF Request, Informed, Req
        <3>6. told[q.host][q.stream] \in Nat /\ objs[q.obj].seen \in Nat
            BY <1>2, <3>1, <3>2, SeenTypes DEF Types
        <3> QED
            BY <2>1, <3>4, <3>5, <3>6
    <2>6. Builds(r, x) /\ Scoped(x) /\ Informed(x)
        BY <1>2, <1>3, <2>1, <2>5, MovedAlong DEF Seeking, Holding
    <2> QED
        BY <1>1, <1>3, <1>5, <2>1, <2>2, <2>3, <2>4, <2>6, InvStep DEF Request, SamePlace
<1>6. CASE Answer(r, "NotFound")
    BY <1>3, <1>6, InvAnsweredOnly DEF Answers
<1> QED
    BY <1>1, <1>5, <1>6, NowPc DEF TakeCached

LEMMA CheckInv ==
    ASSUME RegistryInv, NEW r \in Requests, NEW k \in KindsOf(req[r].op), Check(r, k)
    PROVE  RegistryInv'
<1>1. PICK q \in Req : q = req[r]
    BY RequestIs
<1>2. Request(r, q) /\ Types /\ Tables /\ ObjectsOk
    BY <1>1, RequestIs
<1>3. q.pc = "acting" /\ UNCHANGED <<rows, cache, now, told>> /\ Stores(objs)
    BY <1>1 DEF Check
<1>4. k \in Kinds
    <2>1. q.op \in Ops
        BY <1>2, <1>3 DEF Request, Task, Ops
    <2> QED
        BY <1>1, <2>1 DEF KindsOf, Kinds, Ops
<1> DEFINE x == [q EXCEPT !.pc = "checked", !.kind = k]
<1>5. CASE Step(r, x)
    <2>0. x \in Req
        <3>1. x = SetKind(SetPc(q, "checked"), k)
            BY DEF SetKind, SetPc
        <3> QED
            BY <1>4, <3>1, FieldsSet, PlacesAre
    <2>1. x.pc = "checked" /\ x.obj = q.obj /\ x.kind = k /\ SameTask(x, q) /\ SamePlace(x, q)
        BY DEF Req, SameTask, SamePlace
    <2> HIDE DEF x
    <2>2. ObjectsKept(r) /\ Survives(x.obj)
        BY <1>2, <1>3, <1>5, <2>0, ObjectsDroppedOnly
    <2>3. Task(x)
        BY <1>2, <1>3, <1>4, <2>1 DEF Request, Task, SameTask, SamePlace, Seeking, Holding
    <2>4. Store(r, x)
        BY <1>2, <1>3, <2>1 DEF Request, Store, SameTask, SamePlace, Holding
    <2>5. \A n \in q.floor : n <= objs[x.obj].seen
        BY <1>2, <1>3, <2>1 DEF Request, Informed
    <2>6. Builds(r, x) /\ Scoped(x) /\ Informed(x)
        BY <1>2, <1>3, <2>0, <2>1, <2>5, MovedAlong DEF Seeking, Holding
    <2> QED
        BY <1>1, <1>3, <1>5, <2>0, <2>1, <2>2, <2>3, <2>4, <2>6, InvStep DEF Request, SamePlace
<1>6. CASE Answer(r, "LimitHit")
    BY <1>3, <1>6, InvAnsweredOnly DEF Answers
<1> QED
    BY <1>1, <1>5, <1>6 DEF Check

(* A store that is loaded has all there is.                                 *)
LEMMA LoadNewInv ==
    ASSUME RegistryInv, NEW r \in Requests, LoadNew(r)
    PROVE  RegistryInv'
<1>1. PICK q \in Req : q = req[r]
    BY RequestIs
<1>2. Request(r, q) /\ Types /\ Tables /\ ObjectsOk
    BY <1>1, RequestIs
<1>3. q.pc = "load" /\ objs' = Loaded(q.obj) /\ UNCHANGED <<rows, cache, now, told>>
    BY <1>1 DEF LoadNew
<1>4. /\ q.obj = <<r, q.reg, q.stream>> /\ q.obj \in DOMAIN objs /\ q.obj[3] = q.stream
      /\ q.stream \in Streams /\ q.host \in Instances
    BY <1>2, <1>3 DEF Request, Store, Task, Req
<1>5. PICK x : x = Now(q, "insert", q.obj)
    OBVIOUS
<1>6. Step(r, x)
    BY <1>1, <1>5, NowPc DEF LoadNew
<1>7. x \in Req /\ x.pc = "insert" /\ x.obj = q.obj /\ SameTask(x, q) /\ SamePlace(x, q)
    BY <1>5, PlacesAre, NowIs DEF Req
<1>8. /\ ObjectsKept(r) /\ DOMAIN objs' = DOMAIN objs
      /\ objs'[q.obj].seen = Len(Log(q.stream))
    BY <1>2, <1>3, <1>4, ObjectsLoaded
<1>9. Builds(r, x) /\ Scoped(x) /\ Informed(x)
    BY <1>2, <1>3, <1>7, MovedAlong DEF Seeking
<1>10. Task(x)'
    BY <1>2, <1>3, <1>7 DEF Request, Task, SameTask, SamePlace, Seeking, Holding
<1>11. Store(r, x)'
    <2>1. told[q.host][q.stream] <= Len(Log(q.stream))
        BY <1>2, <1>4 DEF Tables, ToldOk
    <2> QED
        BY <1>3, <1>4, <1>7, <1>8, <2>1 DEF Store, SameTask, SamePlace, Holding, Log
<1>12. Builds(r, x)'
    BY <1>8, <1>9 DEF Builds
<1>13. Scoped(x)'
    BY <1>3, <1>9 DEF Scoped, InScope, Log
<1>14. Informed(x)'
    BY <1>3, <1>7, <1>9 DEF Informed, Log
<1>15. req'[r] = x
    BY <1>2, <1>6, <1>7, OneSteps
<1>16. Request(r, req[r])'
    BY <1>10, <1>11, <1>12, <1>13, <1>14, <1>15 DEF Request
<1> QED
    BY <1>1, <1>3, <1>6, <1>7, <1>8, <1>16, InvKept DEF SamePlace

LEMMA TakeLoadedInv ==
    ASSUME RegistryInv, NEW r \in Requests, TakeLoaded(r)
    PROVE  RegistryInv'
<1>1. PICK q \in Req : q = req[r]
    BY RequestIs
<1>2. Request(r, q) /\ Types /\ Tables /\ ObjectsOk
    BY <1>1, RequestIs
<1>3. /\ q.pc = "held" /\ q.phase = "serve" /\ objs' = Loaded(q.obj)
      /\ UNCHANGED <<rows, cache, now, told>>
    BY <1>1 DEF TakeLoaded
<1>4. q.obj \in DOMAIN objs /\ q.obj[3] = q.stream /\ q.stream \in Streams /\ q.host \in Instances
    BY <1>2, <1>3 DEF Request, Store, Task, Req, Holding
<1> DEFINE n == Len(Log(q.stream))
<1>5. PICK x : x = [q EXCEPT !.pc = "acting", !.expected = n]
    OBVIOUS
<1>6. Step(r, x)
    BY <1>1, <1>5 DEF TakeLoaded
<1>7. n \in Nat
    BY <1>2, <1>4, LogTypes
<1> HIDE DEF n
<1>8. x \in Req
    <2>1. x = SetExpected(SetPc(q, "acting"), n)
        BY <1>5 DEF SetExpected, SetPc
    <2> QED
        BY <1>7, <2>1, FieldsSet, PlacesAre
<1>9. x.pc = "acting" /\ x.obj = q.obj /\ SameTask(x, q) /\ SamePlace(x, q)
    BY <1>5 DEF Req, SameTask, SamePlace
<1>10. ObjectsKept(r) /\ DOMAIN objs' = DOMAIN objs /\ objs'[q.obj].seen = Len(Log(q.stream))
    BY <1>2, <1>3, <1>4, ObjectsLoaded
<1>11. Task(x)'
    BY <1>2, <1>3, <1>9 DEF Request, Task, SameTask, SamePlace, Seeking, Holding
<1>12. Store(r, x)'
    BY <1>2, <1>3, <1>9, <1>10 DEF Request, Store, SameTask, SamePlace, Holding
<1>13. Builds(r, x)'
    BY <1>2, <1>3, <1>9, <1>10 DEF Request, Builds, SameTask, SamePlace, Seeking
<1>14. Scoped(x)'
    BY <1>2, <1>3, <1>9 DEF Request, Scoped, InScope, Log, SameTask, SamePlace, Seeking
<1>15. Informed(x)'
    BY <1>2, <1>3, <1>9, <1>10 DEF Request, Informed, Log, SameTask, SamePlace
<1>16. req'[r] = x
    BY <1>2, <1>6, <1>8, OneSteps
<1>17. Request(r, req[r])'
    BY <1>11, <1>12, <1>13, <1>14, <1>15, <1>16 DEF Request
<1> QED
    BY <1>1, <1>3, <1>6, <1>8, <1>9, <1>10, <1>17, InvKept DEF SamePlace

-----------------------------------------------------------------------------
(* Requests that look at all imported streams.                              *)

LEMMA ScopedAreCsb ==
    ASSUME RegistryInv, NEW g \in Registries, IsCsb(g)
    PROVE  StreamsByScope(g) \subseteq CsbStreams /\ \A s \in StreamsByScope(g) : InScope(s, g)
<1> SUFFICES ASSUME NEW s \in StreamsByScope(g)
             PROVE  s \in CsbStreams /\ InScope(s, g)
    OBVIOUS
<1>1. s \in Streams /\ rows[s].scope = ScopeOf(g) /\ InScope(s, g)
    BY DEF StreamsByScope, InScope
<1>2. ScopeOf(g) # None /\ ScopeOf(g) # "PoliticalGroup"
    BY ScopesDiffer
<1> QED
    BY <1>1, <1>2 DEF RegistryInv, Tables, RowsOk, Streams

LEMMA ScanInv ==
    ASSUME RegistryInv, NEW r \in Requests, Scan(r)
    PROVE  RegistryInv'
<1>1. PICK q \in Req : q = req[r]
    BY RequestIs
<1>2. Request(r, q) /\ Types /\ Tables /\ ObjectsOk
    BY <1>1, RequestIs
<1>3. q.pc = "scan" /\ UNCHANGED <<rows, cache, objs, now, told>>
    BY <1>1 DEF Scan
<1>4. q.phase = "scan" /\ IsCsb(q.reg) /\ q.reg \in Registries /\ q.obj = None
    BY <1>2, <1>3 DEF Request, Task, IsCsb, Registries
<1> DEFINE d == StreamsByScope(q.reg)
           x == [q EXCEPT !.pc = "next", !.todo = d]
<1>5. Step(r, x)
    BY <1>1 DEF Scan
<1>6. d \subseteq CsbStreams /\ \A s \in d : InScope(s, q.reg)
    BY <1>4, ScopedAreCsb
<1> HIDE DEF d
<1>7. x \in Req
    <2>1. x = SetTodo(SetPc(q, "next"), d)
        BY DEF SetTodo, SetPc
    <2> QED
        BY <1>6, <2>1, FieldsSet, PlacesAre
<1>8. /\ x.pc = "next" /\ x.todo = d /\ x.obj = q.obj /\ x.phase = q.phase /\ x.reg = q.reg
      /\ x.stream = q.stream /\ x.floor = q.floor /\ SameTask(x, q)
    BY DEF Req, SameTask
<1> HIDE DEF x
<1>9. Task(x)
    BY <1>2, <1>3, <1>8 DEF Request, Task, SameTask, Seeking, Holding
<1>10. Store(r, x)
    BY <1>8 DEF Store, Holding
<1>11. Builds(r, x)
    BY <1>2, <1>3, <1>4, <1>8 DEF Request, Builds
<1>12. Scoped(x)
    BY <1>4, <1>6, <1>8 DEF Scoped
<1>13. Informed(x)
    BY <1>2, <1>4, <1>8 DEF Request, Informed, Task
<1>14. ObjectsKept(r) /\ Survives(x.obj)
    BY <1>2, <1>3, ObjectsUnchanged DEF Survives
<1> QED
    BY <1>1, <1>3, <1>4, <1>5, <1>7, <1>8, <1>9, <1>10, <1>11, <1>12, <1>13, <1>14, InvStep DEF Request

LEMMA ScanNextInv ==
    ASSUME RegistryInv, NEW r \in Requests, NEW s \in CsbStreams, ScanNext(r, s)
    PROVE  RegistryInv'
<1>1. PICK q \in Req : q = req[r]
    BY RequestIs
<1>2. Request(r, q) /\ Types /\ Tables /\ ObjectsOk
    BY <1>1, RequestIs
<1>3. q.pc = "next" /\ s \in q.todo /\ UNCHANGED <<rows, cache, objs, now, told>>
    BY <1>1 DEF ScanNext
<1>4. q.phase = "scan" /\ IsCsb(q.reg) /\ q.reg \in Registries /\ q.obj = None
    BY <1>2, <1>3 DEF Request, Task, IsCsb, Registries
<1> DEFINE d == q.todo \ {s}
           x == [q EXCEPT !.pc = "lookup", !.stream = s, !.todo = d]
<1>5. Step(r, x)
    BY <1>1 DEF ScanNext
<1>6. d \subseteq CsbStreams /\ (\A c \in d : InScope(c, q.reg)) /\ InScope(s, q.reg)
    BY <1>2, <1>3, <1>4 DEF Req, Request, Scoped
<1>7. x \in Req
    <2>0. d \in SUBSET CsbStreams /\ s \in Streams
        BY <1>6 DEF Streams
    <2> HIDE DEF d
    <2>1. x = SetTodo(SetStream(SetPc(q, "lookup"), s), d)
        BY DEF SetTodo, SetPc, SetStream
    <2> HIDE DEF x
    <2> QED
        BY <2>0, <2>1, FieldsSet, PlacesAre
<1> HIDE DEF d
<1>8. /\ x.pc = "lookup" /\ x.todo = d /\ x.obj = q.obj /\ x.phase = q.phase /\ x.reg = q.reg
      /\ x.stream = s /\ x.floor = q.floor /\ SameTask(x, q)
    BY DEF Req, SameTask
<1> HIDE DEF x
<1>9. Task(x)
    BY <1>2, <1>3, <1>4, <1>8 DEF Request, Task, SameTask, Seeking, Holding, Streams, d
<1>10. Store(r, x)
    BY <1>8 DEF Store, Holding
<1>11. Builds(r, x)
    BY <1>2, <1>3, <1>4, <1>8 DEF Request, Builds, d
<1>12. Scoped(x)
    BY <1>4, <1>6, <1>8 DEF Scoped
<1>13. Informed(x)
    BY <1>2, <1>4, <1>8 DEF Request, Informed, Task
<1>14. ObjectsKept(r) /\ Survives(x.obj)
    BY <1>2, <1>3, ObjectsUnchanged DEF Survives
<1> QED
    BY <1>1, <1>3, <1>4, <1>5, <1>7, <1>8, <1>9, <1>10, <1>11, <1>12, <1>13, <1>14, InvStep DEF Request

LEMMA InspectInv ==
    ASSUME RegistryInv, NEW r \in Requests, Inspect(r)
    PROVE  RegistryInv'
<1>1. PICK q \in Req : q = req[r]
    BY RequestIs
<1>2. Request(r, q) /\ Types /\ Tables /\ ObjectsOk
    BY <1>1, RequestIs
<1>3. /\ q.pc = "held" /\ q.phase = "scan" /\ Stores(objs)
      /\ UNCHANGED <<rows, cache, now, told>>
    BY <1>1 DEF Inspect
<1> DEFINE x == Now(q, "next", None)
<1>4. CASE Step(r, x)
    <2>1. x \in Req /\ x.pc = "next" /\ x.obj = None /\ SameTask(x, q) /\ SamePlace(x, q)
        BY PlacesAre, NowIs DEF ObjectsOrNone
    <2> HIDE DEF x
    <2>2. ObjectsKept(r) /\ Survives(x.obj)
        BY <1>2, <1>3, <1>4, <2>1, ObjectsDroppedOnly
    <2>3. Task(x)
        BY <1>2, <1>3, <2>1 DEF Request, Task, SameTask, SamePlace, Seeking, Holding
    <2>4. Store(r, x)
        BY <2>1 DEF Store, Holding
    <2>5. Builds(r, x)
        BY <1>2, <1>3, <2>1 DEF Request, Builds, SamePlace, Seeking
    <2>6. Scoped(x)
        BY <1>2, <1>3, <2>1 DEF Request, Scoped, SamePlace
    <2>7. Informed(x)
        BY <1>2, <1>3, <2>1 DEF Request, Informed, Task, SamePlace
    <2> QED
        BY <1>1, <1>3, <1>4, <2>1, <2>2, <2>3, <2>4, <2>5, <2>6, <2>7, InvStep DEF Request, SamePlace
<1>5. CASE Answer(r, "AlreadyImported")
    BY <1>3, <1>5, InvAnsweredOnly DEF Answers
<1> QED
    BY <1>1, <1>4, <1>5 DEF Inspect, Now

LEMMA ScanDoneInv ==
    ASSUME RegistryInv, NEW r \in Requests, ScanDone(r)
    PROVE  RegistryInv'
<1>1. PICK q \in Req : q = req[r]
    BY RequestIs
<1>2. Request(r, q) /\ Types /\ Tables /\ ObjectsOk
    BY <1>1, RequestIs
<1>3. /\ q.pc = "next" /\ q.phase = "scan" /\ IsCsb(q.reg) /\ q.obj = None
      /\ q.op \in {"import", "overview"} /\ UNCHANGED <<rows, cache, objs, now, told>>
    BY <1>1, <1>2 DEF ScanDone, AfterScan, Request, Task
<1>4. ObjectsKept(r)
    BY <1>2, <1>3, ObjectsUnchanged
<1> DEFINE x == [q EXCEPT !.pc = "lookup", !.phase = "source", !.reg = "pg",
                          !.stream = q.src, !.todo = {}]
<1>5. CASE q.op # "overview" /\ Step(r, x)
    <2>0. q.op = "import" /\ q.src \in PgStreams /\ IsCsb(q.into)
        BY <1>2, <1>3, <1>5 DEF Request, Task
    <2>1. x \in Req
        <3>1. x = SetTodo(SetStream(SetReg(SetPhase(SetPc(q, "lookup"), "source"), "pg"),
                                    q.src), {})
            BY DEF SetTodo, SetStream, SetReg, SetPhase, SetPc
        <3>2. q.src \in Streams
            BY <2>0 DEF Streams
        <3> HIDE DEF x
        <3> QED
            BY <3>1, <3>2, FieldsSet, PlacesAre DEF Phases, Registries
    <2>2. /\ x.pc = "lookup" /\ x.todo = {} /\ x.obj = q.obj /\ x.phase = "source"
          /\ x.reg = "pg" /\ x.stream = q.src /\ x.floor = q.floor /\ SameTask(x, q)
        BY DEF Req, SameTask
    <2> HIDE DEF x
    <2>3. Task(x)
        BY <1>2, <1>3, <2>0, <2>2, PhasesAre
           DEF Request, Task, SameTask, Seeking, Holding, Streams, Registries
    <2>4. Store(r, x)
        BY <2>2 DEF Store, Holding
    <2>5. Builds(r, x)
        <3>1. \A o \in DOMAIN objs : o[1] = r => o[2] = q.reg
            BY <1>2, <1>3 DEF Request, Builds
        <3>2. q.reg # "pg"
            BY <1>3 DEF IsCsb
        <3>3. \A o \in DOMAIN objs : o[1] = r => o # <<r, "pg", q.src>>
            BY <3>1, <3>2
        <3> QED
            BY <2>2, <3>3 DEF Builds
    <2>6. Scoped(x)
        BY <2>2 DEF Scoped
    <2>7. Informed(x)
        BY <1>2, <1>3, <2>2 DEF Request, Informed, Task
    <2>8. Survives(x.obj)
        BY <1>3 DEF Survives
    <2> QED
        BY <1>3, <1>4, <1>5, <2>1, <2>2, <2>3, <2>4, <2>5, <2>6, <2>7, <2>8, InvStep DEF Request
<1>6. CASE Answer(r, "Shown")
    BY <1>3, <1>4, <1>6, InvAnswered DEF Answers
<1> QED
    BY <1>1, <1>5, <1>6 DEF ScanDone, AfterScan

(* A stream that nobody has yet has no store.                               *)
LEMMA FreshHasNone ==
    ASSUME Types, ObjectsOk, NEW s, rows[s] = NoRow, NEW o \in DOMAIN objs
    PROVE  o[3] # s
<1>1. o[2] \in Registries /\ rows[o[3]].scope = ScopeOf(o[2])
    BY SeenTypes, ObjectParts DEF ObjectsOk
<1> QED
    BY <1>1, ScopesDiffer DEF NoRow

LEMMA TakeSnapshotInv ==
    ASSUME RegistryInv, NEW r \in Requests, NEW fresh \in CsbStreams, TakeSnapshot(r, fresh)
    PROVE  RegistryInv'
<1>1. PICK q \in Req : q = req[r]
    BY RequestIs
<1>2. Request(r, q) /\ Types /\ Tables /\ ObjectsOk
    BY <1>1, RequestIs
<1> DEFINE new == Loaded(q.obj)
<1>3. /\ q.pc = "held" /\ q.phase = "source" /\ IsFresh(fresh) /\ Stores(new)
      /\ UNCHANGED <<rows, cache, now, told>>
    BY <1>1 DEF TakeSnapshot, Snapshot
<1>4. /\ q.obj \in DOMAIN objs /\ IsCsb(q.into) /\ q.into \in Registries /\ q.op = "import"
      /\ q.floor = {}
    BY <1>2, <1>3 DEF Request, Store, Task, Holding, IsCsb, Registries
<1>5. /\ DOMAIN new = DOMAIN objs
      /\ \A p \in DOMAIN objs : /\ new[p] \in StoreSet /\ new[p].key = objs[p].key
                                /\ objs[p].seen <= new[p].seen /\ new[p].seen <= Len(Log(p[3]))
    BY <1>2, <1>4, LoadedIs
<1> HIDE DEF new
<1> DEFINE x == [q EXCEPT !.pc = "lookup", !.phase = "target", !.reg = q.into,
                          !.stream = fresh, !.obj = None]
<1>6. CASE Step(r, x)
    <2>1. x \in Req
        <3>1. x = SetObj(SetStream(SetReg(SetPhase(SetPc(q, "lookup"), "target"), q.into),
                                   fresh), None)
            BY DEF SetObj, SetStream, SetReg, SetPhase, SetPc
        <3>2. fresh \in Streams \cup {None} /\ q.into \in Registries \cup {None} /\ None \in ObjectsOrNone
            BY <1>4 DEF Streams, ObjectsOrNone
        <3> HIDE DEF x
        <3> QED
            BY <3>1, <3>2, FieldsSet, PlacesAre DEF Phases
    <2>2. /\ x.pc = "lookup" /\ x.todo = q.todo /\ x.obj = None /\ x.phase = "target"
          /\ x.reg = q.into /\ x.stream = fresh /\ x.floor = q.floor /\ SameTask(x, q)
        BY DEF Req, SameTask
    <2> HIDE DEF x
    <2>3. Task(x)
        BY <1>2, <1>3, <1>4, <2>2, PhasesAre DEF Task, SameTask, Seeking, Holding, Streams
    <2>4. Store(r, x)
        BY <2>2 DEF Store, Holding
    <2>5. Builds(r, x)
        <3>1. \A o \in DOMAIN objs : o # <<r, q.into, fresh>>
            BY <1>2, <1>3, FreshHasNone DEF IsFresh
        <3> QED
            BY <2>2, <3>1 DEF Builds
    <2>6. Scoped(x)
        BY <1>3, <2>2 DEF Scoped, IsFresh
    <2>7. Informed(x)
        BY <1>4, <2>2 DEF Informed
    <2>8. ObjectsKept(r) /\ Survives(x.obj)
        BY <1>2, <1>3, <1>5, <1>6, <2>1, ObjectsDropped
    <2>9. \A p \in Requests : req[p].stream # x.stream
        BY <1>3, <2>2 DEF IsFresh
    <2> QED
        BY <1>3, <1>6, <2>1, <2>3, <2>4, <2>5, <2>6, <2>7, <2>8, <2>9, InvStep DEF Request
<1>7. CASE Answer(r, "NotFound")
    BY <1>3, <1>5, <1>7, InvAnsweredDropped DEF Answers
<1> QED
    BY <1>1, <1>6, <1>7 DEF TakeSnapshot, Snapshot

-----------------------------------------------------------------------------
(* Requests that arrive.                                                    *)

LEMMA IdleIs ==
    ASSUME RegistryInv, NEW r \in Requests, NEW op, NEW y, Arrived(r, op, y)
    PROVE  /\ req[r].pc = "idle" /\ op \in Ops /\ Step(r, [y EXCEPT !.op = op])
           /\ UNCHANGED <<rows, cache, objs, now, told>>
           /\ req[r].obj = None /\ req[r].wrote = 0 /\ req[r].src = None /\ req[r].floor = {}
           /\ req[r].todo = {} /\ req[r].host \in Instances
           /\ \A o \in DOMAIN objs : o[1] # r
           /\ ObjectsKept(r)
<1>1. req[r] \in Req /\ Request(r, req[r]) /\ Types /\ ObjectsOk
    BY RequestIs
<1>2. /\ req[r].pc = "idle" /\ op \in req[r].ops /\ Step(r, [y EXCEPT !.op = op])
      /\ UNCHANGED <<rows, cache, objs, now, told>>
    BY DEF Arrived
<1>3. op \in Ops /\ req[r].host \in Instances
    BY <1>1, <1>2 DEF Req
<1>4. req[r].obj = None /\ req[r].wrote = 0 /\ req[r].src = None /\ req[r].floor = {}
      /\ req[r].todo = {}
    BY <1>1, <1>2 DEF Request, Task
<1>5. \A o \in DOMAIN objs : o[1] # r
    BY <1>1, <1>2 DEF Request, Builds
<1>6. ObjectsKept(r)
    BY <1>1, <1>2, ObjectsUnchanged
<1> QED
    BY <1>2, <1>3, <1>4, <1>5, <1>6

LEMMA FloorIs ==
    ASSUME RegistryInv, NEW i \in Instances, NEW g \in Registries, NEW s \in Streams
    PROVE  /\ Floor(i, g, s) \in SUBSET Nat
           /\ \A n \in Floor(i, g, s) : n <= Len(Log(s)) /\ (IsCsb(g) => n = told[i][s])
<1>1. \A j \in Instances : told[j][s] \in Nat /\ told[j][s] <= Len(Log(s))
    BY DEF RegistryInv, Types, Tables, ToldOk
<1> QED
    BY <1>1 DEF Floor, IsCsb

LEMMA ServeInv ==
    ASSUME RegistryInv, NEW r \in Requests, NEW op, NEW g \in Registries, NEW s \in Streams,
           Serve(r, op, g, s),
           \/ op \in {"visit", "login", "logout"} /\ g = "pg" /\ s \in PgStreams
           \/ op \in {"examine", "paper"} /\ IsCsb(g) /\ s \in CsbStreams
    PROVE  RegistryInv'
<1>1. PICK q \in Req : q = req[r]
    BY RequestIs
<1>2. Request(r, q) /\ Types /\ Tables /\ ObjectsOk
    BY <1>1, RequestIs
<1> DEFINE f == Floor(q.host, g, s)
           y == [q EXCEPT !.pc = "lookup", !.phase = "serve", !.reg = g, !.stream = s,
                          !.floor = f]
           x == [y EXCEPT !.op = op]
<1>3. Arrived(r, op, y)
    BY <1>1 DEF Serve
<1>4. /\ q.pc = "idle" /\ op \in Ops /\ Step(r, x) /\ UNCHANGED <<rows, cache, objs, now, told>>
      /\ q.obj = None /\ q.wrote = 0 /\ q.src = None /\ q.host \in Instances
      /\ (\A o \in DOMAIN objs : o[1] # r) /\ ObjectsKept(r)
    BY <1>1, <1>3, IdleIs
<1>5. /\ f \in SUBSET Nat
      /\ \A n \in f : n <= Len(Log(s)) /\ (IsCsb(g) => n = told[q.host][s])
    BY <1>4, FloorIs
<1>a. told[q.host][s] \in Nat
    BY <1>2, <1>4 DEF Types
<1> HIDE DEF f
<1>6. x \in Req
    <2>1. x = SetOp(SetFloor(SetStream(SetReg(SetPhase(SetPc(q, "lookup"), "serve"), g), s), f), op)
        BY DEF SetOp, SetFloor, SetStream, SetReg, SetPhase, SetPc
    <2> HIDE DEF x
    <2> QED
        BY <1>4, <1>5, <2>1, FieldsSet, PlacesAre, PhasesAre
<1>7. /\ x.pc = "lookup" /\ x.obj = q.obj /\ x.phase = "serve" /\ x.host = q.host
      /\ x.reg = g /\ x.stream = s /\ x.floor = f /\ x.op = op
    BY DEF Req
<1> HIDE DEF x
<1>8. Task(x)
    BY <1>4, <1>7, PhasesAre DEF Task, Seeking, Holding, IsCsb
<1>9. Store(r, x)
    BY <1>7 DEF Store, Holding
<1>10. Builds(r, x)
    BY <1>4 DEF Builds
<1>11. Scoped(x)
    BY <1>7 DEF Scoped
<1>12. Informed(x)
    BY <1>5, <1>7, <1>a DEF Informed
<1>13. Survives(x.obj)
    BY <1>4 DEF Survives
<1> QED
    BY <1>4, <1>6, <1>7, <1>8, <1>9, <1>10, <1>11, <1>12, <1>13, InvStep DEF Request

LEMMA OverviewInv ==
    ASSUME RegistryInv, NEW r \in Requests, NEW g \in {"csb", "pre"}, Overview(r, g)
    PROVE  RegistryInv'
<1>1. PICK q \in Req : q = req[r]
    BY RequestIs
<1> DEFINE y == [q EXCEPT !.pc = "scan", !.phase = "scan", !.reg = g]
           x == [y EXCEPT !.op = "overview"]
<1>3. Arrived(r, "overview", y)
    BY <1>1 DEF Overview
<1>4. /\ "overview" \in Ops /\ Step(r, x) /\ UNCHANGED <<rows, cache, objs, now, told>>
      /\ q.obj = None /\ q.floor = {} /\ q.todo = {}
      /\ (\A o \in DOMAIN objs : o[1] # r) /\ ObjectsKept(r)
    BY <1>1, <1>3, IdleIs
<1>5. x \in Req
    <2>1. x = SetOp(SetReg(SetPhase(SetPc(q, "scan"), "scan"), g), "overview")
        BY DEF SetOp, SetReg, SetPhase, SetPc
    <2>2. g \in Registries \cup {None}
        BY DEF Registries
    <2> HIDE DEF x
    <2> QED
        BY <1>4, <2>1, <2>2, FieldsSet, PlacesAre, PhasesAre
<1>6. /\ x.pc = "scan" /\ x.obj = q.obj /\ x.phase = "scan" /\ x.reg = g /\ x.floor = q.floor
      /\ x.op = "overview" /\ x.todo = q.todo
    BY DEF Req
<1> HIDE DEF x
<1>7. Task(x)
    BY <1>4, <1>6, PhasesAre DEF Task, Seeking, Holding, IsCsb
<1>8. Store(r, x)
    BY <1>6 DEF Store, Holding
<1>9. Builds(r, x)
    BY <1>4 DEF Builds
<1>10. Scoped(x)
    BY <1>4, <1>6 DEF Scoped
<1>11. Informed(x)
    BY <1>4, <1>6 DEF Informed
<1>12. Survives(x.obj)
    BY <1>4 DEF Survives
<1> QED
    BY <1>4, <1>5, <1>6, <1>7, <1>8, <1>9, <1>10, <1>11, <1>12, InvStep DEF Request

LEMMA CreateEmptyInv ==
    ASSUME RegistryInv, NEW r \in Requests, NEW s \in CsbStreams, CreateEmpty(r, s)
    PROVE  RegistryInv'
<1>1. PICK q \in Req : q = req[r]
    BY RequestIs
<1> DEFINE y == [q EXCEPT !.pc = "lookup", !.phase = "target", !.reg = "csb", !.stream = s]
           x == [y EXCEPT !.op = "create"]
<1>3. Arrived(r, "create", y) /\ IsFresh(s)
    BY <1>1 DEF CreateEmpty
<1>4. /\ "create" \in Ops /\ Step(r, x) /\ UNCHANGED <<rows, cache, objs, now, told>>
      /\ q.obj = None /\ q.floor = {} /\ q.todo = {}
      /\ (\A o \in DOMAIN objs : o[1] # r) /\ ObjectsKept(r)
    BY <1>1, <1>3, IdleIs
<1>5. x \in Req
    <2>1. x = SetOp(SetStream(SetReg(SetPhase(SetPc(q, "lookup"), "target"), "csb"), s), "create")
        BY DEF SetOp, SetReg, SetPhase, SetPc, SetStream
    <2>2. "csb" \in Registries \cup {None} /\ s \in Streams
        BY DEF Registries, Streams
    <2> HIDE DEF x
    <2> QED
        BY <1>4, <2>1, <2>2, FieldsSet, PlacesAre, PhasesAre
<1>6. /\ x.pc = "lookup" /\ x.obj = q.obj /\ x.phase = "target" /\ x.reg = "csb"
      /\ x.floor = q.floor /\ x.op = "create" /\ x.stream = s
    BY DEF Req
<1> HIDE DEF x
<1>7. Task(x)
    BY <1>4, <1>6, PhasesAre DEF Task, Seeking, Holding, IsCsb, Streams, Registries
<1>8. Store(r, x)
    BY <1>6 DEF Store, Holding
<1>9. Builds(r, x)
    BY <1>4 DEF Builds
<1>10. Scoped(x)
    BY <1>3, <1>6 DEF Scoped, IsFresh
<1>11. Informed(x)
    BY <1>4, <1>6 DEF Informed
<1>12. Survives(x.obj)
    BY <1>4 DEF Survives
<1>13. \A p \in Requests : req[p].stream # x.stream
    BY <1>3, <1>6 DEF IsFresh
<1> QED
    BY <1>4, <1>5, <1>7, <1>8, <1>9, <1>10, <1>11, <1>12, <1>13, InvStep DEF Request

LEMMA ImportInv ==
    ASSUME RegistryInv, NEW r \in Requests, NEW g \in {"csb", "pre"}, NEW s \in PgStreams,
           NEW id \in 1..Len(Log(s)), NEW sure \in BOOLEAN, Import(r, g, s, id, sure)
    PROVE  RegistryInv'
<1>1. PICK q \in Req : q = req[r]
    BY RequestIs
<1> DEFINE pc == IF sure THEN "lookup" ELSE "scan"
           ph == IF sure THEN "source" ELSE "scan"
           h == IF sure THEN "pg" ELSE g
           st == IF sure THEN s ELSE None
           b == {c \in StreamsByScope(g) : /\ Log(c)[1].src = s
                                           /\ \E i \in Instances : told[i][c] > 0}
           y == [q EXCEPT !.pc = pc, !.phase = ph, !.reg = h, !.stream = st,
                          !.src = s, !.upto = id, !.into = g, !.sure = sure, !.before = b]
           x == [y EXCEPT !.op = "import"]
<1>2. Arrived(r, "import", y)
    BY <1>1 DEF Import
<1>3. /\ "import" \in Ops /\ Step(r, x) /\ UNCHANGED <<rows, cache, objs, now, told>>
      /\ q.obj = None /\ q.floor = {} /\ q.wrote = 0 /\ q.todo = {}
      /\ (\A o \in DOMAIN objs : o[1] # r) /\ ObjectsKept(r)
    BY <1>1, <1>2, IdleIs
<1>4. g \in Registries /\ IsCsb(g) /\ s \in Streams
    BY DEF Registries, IsCsb, Streams
<1>5. b \in SUBSET CsbStreams
    BY <1>4, ScopedAreCsb
<1>6. id \in Nat
    BY <1>4, RequestIs, LogTypes
<1>7. /\ pc \in Places /\ ph \in Phases \cup {None} /\ h \in Registries \cup {None}
      /\ st \in Streams \cup {None}
    BY <1>4, PlacesAre, PhasesAre DEF Registries
<1>8. \/ sure /\ pc = "lookup" /\ ph = "source" /\ h = "pg" /\ st = s
      \/ ~sure /\ pc = "scan" /\ ph = "scan" /\ h = g /\ st = None
    OBVIOUS
<1> HIDE DEF pc, ph, h, st, b
<1>9. x \in Req
    <2>1. x = SetOp(SetBefore(SetSure(SetInto(SetUpto(SetSrc(SetStream(SetReg(SetPhase(SetPc(q,
                pc), ph), h), st), s), id), g), sure), b), "import")
        BY DEF SetOp, SetBefore, SetSure, SetInto, SetUpto, SetSrc, SetStream, SetReg,
               SetPhase, SetPc
    <2> DEFINE v == SetStream(SetReg(SetPhase(SetPc(q, pc), ph), h), st)
               w == SetInto(SetUpto(SetSrc(v, s), id), g)
    <2>2. v \in Req
        BY <1>7, FieldsSet
    <2> HIDE DEF v
    <2>3. w \in Req
        BY <1>4, <1>6, <2>2, FieldsSet
    <2> HIDE DEF w
    <2>4. SetOp(SetBefore(SetSure(w, sure), b), "import") \in Req
        BY <1>3, <1>5, <2>3, FieldsSet
    <2> HIDE DEF x
    <2> QED
        BY <2>1, <2>4 DEF v, w
<1>10. /\ x.pc = pc /\ x.obj = q.obj /\ x.phase = ph /\ x.reg = h /\ x.stream = st
       /\ x.floor = q.floor /\ x.op = "import" /\ x.src = s /\ x.into = g /\ x.todo = q.todo
    BY DEF Req
<1> HIDE DEF x, y
<1>11. Task(x)
    BY <1>3, <1>4, <1>8, <1>10, PhasesAre DEF Task, Seeking, Holding, IsCsb, Registries
<1>12. Store(r, x)
    BY <1>8, <1>10 DEF Store, Holding
<1>13. Builds(r, x)
    BY <1>3 DEF Builds
<1>14. Scoped(x)
    BY <1>3, <1>8, <1>10 DEF Scoped
<1>15. Informed(x)
    BY <1>3, <1>10 DEF Informed
<1>16. Survives(x.obj)
    BY <1>3 DEF Survives
<1> QED
    BY <1>3, <1>8, <1>9, <1>10, <1>11, <1>12, <1>13, <1>14, <1>15, <1>16, InvStep DEF Request

-----------------------------------------------------------------------------
(* Steps that change the rows or the cache: nothing that a request relies   *)
(* on is taken back.                                                        *)

Grows ==
    /\ \A s \in Streams : /\ Len(Log(s)) <= Len(Log(s)') /\ Len(Log(s)') \in Nat
                          /\ rows[s].scope # None => rows'[s].scope = rows[s].scope
    /\ \A i \in Instances, s \in Streams : told[i][s] <= told'[i][s] /\ told'[i][s] \in Nat
    /\ \A o \in DOMAIN objs : o \in DOMAIN objs' =>
          objs[o].seen <= objs'[o].seen /\ objs'[o].seen \in Nat
    /\ \A i \in Instances, g \in Registries, s \in Streams :
          IsCsb(g) /\ cache[i][g][s] # None => cache'[i][g][s] = cache[i][g][s]

InsertFits(q) ==
    q.pc = "insert" /\ IsCsb(q.reg) =>
        /\ cache[q.host][q.reg][q.stream] = None => told[q.host][q.stream] <= objs[q.obj].seen
        /\ Len(Log(q.stream)) > 0 => objs[q.obj].seen > 0

LEMMA RequestStable ==
    ASSUME Types, ObjectsOk, Grows, NEW q \in Requests, NEW y \in Req, Request(q, y),
           Survives(y.obj), InsertFits(y)',
           \A o \in DOMAIN objs' : o[1] = q => o \in DOMAIN objs,
           y.phase = "target" /\ y.pc \in Seeking => rows'[y.stream] = NoRow
    PROVE  Request(q, y)'
<1>1. Task(y)'
    BY DEF Request, Task
<1>2. Store(q, y)'
    <2>1. y.pc \in {"load", "insert"} \cup Holding => y.obj \in DOMAIN objs /\ y.obj \in DOMAIN objs'
        BY DEF Request, Store, Survives
    <2>2. y.pc \in Holding /\ IsCsb(y.reg) => y.obj = cache'[y.host][y.reg][y.stream]
        <3> SUFFICES ASSUME y.pc \in Holding, IsCsb(y.reg)
                     PROVE  y.obj = cache'[y.host][y.reg][y.stream]
            OBVIOUS
        <3>1. y.host \in Instances /\ y.reg \in Registries /\ y.stream \in Streams
            BY DEF Request, Task, Req
        <3>2. y.obj = cache[y.host][y.reg][y.stream] /\ y.obj \in DOMAIN objs
            BY <2>1 DEF Request, Store
        <3>3. y.obj # None
            BY <3>2, SeenTypes, ObjectParts
        <3> QED
            BY <3>1, <3>2, <3>3 DEF Grows
    <2>3. y.pc \in {"load", "insert"} => y.obj = <<q, y.reg, y.stream>>
        BY DEF Request, Store
    <2>4. y.pc \in Holding => y.obj[2] = y.reg /\ y.obj[3] = y.stream
        BY DEF Request, Store
    <2> QED
        BY <2>1, <2>2, <2>3, <2>4 DEF Store, InsertFits
<1>3. Builds(q, y)'
    BY DEF Request, Builds
<1>4. Scoped(y)'
    <2>1. \A s \in Streams, g \in Registries : InScope(s, g) => InScope(s, g)'
        <3> SUFFICES ASSUME NEW s \in Streams, NEW g \in Registries, InScope(s, g)
                     PROVE  InScope(s, g)'
            OBVIOUS
        <3>1. rows[s].scope = ScopeOf(g) /\ ScopeOf(g) # None /\ Len(Log(s)) > 0 /\ Len(Log(s)) \in Nat
            BY LogTypes, ScopesDiffer DEF InScope
        <3>2. rows'[s].scope = ScopeOf(g) /\ Len(Log(s)) <= Len(Log(s)') /\ Len(Log(s)') \in Nat
            BY <3>1 DEF Grows
        <3> QED
            BY <3>1, <3>2 DEF InScope, Log
    <2>2. y.phase = "scan" => y.reg \in Registries
        BY DEF Request, Task, IsCsb, Registries
    <2>3. y.phase = "scan" => \A s \in y.todo : s \in Streams /\ InScope(s, y.reg)
        BY DEF Request, Scoped, Req, Streams
    <2>4. y.phase = "scan" /\ y.pc \notin {"scan", "next"} => y.stream \in Streams /\ InScope(y.stream, y.reg)
        BY DEF Request, Scoped, Task, Streams
    <2>5. y.phase = "serve" /\ IsCsb(y.reg) /\ y.pc = "build" =>
             y.reg \in Registries /\ y.stream \in Streams /\ InScope(y.stream, y.reg)
        BY DEF Request, Scoped, Task, Seeking
    <2>6. y.phase = "scan" => \A s \in y.todo : InScope(s, y.reg)'
        BY <2>1, <2>2, <2>3
    <2>7. y.phase = "scan" /\ y.pc \notin {"scan", "next"} => InScope(y.stream, y.reg)'
        BY <2>1, <2>2, <2>4
    <2>8. y.phase = "serve" /\ IsCsb(y.reg) /\ y.pc = "build" => InScope(y.stream, y.reg)'
        BY <2>1, <2>5
    <2> QED
        BY <2>6, <2>7, <2>8 DEF Scoped
<1>5. Informed(y)'
    <2> SUFFICES ASSUME NEW n \in y.floor
                 PROVE  /\ n <= Len(Log(y.stream)')
                        /\ IsCsb(y.reg) => n <= told'[y.host][y.stream]
                        /\ y.pc \in {"acting", "checked"} => n <= objs'[y.obj].seen
        BY DEF Informed, Log
    <2>1. n \in Nat /\ y.host \in Instances /\ y.stream \in Streams
        <3>1. y.floor # {} /\ y.floor \in SUBSET Nat /\ y.host \in Instances
            BY DEF Req
        <3>2. y.phase = "serve" /\ y.pc \notin {"idle", "done"}
            BY <3>1 DEF Request, Task
        <3>3. y.op \in {"visit", "login", "logout", "examine", "paper"}
            BY <3>2 DEF Request, Task
        <3>4. y.stream \in Streams
            BY <3>2, <3>3 DEF Request, Task, Streams
        <3> QED
            BY <3>1, <3>4
    <2>2. n <= Len(Log(y.stream)) /\ Len(Log(y.stream)) \in Nat
        BY <2>1, LogTypes DEF Request, Informed
    <2>3. Len(Log(y.stream)) <= Len(Log(y.stream)') /\ Len(Log(y.stream)') \in Nat
        BY <2>1 DEF Grows
    <2>4. IsCsb(y.reg) => n <= told[y.host][y.stream]
        BY DEF Request, Informed
    <2>5. /\ told[y.host][y.stream] <= told'[y.host][y.stream]
          /\ told[y.host][y.stream] \in Nat /\ told'[y.host][y.stream] \in Nat
        BY <2>1 DEF Grows, Types
    <2>6. ASSUME y.pc \in {"acting", "checked"}
          PROVE  n <= objs'[y.obj].seen
        <3>1. y.obj \in DOMAIN objs /\ y.obj \in DOMAIN objs'
            BY <2>6 DEF Request, Store, Survives, Holding
        <3>2. n <= objs[y.obj].seen
            BY <2>6 DEF Request, Informed
        <3>3. /\ objs[y.obj].seen <= objs'[y.obj].seen /\ objs'[y.obj].seen \in Nat
              /\ objs[y.obj].seen \in Nat
            BY <3>1, SeenTypes DEF Grows
        <3> QED
            BY <2>1, <3>2, <3>3
    <2> QED
        BY <2>1, <2>2, <2>3, <2>4, <2>5, <2>6
<1> QED
    BY <1>1, <1>2, <1>3, <1>4, <1>5 DEF Request

LEMMA TickInv ==
    ASSUME RegistryInv, Tick
    PROVE  RegistryInv'
<1>1. Types /\ Tables /\ ObjectsOk /\ OwnTargets /\ now \in Nat
    BY DEF RegistryInv, Tables, Types
<1>2. now' = now + 1 /\ UNCHANGED <<rows, cache, objs, req, told>>
    BY DEF Tick
<1>3. Types'
    <2>1. now' \in Nat
        BY <1>1, <1>2
    <2> QED
        BY <1>1, <1>2, <2>1 DEF Types
<1>4. Tables'
    BY <1>1, <1>2 DEF Tables, RowsOk, ObjectsOk, CacheOk, ToldOk, EmptyHasOne, Log
<1>5. OwnTargets'
    BY <1>1, <1>2 DEF OwnTargets
<1>6. ASSUME NEW q \in Requests
      PROVE  Request(q, req[q])'
    <2>1. ObjectsKept(q)
        BY <1>1, <1>2, ObjectsUnchanged
    <2>2. PICK y \in Req : y = req[q]
        BY <1>1 DEF Types
    <2>3. Request(q, y) /\ Survives(y.obj)
        BY <1>2, <2>2 DEF RegistryInv, Survives
    <2>4. Request(q, y)'
        BY <1>1, <1>2, <2>1, <2>3, RequestKept
    <2> QED
        BY <1>2, <2>2, <2>4
<1> QED
    BY <1>3, <1>4, <1>5, <1>6 DEF RegistryInv

(* The cache changes and stores that nobody holds any more are dropped.     *)
Recaches ==
    /\ UNCHANGED <<rows, now, told>> /\ Stores(objs)
    /\ cache' \in [Instances -> [Registries -> [Streams -> ObjectsOrNone]]]
    /\ req' \in [Requests -> Req]
    /\ \A i \in Instances, g \in Registries, s \in Streams :
         IsCsb(g) /\ cache[i][g][s] # None => cache'[i][g][s] = cache[i][g][s]

LEMMA RecachesKept ==
    ASSUME Types, ObjectsOk, Recaches
    PROVE  /\ DOMAIN objs' \subseteq DOMAIN objs
           /\ \A o \in DOMAIN objs' : objs'[o] = objs[o]
           /\ \A q \in Requests : Survives(req'[q].obj)
           /\ \A i \in Instances, g \in Registries, s \in Streams : Survives(cache'[i][g][s])
           /\ Grows /\ Types'
<1>1. /\ DOMAIN objs' = DOMAIN objs \cap Held'
      /\ \A p \in DOMAIN objs' : objs'[p] = objs[p]
    BY DEF Recaches, Stores
<1>2. \A q \in Requests : req'[q].obj \in Held'
    BY DEF Held
<1>3. \A i \in Instances, g \in Registries, s \in Streams : cache'[i][g][s] \in Held'
    BY DEF Held
<1> HIDE DEF Held
<1>4. \A s \in Streams : Len(Log(s)) \in Nat /\ Log(s)' = Log(s)
    BY LogTypes DEF Recaches, Log
<1>5. \A o \in DOMAIN objs : objs[o].seen \in Nat
    BY SeenTypes
<1>6. \A i \in Instances, s \in Streams : told[i][s] \in Nat
    BY DEF Types
<1>7. Grows
    BY <1>1, <1>4, <1>5, <1>6 DEF Grows, Recaches
<1>8. Types'
    BY <1>1 DEF Types, Recaches
<1> QED
    BY <1>1, <1>2, <1>3, <1>7, <1>8 DEF Survives

LEMMA RecachesTables ==
    ASSUME Types, Tables, Recaches, CacheOk'
    PROVE  Tables'
<1> USE DEF Tables
<1>0. DOMAIN objs' \subseteq DOMAIN objs /\ \A o \in DOMAIN objs' : objs'[o] = objs[o]
    BY RecachesKept
<1>1. RowsOk' /\ ToldOk'
    BY DEF RowsOk, ToldOk, Log, Recaches
<1>2. ObjectsOk'
    BY <1>0 DEF ObjectsOk, Log, Recaches
<1>3. EmptyHasOne'
    BY <1>0 DEF EmptyHasOne, Log, Recaches
<1> QED
    BY <1>1, <1>2, <1>3

LEMMA RecachesRequest ==
    ASSUME Types, ObjectsOk, Recaches, NEW q \in Requests, NEW y \in Req, Request(q, y),
           Survives(y.obj)
    PROVE  Request(q, y)'
<1>1. /\ DOMAIN objs' \subseteq DOMAIN objs /\ (\A o \in DOMAIN objs' : objs'[o] = objs[o])
      /\ Grows
    BY RecachesKept
<1>2. InsertFits(y)'
    <2> SUFFICES ASSUME y.pc = "insert", IsCsb(y.reg)
                 PROVE  /\ cache'[y.host][y.reg][y.stream] = None =>
                              told[y.host][y.stream] <= objs'[y.obj].seen
                        /\ Len(Log(y.stream)) > 0 => objs'[y.obj].seen > 0
        BY DEF InsertFits, Recaches, Log
    <2>1. y.host \in Instances /\ y.reg \in Registries /\ y.stream \in Streams
        BY DEF Request, Task, Req
    <2>2. y.obj \in DOMAIN objs /\ y.obj \in DOMAIN objs'
        BY DEF Request, Store, Survives
    <2>3. cache'[y.host][y.reg][y.stream] = None => cache[y.host][y.reg][y.stream] = None
        BY <2>1 DEF Recaches
    <2> QED
        BY <1>1, <2>2, <2>3 DEF Request, Store
<1>3. y.phase = "target" /\ y.pc \in Seeking => rows'[y.stream] = NoRow
    BY DEF Request, Scoped, Recaches
<1> QED
    BY <1>1, <1>2, <1>3, RequestStable

WithCached(i, h, s, v) == [cache EXCEPT ![i][h][s] = v]

LEMMA CacheSet ==
    ASSUME Types, NEW i \in Instances, NEW h \in Registries, NEW s \in Streams,
           NEW v \in ObjectsOrNone, cache' = WithCached(i, h, s, v)
    PROVE  /\ cache' \in [Instances -> [Registries -> [Streams -> ObjectsOrNone]]]
           /\ \A j \in Instances, g \in Registries, t \in Streams :
                cache'[j][g][t] = IF j = i /\ g = h /\ t = s THEN v ELSE cache[j][g][t]
<1> DEFINE C == [Streams -> ObjectsOrNone]
           B == [Registries -> C]
           c == [cache[i][h] EXCEPT ![s] = v]
           b == [cache[i] EXCEPT ![h] = c]
<1>1. cache \in [Instances -> B] /\ cache[i] \in B /\ cache[i][h] \in C
    BY DEF Types
<1>2. c \in C /\ \A t \in Streams : c[t] = IF t = s THEN v ELSE cache[i][h][t]
    BY <1>1
<1>3. cache' = [cache EXCEPT ![i] = b]
    BY DEF WithCached
<1> HIDE DEF c, C
<1>4. b \in B /\ \A g \in Registries : b[g] = IF g = h THEN c ELSE cache[i][g]
    BY <1>1, <1>2
<1> HIDE DEF b, B
<1>5. cache' \in [Instances -> B] /\ \A j \in Instances : cache'[j] = IF j = i THEN b ELSE cache[j]
    BY <1>1, <1>3, <1>4
<1> QED
    BY <1>2, <1>4, <1>5 DEF B, C

LEMMA PurgeIdleInv ==
    ASSUME RegistryInv, NEW i \in Instances, NEW s \in PgStreams, PurgeIdle(i, s)
    PROVE  RegistryInv'
<1>1. Types /\ Tables /\ ObjectsOk /\ CacheOk /\ OwnTargets /\ s \in Streams
    BY DEF RegistryInv, Tables, Streams
<1>2. cache' = WithCached(i, "pg", s, None) /\ UNCHANGED req
    BY DEF PurgeIdle, WithCached
<1>3. /\ cache' \in [Instances -> [Registries -> [Streams -> ObjectsOrNone]]]
      /\ \A j \in Instances, g \in Registries, t \in Streams :
           cache'[j][g][t] = IF j = i /\ g = "pg" /\ t = s THEN None ELSE cache[j][g][t]
    <2>1. "pg" \in Registries /\ None \in ObjectsOrNone
        BY DEF Registries, ObjectsOrNone
    <2> QED
        BY <1>1, <1>2, <2>1, CacheSet
<1>5. Recaches
    BY <1>1, <1>2, <1>3 DEF Recaches, PurgeIdle, IsCsb, Types
<1>6. /\ \A o \in DOMAIN objs' : objs'[o] = objs[o]
      /\ \A q \in Requests : Survives(req'[q].obj)
      /\ \A j \in Instances, g \in Registries, t \in Streams : Survives(cache'[j][g][t])
      /\ Types'
    BY <1>1, <1>5, RecachesKept
<1>7. CacheOk'
    <2> SUFFICES ASSUME NEW j \in Instances, NEW g \in Registries, NEW t \in Streams,
                        cache'[j][g][t] # None
                 PROVE  /\ cache'[j][g][t] \in DOMAIN objs'
                        /\ cache'[j][g][t][2] = g /\ cache'[j][g][t][3] = t
                        /\ IsCsb(g) => /\ told[j][t] <= objs'[cache'[j][g][t]].seen
                                       /\ Len(Log(t)) > 0 => objs'[cache'[j][g][t]].seen > 0
        BY <1>5 DEF CacheOk, Log, Recaches
    <2>1. cache'[j][g][t] = cache[j][g][t]
        BY <1>3
    <2>2. PICK o : o = cache[j][g][t]
        OBVIOUS
    <2>3. /\ o \in DOMAIN objs /\ o[2] = g /\ o[3] = t
          /\ IsCsb(g) => told[j][t] <= objs[o].seen /\ (Len(Log(t)) > 0 => objs[o].seen > 0)
        BY <1>1, <2>1, <2>2 DEF CacheOk
    <2>4. o \in DOMAIN objs' /\ objs'[o] = objs[o]
        BY <1>6, <2>1, <2>2, <2>3 DEF Survives
    <2> QED
        BY <2>1, <2>2, <2>3, <2>4
<1>8. Tables'
    BY <1>1, <1>5, <1>7, RecachesTables
<1>9. OwnTargets'
    BY <1>1, <1>2 DEF OwnTargets
<1>10. ASSUME NEW q \in Requests
       PROVE  Request(q, req[q])'
    <2>1. PICK y \in Req : y = req[q]
        BY <1>1 DEF Types
    <2>2. Request(q, y) /\ Survives(y.obj)
        BY <1>2, <1>6, <2>1 DEF RegistryInv
    <2>3. Request(q, y)'
        BY <1>1, <1>5, <2>2, RecachesRequest
    <2> QED
        BY <1>2, <2>1, <2>3
<1> QED
    BY <1>6, <1>8, <1>9, <1>10 DEF RegistryInv

LEMMA InsertInv ==
    ASSUME RegistryInv, NEW r \in Requests, Insert(r)
    PROVE  RegistryInv'
<1>1. PICK q \in Req : q = req[r]
    BY RequestIs
<1>2. Request(r, q) /\ Types /\ Tables /\ ObjectsOk /\ CacheOk /\ OwnTargets
    BY <1>1, RequestIs DEF RegistryInv, Tables
<1>3. q.pc = "insert" /\ UNCHANGED <<rows, now, told>> /\ Stores(objs)
    BY <1>1 DEF Insert
<1>4. /\ q.stream \in Streams /\ q.reg \in Registries /\ q.host \in Instances
      /\ q.obj = <<r, q.reg, q.stream>> /\ q.obj \in DOMAIN objs
      /\ q.obj[2] = q.reg /\ q.obj[3] = q.stream
    BY <1>2, <1>3 DEF Request, Task, Store, Req
<1> DEFINE c == cache[q.host][q.reg][q.stream]
<1>5. PICK kept : kept = IF c = None THEN q.obj ELSE c
    OBVIOUS
<1>6. PICK x : x = Now(q, "held", kept)
    OBVIOUS
<1>7. cache' = WithCached(q.host, q.reg, q.stream, kept) /\ Step(r, x)
    <2>1. Cached(r) = c
        BY <1>1 DEF Cached
    <2> HIDE DEF c
    <2> QED
        BY <1>1, <1>5, <1>6, <2>1 DEF Insert, WithCached, Now
<1>8. /\ kept \in DOMAIN objs /\ kept[2] = q.reg /\ kept[3] = q.stream
      /\ IsCsb(q.reg) => /\ told[q.host][q.stream] <= objs[kept].seen
                         /\ Len(Log(q.stream)) > 0 => objs[kept].seen > 0
    <2>1. CASE c = None
        BY <1>2, <1>3, <1>4, <1>5, <2>1 DEF Request, Store
    <2>2. CASE c # None
        BY <1>2, <1>4, <1>5, <2>2 DEF CacheOk
    <2> QED
        BY <2>1, <2>2
<1>9. kept \in ObjectsOrNone /\ kept # None
    BY <1>2, <1>8, SeenTypes, ObjectParts DEF ObjectsOrNone
<1> HIDE DEF c
<1>10. x \in Req /\ x.pc = "held" /\ x.obj = kept /\ SameTask(x, q) /\ SamePlace(x, q)
    <2>1. "held" \in Places
        BY PlacesAre
    <2> QED
        BY <1>6, <1>9, <2>1, NowIs
<1>11. /\ req' \in [Requests -> Req] /\ req'[r] = x /\ \A p \in Requests \ {r} : req'[p] = req[p]
    BY <1>2, <1>7, <1>10, OneSteps
<1>12. /\ cache' \in [Instances -> [Registries -> [Streams -> ObjectsOrNone]]]
       /\ \A j \in Instances, g \in Registries, t \in Streams :
            cache'[j][g][t] = IF j = q.host /\ g = q.reg /\ t = q.stream THEN kept
                              ELSE cache[j][g][t]
    BY <1>2, <1>4, <1>7, <1>9, CacheSet
<1>13. Recaches
    <2>1. c # None => kept = c
        BY <1>5
    <2> QED
        BY <1>3, <1>11, <1>12, <2>1 DEF Recaches, c
<1>14. /\ DOMAIN objs' \subseteq DOMAIN objs /\ \A o \in DOMAIN objs' : objs'[o] = objs[o]
       /\ \A p \in Requests : Survives(req'[p].obj)
       /\ \A j \in Instances, g \in Registries, t \in Streams : Survives(cache'[j][g][t])
       /\ Types'
    BY <1>2, <1>13, RecachesKept
<1>15. kept \in DOMAIN objs' /\ objs'[kept] = objs[kept]
    BY <1>8, <1>10, <1>11, <1>14 DEF Survives
<1>16. CacheOk'
    <2> SUFFICES ASSUME NEW j \in Instances, NEW g \in Registries, NEW t \in Streams,
                        cache'[j][g][t] # None
                 PROVE  /\ cache'[j][g][t] \in DOMAIN objs'
                        /\ cache'[j][g][t][2] = g /\ cache'[j][g][t][3] = t
                        /\ IsCsb(g) => /\ told[j][t] <= objs'[cache'[j][g][t]].seen
                                       /\ Len(Log(t)) > 0 => objs'[cache'[j][g][t]].seen > 0
        BY <1>3 DEF CacheOk, Log
    <2>1. CASE j = q.host /\ g = q.reg /\ t = q.stream
        <3>1. cache'[j][g][t] = kept
            BY <1>12, <2>1
        <3> QED
            BY <1>8, <1>15, <2>1, <3>1
    <2>2. CASE ~(j = q.host /\ g = q.reg /\ t = q.stream)
        <3>1. cache'[j][g][t] = cache[j][g][t]
            BY <1>12, <2>2
        <3>2. PICK o : o = cache[j][g][t]
            OBVIOUS
        <3>3. /\ o \in DOMAIN objs /\ o[2] = g /\ o[3] = t
              /\ IsCsb(g) => told[j][t] <= objs[o].seen /\ (Len(Log(t)) > 0 => objs[o].seen > 0)
            BY <1>2, <3>1, <3>2 DEF CacheOk
        <3>4. o \in DOMAIN objs' /\ objs'[o] = objs[o]
            BY <1>14, <3>1, <3>2, <3>3 DEF Survives
        <3> QED
            BY <3>1, <3>2, <3>3, <3>4
    <2> QED
        BY <2>1, <2>2
<1>17. Tables'
    BY <1>2, <1>13, <1>16, RecachesTables
<1>18. OwnTargets'
    BY <1>1, <1>2, <1>10, <1>11 DEF OwnTargets, SamePlace
<1>19. ASSUME NEW p \in Requests \ {r}
       PROVE  Request(p, req[p])'
    <2>1. PICK y \in Req : y = req[p]
        BY <1>2 DEF Types
    <2>2. Request(p, y) /\ Survives(y.obj)
        BY <1>11, <1>14, <2>1 DEF RegistryInv
    <2>3. Request(p, y)'
        BY <1>2, <1>13, <2>2, RecachesRequest
    <2> QED
        BY <1>11, <2>1, <2>3
<1>20. Request(r, req[r])'
    <2>1. Task(x)'
        BY <1>2, <1>3, <1>10 DEF Request, Task, SameTask, SamePlace, Seeking, Holding
    <2>2. Store(r, x)'
        <3>1. cache'[q.host][q.reg][q.stream] = kept
            BY <1>4, <1>12
        <3> QED
            BY <1>8, <1>10, <1>15, <3>1 DEF Store, SameTask, SamePlace, Holding
    <2>3. Builds(r, x) /\ Scoped(x) /\ Informed(x)
        BY <1>2, <1>3, <1>10, MovedAlong DEF Seeking, Holding
    <2>4. Builds(r, x)'
        BY <1>14, <2>3 DEF Builds
    <2>5. Scoped(x)'
        BY <1>3, <2>3 DEF Scoped, InScope, Log
    <2>6. Informed(x)'
        BY <1>3, <1>10, <2>3 DEF Informed, Log
    <2> QED
        BY <1>11, <2>1, <2>2, <2>4, <2>5, <2>6 DEF Request
<1> QED
    BY <1>14, <1>17, <1>18, <1>19, <1>20 DEF RegistryInv

-----------------------------------------------------------------------------
(* A store is built: the row of its stream is there from now on, with the   *)
(* scope of the registry.                                                   *)

LEMMA BuildFinds ==
    ASSUME RegistryInv, NEW r \in Requests, NEW q \in Req, q = req[r], q.pc = "build"
    PROVE  /\ q.stream \in Streams /\ q.reg \in Registries
           /\ <<r, q.reg, q.stream>> \in Objects /\ <<r, q.reg, q.stream>> \notin DOMAIN objs
           /\ \/ rows[q.stream] = NoRow /\ (q.stream \in CsbStreams => q.phase = "target")
              \/ /\ rows[q.stream] # NoRow /\ rows[q.stream].scope = ScopeOf(q.reg)
                 /\ rows[q.stream].key # None
                 /\ q.stream \in CsbStreams => Len(Log(q.stream)) > 0
           /\ q.reg = "pg" <=> q.stream \in PgStreams
<1>1. Request(r, q) /\ Types /\ Tables
    BY RequestIs
<1>2. q.stream \in Streams /\ q.reg \in Registries /\ q.phase # None /\ q.phase \in Phases
    BY <1>1 DEF Request, Task, Seeking, Req
<1>3. <<r, q.reg, q.stream>> \in Objects /\ <<r, q.reg, q.stream>> \notin DOMAIN objs
    BY <1>1, <1>2 DEF Request, Builds, Seeking, Objects
<1>4. rows[q.stream] = NoRow \/ (rows[q.stream].key # None /\ rows[q.stream].scope # None)
    BY <1>1, <1>2 DEF Tables, RowsOk
<1>5. ScopeOf(q.reg) # None /\ NoRow.scope = None
    BY <1>2, ScopesDiffer DEF NoRow
<1>6. PgStreams \cap CsbStreams = {}
    BY StreamsAssumption
<1>7. CASE q.phase = "scan" \/ (q.phase = "serve" /\ IsCsb(q.reg))
    <2>1. InScope(q.stream, q.reg) /\ q.stream \in CsbStreams /\ q.reg # "pg"
        BY <1>1, <1>7 DEF Request, Scoped, Task, IsCsb
    <2> QED
        BY <1>2, <1>3, <1>4, <1>5, <1>6, <2>1 DEF InScope
<1>8. CASE q.phase = "target"
    <2>1. rows[q.stream] = NoRow /\ q.stream \in CsbStreams /\ q.reg # "pg"
        BY <1>1, <1>8 DEF Request, Scoped, Task, IsCsb, Seeking
    <2> QED
        BY <1>2, <1>3, <1>6, <1>8, <2>1
<1>9. CASE q.phase = "source" \/ (q.phase = "serve" /\ ~IsCsb(q.reg))
    <2>1. q.reg = "pg" /\ q.stream \in PgStreams
        BY <1>1, <1>9 DEF Request, Task
    <2>2. rows[q.stream].scope \in {None, "PoliticalGroup"} /\ ScopeOf(q.reg) = "PoliticalGroup"
        BY <1>1, <1>2, <2>1, ScopesDiffer DEF Tables, RowsOk
    <2> QED
        BY <1>2, <1>3, <1>4, <1>6, <2>1, <2>2
<1> QED
    BY <1>2, <1>7, <1>8, <1>9 DEF Phases

NewRow(r, g) == [scope |-> ScopeOf(g), key |-> r, log |-> << >>]

LEMMA BuildInv ==
    ASSUME RegistryInv, NEW r \in Requests, Build(r)
    PROVE  RegistryInv'
<1>1. PICK q \in Req : q = req[r]
    BY RequestIs
<1>2. Request(r, q) /\ Types /\ Tables /\ ObjectsOk /\ OwnTargets
    BY <1>1, RequestIs DEF RegistryInv
<1>3. q.pc = "build" /\ UNCHANGED <<cache, now, told>>
    BY <1>1 DEF Build
<1>4. PICK s \in Streams, g \in Registries : s = q.stream /\ g = q.reg
    BY <1>1, <1>3, BuildFinds
<1>5. PICK o : o = <<r, g, s>>
    OBVIOUS
<1>6. /\ o \in Objects /\ o \notin DOMAIN objs /\ o[1] = r /\ o[2] = g /\ o[3] = s
      /\ \/ rows[s] = NoRow /\ (s \in CsbStreams => q.phase = "target")
         \/ /\ rows[s] # NoRow /\ rows[s].scope = ScopeOf(g) /\ rows[s].key # None
            /\ s \in CsbStreams => Len(Log(s)) > 0
      /\ g = "pg" <=> s \in PgStreams
    BY <1>1, <1>3, <1>4, <1>5, BuildFinds
<1>7. PICK w : w = IF rows[s] # NoRow THEN rows[s] ELSE NewRow(r, g)
    OBVIOUS
<1>8. rows' = [rows EXCEPT ![s] = w]
    BY <1>1, <1>4, <1>7 DEF Build, EnsureStream, NewRow
<1>9. /\ w \in RowSet /\ w.scope = ScopeOf(g) /\ w.key # None /\ w.log = Log(s)
      /\ w.key \in Streams \cup Requests
    <2>1. rows[s] \in RowSet /\ ScopeOf(g) \in Scopes
        BY <1>2, LogTypes, ScopesDiffer
    <2>2. CASE rows[s] # NoRow
        BY <1>6, <1>7, <2>1, <2>2 DEF Log, RowSet
    <2>3. CASE rows[s] = NoRow
        <3>1. w = NewRow(r, g) /\ Log(s) = << >>
            BY <1>7, <2>3 DEF Log, NoRow
        <3>2. << >> \in Seq(Entry) /\ r # None
            BY StreamsAssumption
        <3> QED
            BY <2>1, <3>1, <3>2 DEF NewRow, RowSet
    <2> QED
        BY <2>2, <2>3
<1>10. /\ rows' \in [Streams -> RowSet]
       /\ \A t \in Streams : rows'[t] = IF t = s THEN w ELSE rows[t]
    BY <1>2, <1>8, <1>9 DEF Types
<1>11. \A t \in Streams : Log(t)' = Log(t) /\ Len(Log(t)) \in Nat
    BY <1>2, <1>9, <1>10, LogTypes DEF Log
<1>12. /\ DOMAIN objs' = DOMAIN objs \cup {o} /\ objs'[o] = [key |-> w.key, seen |-> 0]
       /\ \A p \in DOMAIN objs : objs'[p] = objs[p]
    <2>1. Object(r) = o
        BY <1>1, <1>4, <1>5 DEF Object
    <2>2. objs' = [p \in DOMAIN objs \cup {o} |->
                     IF p = o THEN [key |-> rows'[s].key, seen |-> 0] ELSE objs[p]]
        BY <1>1, <1>4, <2>1 DEF Build, EnsureStream
    <2>3. rows'[s] = w
        BY <1>10
    <2> QED
        BY <1>6, <2>2, <2>3
<1>13. \A p \in DOMAIN objs : p[3] \in Streams /\ rows'[p[3]].scope = rows[p[3]].scope
                              /\ rows'[p[3]].key = rows[p[3]].key /\ p # o
    <2> SUFFICES ASSUME NEW p \in DOMAIN objs
                 PROVE  p[3] \in Streams /\ rows'[p[3]] = rows[p[3]] /\ p # o
        OBVIOUS
    <2>1. p[3] \in Streams /\ p # o
        BY <1>2, <1>6, SeenTypes
    <2>2. rows[p[3]] # NoRow
        BY <1>2, FreshHasNone
    <2> QED
        BY <1>7, <1>10, <2>1, <2>2
<1>14. PICK x : x = Now(q, "load", o)
    OBVIOUS
<1>15. /\ Step(r, x) /\ x \in Req /\ x.pc = "load" /\ x.obj = o /\ SameTask(x, q) /\ SamePlace(x, q)
    <2>1. "load" \in Places /\ o \in ObjectsOrNone
        BY <1>6, PlacesAre DEF ObjectsOrNone
    <2>2. Step(r, x)
        BY <1>1, <1>4, <1>5, <1>14 DEF Build, Object, Now
    <2> QED
        BY <1>14, <2>1, <2>2, NowIs
<1>16. req' \in [Requests -> Req] /\ req'[r] = x /\ \A p \in Requests \ {r} : req'[p] = req[p]
    BY <1>2, <1>15, OneSteps
<1>17. Types'
    <2>1. objs'[o] \in StoreSet
        BY <1>9, <1>12 DEF StoreSet
    <2> QED
        BY <1>2, <1>3, <1>6, <1>10, <1>12, <1>16, <2>1 DEF Types
<1>18. Tables'
    <2>1. RowsOk'
        <3>1. ScopeOf(g) = "PoliticalGroup" <=> g = "pg"
            BY ScopesDiffer
        <3>2. ScopeOf(g) # None
            BY ScopesDiffer
        <3>3. s \in PgStreams => s \notin CsbStreams
            BY StreamsAssumption
        <3> QED
            BY <1>2, <1>6, <1>9, <1>10, <3>1, <3>2, <3>3 DEF Tables, RowsOk, Streams
    <2>2. ObjectsOk'
        <3>1. ASSUME NEW p \in DOMAIN objs
              PROVE  /\ objs'[p].seen <= Len(Log(p[3])') /\ objs'[p].key = rows'[p[3]].key
                     /\ rows'[p[3]].scope = ScopeOf(p[2])
            BY <1>2, <1>11, <1>12, <1>13 DEF ObjectsOk
        <3>2. /\ objs'[o].seen <= Len(Log(o[3])') /\ objs'[o].key = rows'[o[3]].key
              /\ rows'[o[3]].scope = ScopeOf(o[2])
            BY <1>6, <1>9, <1>10, <1>11, <1>12
        <3> QED
            BY <1>12, <3>1, <3>2 DEF ObjectsOk, Log
    <2>3. CacheOk'
        BY <1>2, <1>3, <1>11, <1>12 DEF Tables, CacheOk
    <2>4. ToldOk'
        BY <1>2, <1>3, <1>11 DEF Tables, ToldOk
    <2>5. EmptyHasOne'
        <3> SUFFICES ASSUME NEW p \in DOMAIN objs', NEW p2 \in DOMAIN objs',
                            p[3] = p2[3], p[3] \in CsbStreams, Len(Log(p[3])') = 0
                     PROVE  p = p2
            BY DEF EmptyHasOne, Log
        <3>1. Len(Log(p[3])) = 0
            BY <1>11 DEF Streams
        <3>2. CASE p \in DOMAIN objs /\ p2 \in DOMAIN objs
            BY <1>2, <3>1, <3>2 DEF Tables, EmptyHasOne
        <3>3. ASSUME NEW u \in DOMAIN objs, u[3] = s, s \in CsbStreams, Len(Log(s)) = 0
              PROVE  FALSE
            <4>1. rows[s] = NoRow
                BY <1>6, <1>11, <3>3
            <4> QED
                BY <1>2, <3>3, <4>1, FreshHasNone
        <3> QED
            BY <1>6, <1>12, <3>1, <3>2, <3>3
    <2> QED
        BY <2>1, <2>2, <2>3, <2>4, <2>5 DEF Tables
<1>19. OwnTargets'
    BY <1>1, <1>2, <1>15, <1>16 DEF OwnTargets, SamePlace
<1>20. Grows
    <2>1. \A t \in Streams : rows[t].scope # None => rows'[t].scope = rows[t].scope
        BY <1>7, <1>10 DEF NoRow
    <2>2. \A p \in DOMAIN objs : objs'[p] = objs[p] /\ objs[p].seen \in Nat
        BY <1>2, <1>12, SeenTypes
    <2>3. \A i \in Instances, t \in Streams : told[i][t] \in Nat
        BY <1>2 DEF Types
    <2> QED
        BY <1>3, <1>11, <2>1, <2>2, <2>3 DEF Grows
<1>21. ASSUME NEW p \in Requests \ {r}
       PROVE  Request(p, req[p])'
    <2>1. PICK y \in Req : y = req[p]
        BY <1>2 DEF Types
    <2>2. Request(p, y) /\ Survives(y.obj)
        BY <1>12, <2>1 DEF RegistryInv, Survives
    <2>3. y.phase = "target" /\ y.pc \in Seeking => rows'[y.stream] = NoRow
        <3> SUFFICES ASSUME y.phase = "target", y.pc \in Seeking
                     PROVE  rows'[y.stream] = NoRow
            OBVIOUS
        <3>1. rows[y.stream] = NoRow /\ y.stream \in CsbStreams
            BY <2>2 DEF Request, Scoped, Task
        <3>2. y.stream # s
            BY <1>1, <1>2, <1>4, <1>6, <2>1, <3>1 DEF OwnTargets
        <3> QED
            BY <1>10, <3>1, <3>2 DEF Streams
    <2>4. InsertFits(y)'
        <3>1. y.pc = "insert" => /\ y.obj \in DOMAIN objs /\ y.stream \in Streams
            BY <2>2 DEF Request, Store, Task
        <3> QED
            BY <1>3, <1>11, <1>12, <2>2, <3>1 DEF InsertFits, Request, Store
    <2>5. \A u \in DOMAIN objs' : u[1] = p => u \in DOMAIN objs
        BY <1>6, <1>12
    <2>6. Request(p, y)'
        BY <1>2, <1>20, <2>2, <2>3, <2>4, <2>5, RequestStable
    <2> QED
        BY <1>16, <2>1, <2>6
<1>22. Request(r, req[r])'
    <2>1. Task(x)'
        BY <1>2, <1>3, <1>15 DEF Request, Task, SameTask, SamePlace, Seeking, Holding
    <2>2. Store(r, x)'
        BY <1>4, <1>5, <1>12, <1>15 DEF Store, SamePlace, Holding
    <2>3. Builds(r, x)'
        <3>1. q.phase = "scan" => s \notin q.todo
            BY <1>2, <1>3, <1>4 DEF Request, Task
        <3> QED
            BY <1>2, <1>3, <1>4, <1>6, <1>12, <1>15, <3>1 DEF Request, Builds, SamePlace, Seeking
    <2>4. Scoped(x)'
        <3>1. \A t \in Streams : InScope(t, g) => InScope(t, g)'
            BY <1>10, <1>11, <1>7, ScopesDiffer DEF InScope, NoRow
        <3>2. q.phase = "scan" => s \in Streams /\ q.todo \subseteq Streams
            BY DEF Req, Streams
        <3>3. x.phase = "scan" => (\A t \in x.todo : InScope(t, x.reg)') /\ InScope(x.stream, x.reg)'
            BY <1>2, <1>3, <1>4, <1>15, <3>1, <3>2 DEF Request, Scoped, SamePlace
        <3> QED
            BY <1>15, <3>3 DEF Scoped, Seeking
    <2>5. Informed(x)'
        <3>1. \A n \in q.floor : n <= Len(Log(s)) /\ (IsCsb(q.reg) => n <= told[q.host][s])
            BY <1>2, <1>4 DEF Request, Informed
        <3> QED
            BY <1>3, <1>4, <1>11, <1>15, <3>1 DEF Informed, SamePlace, SameTask
    <2> QED
        BY <1>16, <2>1, <2>2, <2>3, <2>4, <2>5 DEF Request
<1> QED
    BY <1>17, <1>18, <1>19, <1>21, <1>22 DEF RegistryInv

-----------------------------------------------------------------------------
(* An event is recorded: in the row, in the store, and as told.             *)

LEMMA WriteTypes ==
    ASSUME RegistryInv, NEW r \in Requests, NEW q \in Req, q = req[r], q.pc = "checked"
    PROVE  /\ q.stream \in Streams /\ q.host \in Instances /\ q.reg \in Registries
           /\ q.obj \in DOMAIN objs /\ q.obj[2] = q.reg /\ q.obj[3] = q.stream
           /\ rows[q.stream].scope = ScopeOf(q.reg) /\ rows[q.stream] # NoRow
           /\ IsCsb(q.reg) => q.obj = cache[q.host][q.reg][q.stream]
           /\ Event(q.kind, q.src, q.upto) \in Entry
<1>1. Request(r, q) /\ Types /\ Tables /\ ObjectsOk
    BY RequestIs
<1>2. /\ q.stream \in Streams /\ q.host \in Instances /\ q.reg \in Registries
      /\ q.obj \in DOMAIN objs /\ q.obj[2] = q.reg /\ q.obj[3] = q.stream
      /\ IsCsb(q.reg) => q.obj = cache[q.host][q.reg][q.stream]
    BY <1>1 DEF Request, Task, Store, Req, Holding
<1>3. rows[q.stream].scope = ScopeOf(q.reg) /\ rows[q.stream] # NoRow
    BY <1>1, <1>2, ScopesDiffer DEF ObjectsOk, NoRow
<1>4. q.kind \in Kinds /\ q.src \in PgStreams \cup {None} /\ q.upto \in Nat /\ now \in Nat
    BY <1>1 DEF Request, Task, Req, Types
<1>5. Event(q.kind, q.src, q.upto) \in Entry
    BY <1>4 DEF Event, Entry
<1> QED
    BY <1>2, <1>3, <1>5

(* What the three tables are afterwards.                                    *)
Grown(s, i, o, e) ==
    /\ rows'[s].log = Append(Log(s), e) /\ rows'[s].key = rows[s].key
    /\ rows'[s].scope = rows[s].scope
    /\ Len(Log(s)') = Len(Log(s)) + 1
    /\ \A t \in Streams \ {s} : rows'[t] = rows[t] /\ Log(t)' = Log(t)
    /\ DOMAIN objs' = DOMAIN objs
    /\ objs'[o].seen = Len(Log(s)) + 1 /\ objs'[o].key = objs[o].key
    /\ \A p \in DOMAIN objs \ {o} : objs'[p] = objs[p]
    /\ told'[i][s] = Len(Log(s)) + 1
    /\ \A j \in Instances, t \in Streams : j # i \/ t # s => told'[j][t] = told[j][t]

WithEvent(s, e) == [rows EXCEPT ![s].log = Append(@, e)]
WithSeen(o, n) == [objs EXCEPT ![o].seen = n]
WithTold(i, s, n) == [told EXCEPT ![i][s] = n]

LEMMA RecordedTables ==
    ASSUME Types, NEW s \in Streams, NEW i \in Instances, NEW o \in DOMAIN objs, NEW e \in Entry,
           rows' = WithEvent(s, e), objs' = WithSeen(o, Len(Log(s)) + 1),
           told' = WithTold(i, s, Len(Log(s)) + 1)
    PROVE  /\ Grown(s, i, o, e)
           /\ rows' \in [Streams -> RowSet] /\ told' \in [Instances -> [Streams -> Nat]]
           /\ \A p \in DOMAIN objs' : objs'[p] \in StoreSet
<1> DEFINE n == Len(Log(s)) + 1
           w == [rows[s] EXCEPT !.log = Append(Log(s), e)]
           y == [objs[o] EXCEPT !.seen = n]
           t0 == [told[i] EXCEPT ![s] = n]
<1>1. rows[s] \in RowSet /\ Log(s) \in Seq(Entry) /\ n \in Nat
    BY LogTypes
<1>2. Append(Log(s), e) \in Seq(Entry) /\ Len(Append(Log(s), e)) = n
    BY <1>1
<1>3. w \in RowSet /\ w.log = Append(Log(s), e) /\ w.key = rows[s].key /\ w.scope = rows[s].scope
    BY <1>1, <1>2 DEF RowSet
<1>4. rows' = [rows EXCEPT ![s] = w]
    BY DEF WithEvent, Log
<1> HIDE DEF w
<1>5. /\ rows' \in [Streams -> RowSet] /\ rows'[s] = w
      /\ \A t \in Streams \ {s} : rows'[t] = rows[t] /\ Log(t)' = Log(t)
    BY <1>3, <1>4 DEF Types, Log
<1>6. Len(Log(s)') = n
    BY <1>2, <1>3, <1>5 DEF Log
<1> HIDE DEF n
<1>7. y \in StoreSet /\ y.seen = n /\ y.key = objs[o].key
    BY <1>1 DEF StoreSet, Types
<1>8. objs' = [objs EXCEPT ![o] = y]
    BY DEF WithSeen, n
<1> HIDE DEF y
<1>9. /\ DOMAIN objs' = DOMAIN objs /\ objs'[o] = y
      /\ \A p \in DOMAIN objs \ {o} : objs'[p] = objs[p]
      /\ \A p \in DOMAIN objs' : objs'[p] \in StoreSet
    BY <1>7, <1>8 DEF Types
<1>10. t0 \in [Streams -> Nat] /\ t0[s] = n /\ \A t \in Streams \ {s} : t0[t] = told[i][t]
    BY <1>1 DEF Types
<1>11. told' = [told EXCEPT ![i] = t0]
    BY DEF WithTold, n
<1> HIDE DEF t0
<1>12. /\ told' \in [Instances -> [Streams -> Nat]] /\ told'[i] = t0
       /\ \A j \in Instances \ {i} : told'[j] = told[j]
    BY <1>10, <1>11 DEF Types
<1> QED
    BY <1>3, <1>5, <1>6, <1>7, <1>9, <1>10, <1>12 DEF Grown, n

LEMMA GrownGrows ==
    ASSUME Types, ObjectsOk, ToldOk, UNCHANGED cache,
           NEW s \in Streams, NEW i \in Instances, NEW o \in DOMAIN objs, NEW e,
           o[3] = s, Grown(s, i, o, e)
    PROVE  Grows
<1>1. \A t \in Streams : Len(Log(t)) \in Nat
    BY LogTypes
<1>2. \A p \in DOMAIN objs : objs[p].seen \in Nat /\ objs[p].seen <= Len(Log(p[3]))
    BY SeenTypes
<1>3. \A j \in Instances, t \in Streams : told[j][t] \in Nat /\ told[j][t] <= Len(Log(t))
    BY DEF Types, ToldOk
<1>4. \A t \in Streams : /\ Len(Log(t)) <= Len(Log(t)') /\ Len(Log(t)') \in Nat
                         /\ rows'[t].scope = rows[t].scope
    BY <1>1 DEF Grown
<1>5. \A j \in Instances, t \in Streams : told[j][t] <= told'[j][t] /\ told'[j][t] \in Nat
    BY <1>1, <1>3 DEF Grown
<1>6. \A p \in DOMAIN objs : objs[p].seen <= objs'[p].seen /\ objs'[p].seen \in Nat
    BY <1>1, <1>2 DEF Grown
<1> QED
    BY <1>4, <1>5, <1>6 DEF Grows

LEMMA SameScope ==
    ASSUME Types, ObjectsOk, NEW o \in DOMAIN objs, NEW p \in DOMAIN objs, o[3] = p[3]
    PROVE  o[2] = p[2]
<1>1. o[2] \in Registries /\ p[2] \in Registries
    BY SeenTypes, ObjectParts
<1> QED
    BY <1>1, ScopesDiffer DEF ObjectsOk

(* Who writes the first event of a committee's stream has its only store;   *)
(* what was told in a process is in the store that it uses.                 *)
LEMMA GrownFits ==
    ASSUME Types, Tables, NEW s \in Streams, NEW i \in Instances, NEW o \in DOMAIN objs, NEW e,
           o[3] = s, Grown(s, i, o, e),
           NEW p \in DOMAIN objs, IsCsb(p[2]), Len(Log(p[3])) > 0 => objs[p].seen > 0
    PROVE  /\ Len(Log(p[3])') > 0 => objs'[p].seen > 0
           /\ \A j \in Instances :
                told[j][p[3]] <= objs[p].seen /\ (j = i /\ p[3] = s => p = o)
                  => told'[j][p[3]] <= objs'[p].seen
<1>0. ObjectsOk
    BY DEF Tables
<1>1. /\ p[2] \in Registries /\ p[3] \in Streams
      /\ objs[p].seen \in Nat /\ Len(Log(p[3])) \in Nat /\ Len(Log(s)) \in Nat
    BY <1>0, SeenTypes, ObjectParts, LogTypes
<1>4. objs[p].seen <= objs'[p].seen /\ objs'[p].seen \in Nat
    BY <1>0, <1>1, SeenTypes DEF Grown
<1>5. Len(Log(p[3])') > 0 => objs'[p].seen > 0
    <2>1. CASE p[3] # s
        BY <1>1, <1>4, <2>1 DEF Grown
    <2>2. CASE p = o
        BY <1>1, <2>2 DEF Grown
    <2>3. CASE p[3] = s /\ p # o
        <3>1. p[3] \in CsbStreams
            <4>1. /\ rows[s].scope = ScopeOf(p[2]) /\ ScopeOf(p[2]) # None
                  /\ ScopeOf(p[2]) # "PoliticalGroup"
                BY <1>0, <1>1, <2>3, ScopesDiffer DEF ObjectsOk
            <4> QED
                BY <2>3, <4>1 DEF Tables, RowsOk, Streams
        <3>2. Len(Log(s)) > 0
            BY <1>1, <2>3, <3>1 DEF Tables, EmptyHasOne
        <3> QED
            BY <1>1, <1>4, <2>3, <3>2
    <2> QED
        BY <2>1, <2>2, <2>3
<1>6. ASSUME NEW j \in Instances, told[j][p[3]] <= objs[p].seen, j = i /\ p[3] = s => p = o
      PROVE  told'[j][p[3]] <= objs'[p].seen
    <2>1. CASE j = i /\ p[3] = s
        BY <1>1, <1>6, <2>1 DEF Grown
    <2>2. CASE ~(j = i /\ p[3] = s)
        <3>1. told'[j][p[3]] = told[j][p[3]] /\ told[j][p[3]] \in Nat
            BY <1>1, <2>2 DEF Grown, Types
        <3> QED
            BY <1>1, <1>4, <1>6, <3>1
    <2> QED
        BY <2>1, <2>2
<1> QED
    BY <1>5, <1>6

LEMMA WriteInv ==
    ASSUME RegistryInv, NEW r \in Requests, Write(r)
    PROVE  RegistryInv'
<1>1. PICK q \in Req : q = req[r]
    BY RequestIs
<1>2. Request(r, q) /\ Types /\ Tables /\ ObjectsOk /\ OwnTargets /\ ToldOk /\ CacheOk
    BY <1>1, RequestIs DEF RegistryInv, Tables
<1>3. q.pc = "checked" /\ UNCHANGED <<cache, now>>
    BY <1>1 DEF Write, Recorded
<1>4. PICK s \in Streams, i \in Instances, o \in DOMAIN objs, e \in Entry :
         s = q.stream /\ i = q.host /\ o = q.obj /\ e = Event(q.kind, q.src, q.upto)
    BY <1>1, <1>3, WriteTypes
<1>5. /\ o[2] = q.reg /\ o[3] = s /\ rows[s].scope = ScopeOf(q.reg) /\ rows[s] # NoRow
      /\ q.reg \in Registries
      /\ IsCsb(q.reg) => o = cache[i][q.reg][s]
    BY <1>1, <1>3, <1>4, WriteTypes
<1> DEFINE x == [q EXCEPT !.pc = "acting", !.kind = None, !.wrote = q.wrote + 1,
                          !.expected = q.expected + 1]
<1>6. /\ rows' = WithEvent(s, e) /\ objs' = WithSeen(o, Len(Log(s)) + 1)
      /\ told' = WithTold(i, s, Len(Log(s)) + 1) /\ Step(r, x)
    BY <1>1, <1>4 DEF Write, Recorded, WithEvent, WithSeen, WithTold
<1>7. /\ Grown(s, i, o, e)
      /\ rows' \in [Streams -> RowSet] /\ told' \in [Instances -> [Streams -> Nat]]
      /\ \A p \in DOMAIN objs' : objs'[p] \in StoreSet
    BY <1>2, <1>6, RecordedTables
<1>8. Grows
    BY <1>2, <1>3, <1>5, <1>7, GrownGrows
<1>9. x \in Req
    <2>1. x = SetExpected(SetWrote(SetKind(SetPc(q, "acting"), None), q.wrote + 1), q.expected + 1)
        BY DEF SetExpected, SetWrote, SetKind, SetPc
    <2>2. q.wrote + 1 \in Nat /\ q.expected + 1 \in Nat
        BY DEF Req
    <2> HIDE DEF x
    <2> QED
        BY <2>1, <2>2, FieldsSet, PlacesAre
<1>10. /\ x.pc = "acting" /\ x.obj = q.obj /\ SamePlace(x, q) /\ x.host = q.host /\ x.op = q.op
       /\ x.src = q.src /\ x.into = q.into
    BY DEF Req, SamePlace
<1> HIDE DEF x
<1>11. req' \in [Requests -> Req] /\ req'[r] = x /\ \A p \in Requests \ {r} : req'[p] = req[p]
    BY <1>2, <1>6, <1>9, OneSteps
<1>12. DOMAIN objs' = DOMAIN objs
    BY <1>7 DEF Grown
<1>13. Types'
    BY <1>2, <1>3, <1>7, <1>11, <1>12 DEF Types
<1>14. \A t \in Streams : rows'[t].key = rows[t].key /\ rows'[t].scope = rows[t].scope
    <2>1. rows'[s].key = rows[s].key /\ rows'[s].scope = rows[s].scope
        BY <1>7 DEF Grown
    <2>2. \A t \in Streams \ {s} : rows'[t] = rows[t]
        BY <1>7 DEF Grown
    <2> QED
        BY <2>1, <2>2
<1>15. \A p \in DOMAIN objs : p[2] \in Registries /\ p[3] \in Streams /\ p # None
                              /\ objs[p].seen \in Nat /\ objs[p].seen <= Len(Log(p[3]))
                              /\ Len(Log(p[3])) \in Nat
    BY <1>2, SeenTypes, ObjectParts
<1>16. Tables'
    <2>1. RowsOk'
        <3>1. rows[s].key # None /\ rows[s].scope # None
            BY <1>2, <1>5 DEF Tables, RowsOk
        <3>2. \A t \in Streams \ {s} : rows'[t] = rows[t]
            BY <1>7 DEF Grown
        <3> QED
            BY <1>2, <1>14, <3>1, <3>2 DEF Tables, RowsOk
    <2>2. ObjectsOk'
        <3> SUFFICES ASSUME NEW p \in DOMAIN objs
                     PROVE  /\ objs'[p].seen <= Len(Log(p[3])') /\ objs'[p].key = rows'[p[3]].key
                            /\ rows'[p[3]].scope = ScopeOf(p[2])
            BY <1>12 DEF ObjectsOk, Log
        <3>1. objs'[p].key = objs[p].key
            BY <1>7 DEF Grown
        <3>2. objs'[p].seen <= Len(Log(p[3])')
            <4>1. CASE p = o
                BY <1>5, <1>7, <1>15, <4>1 DEF Grown
            <4>2. CASE p # o
                <5>1. objs'[p].seen = objs[p].seen
                    BY <1>7, <4>2 DEF Grown
                <5>2. Len(Log(p[3])) <= Len(Log(p[3])') /\ Len(Log(p[3])') \in Nat
                    BY <1>8, <1>15 DEF Grows
                <5> QED
                    BY <1>15, <5>1, <5>2
            <4> QED
                BY <4>1, <4>2
        <3>3. objs[p].key = rows[p[3]].key /\ rows[p[3]].scope = ScopeOf(p[2])
            BY <1>2 DEF ObjectsOk
        <3>4. p[3] \in Streams
            BY <1>15
        <3> QED
            BY <1>14, <3>1, <3>2, <3>3, <3>4
    <2>3. CacheOk'
        <3> SUFFICES ASSUME NEW j \in Instances, NEW g \in Registries, NEW t \in Streams,
                            NEW p, p = cache[j][g][t], p # None
                     PROVE  /\ p \in DOMAIN objs' /\ p[2] = g /\ p[3] = t
                            /\ IsCsb(g) => /\ told'[j][t] <= objs'[p].seen
                                           /\ Len(Log(t)') > 0 => objs'[p].seen > 0
            BY <1>3 DEF CacheOk, Log
        <3>1. /\ p \in DOMAIN objs /\ p[2] = g /\ p[3] = t
              /\ IsCsb(g) => told[j][t] <= objs[p].seen /\ (Len(Log(t)) > 0 => objs[p].seen > 0)
            BY <1>2 DEF CacheOk
        <3>2. IsCsb(g) /\ j = i /\ p[3] = s => p = o
            BY <1>2, <1>5, <3>1, SameScope
        <3>3. IsCsb(g) => told'[j][t] <= objs'[p].seen /\ (Len(Log(t)') > 0 => objs'[p].seen > 0)
            BY <1>2, <1>5, <1>7, <3>1, <3>2, GrownFits, ZenonT(40)
        <3> QED
            BY <1>12, <3>1, <3>3
    <2>4. ToldOk'
        <3> SUFFICES ASSUME NEW j \in Instances, NEW t \in Streams
                     PROVE  told'[j][t] <= Len(Log(t)')
            BY DEF ToldOk, Log
        <3>1. told[j][t] \in Nat /\ told[j][t] <= Len(Log(t)) /\ Len(Log(t)) \in Nat
            BY <1>2, LogTypes DEF ToldOk, Types
        <3> QED
            BY <1>7, <3>1, SMTT(40) DEF Grown
    <2>5. EmptyHasOne'
        <3>1. \A p \in DOMAIN objs : Len(Log(p[3])') = 0 => Len(Log(p[3])) = 0
            BY <1>8, <1>15 DEF Grows
        <3> QED
            BY <1>2, <1>12, <3>1 DEF Tables, EmptyHasOne
    <2> QED
        BY <2>1, <2>2, <2>3, <2>4, <2>5 DEF Tables
<1>17. OwnTargets'
    BY <1>1, <1>2, <1>10, <1>11 DEF OwnTargets, SamePlace
<1>18. ASSUME NEW p \in Requests \ {r}
       PROVE  Request(p, req[p])'
    <2>1. PICK y \in Req : y = req[p]
        BY <1>2 DEF Types
    <2>2. Request(p, y) /\ Survives(y.obj)
        BY <1>12, <2>1 DEF RegistryInv, Survives
    <2>3. y.phase = "target" /\ y.pc \in Seeking => rows'[y.stream] = NoRow
        <3> SUFFICES ASSUME y.phase = "target", y.pc \in Seeking
                     PROVE  rows'[y.stream] = NoRow
            OBVIOUS
        <3>1. rows[y.stream] = NoRow /\ y.stream \in CsbStreams
            BY <2>2 DEF Request, Scoped, Task
        <3>2. \A t \in Streams \ {s} : rows'[t] = rows[t]
            BY <1>7 DEF Grown
        <3>3. y.stream \in Streams \ {s}
            BY <1>5, <3>1 DEF Streams
        <3> QED
            BY <3>1, <3>2, <3>3
    <2>4. InsertFits(y)'
        <3> SUFFICES ASSUME y.pc = "insert", IsCsb(y.reg)
                     PROVE  /\ cache[y.host][y.reg][y.stream] = None =>
                                  told'[y.host][y.stream] <= objs'[y.obj].seen
                            /\ Len(Log(y.stream)') > 0 => objs'[y.obj].seen > 0
            BY <1>3 DEF InsertFits, Log
        <3>1. PICK u \in DOMAIN objs : u = y.obj
            BY <2>2 DEF Request, Store
        <3>2. u[2] = y.reg /\ u[3] = y.stream /\ y.host \in Instances
            BY <2>2, <3>1 DEF Request, Store, Req
        <3>3. /\ cache[y.host][y.reg][y.stream] = None => told[y.host][y.stream] <= objs[u].seen
              /\ Len(Log(y.stream)) > 0 => objs[u].seen > 0
            BY <2>2, <3>1 DEF Request, Store
        <3>4. cache[y.host][y.reg][y.stream] = None => ~(y.host = i /\ u[3] = s)
            <4> SUFFICES ASSUME y.host = i, u[3] = s
                         PROVE  cache[y.host][y.reg][y.stream] # None
                OBVIOUS
            <4>1. u[2] = o[2]
                BY <1>2, <1>5, SameScope
            <4>2. o = cache[y.host][y.reg][y.stream]
                BY <1>5, <3>2, <4>1
            <4> QED
                BY <1>15, <4>2
        <3>5. /\ Len(Log(u[3])') > 0 => objs'[u].seen > 0
              /\ \A j \in Instances :
                   told[j][u[3]] <= objs[u].seen /\ (j = i /\ u[3] = s => u = o)
                     => told'[j][u[3]] <= objs'[u].seen
            BY <1>2, <1>5, <1>7, <3>2, <3>3, GrownFits
        <3> QED
            BY <3>1, <3>2, <3>3, <3>4, <3>5
    <2>6. Request(p, y)'
        BY <1>2, <1>8, <1>12, <2>2, <2>3, <2>4, RequestStable
    <2> QED
        BY <1>11, <2>1, <2>6
<1>19. Request(r, req[r])'
    <2>1. PICK y \in Req : y = q
        OBVIOUS
    <2>2. Survives(q.obj) /\ InsertFits(q)' /\ (q.phase = "target" /\ q.pc \in Seeking => rows'[q.stream] = NoRow)
        BY <1>3, <1>12 DEF Survives, InsertFits, Seeking
    <2>3. Request(r, q)'
        BY <1>2, <1>8, <1>12, <2>2, RequestStable
    <2>4. PICK z \in Req : z = x
        BY <1>9
    <2>5. Task(z)'
        BY <1>2, <1>3, <1>10, <2>4 DEF Request, Task, SamePlace, Seeking, Holding
    <2>6. Store(r, z)'
        BY <1>3, <1>10, <2>3, <2>4 DEF Request, Store, SamePlace, Holding
    <2>7. Builds(r, z)'
        BY <1>3, <1>10, <2>3, <2>4 DEF Request, Builds, SamePlace, Seeking
    <2>8. Scoped(z)'
        BY <1>3, <1>10, <2>3, <2>4 DEF Request, Scoped, SamePlace, Seeking
    <2>9. Informed(z)'
        BY <1>3, <1>10, <2>3, <2>4 DEF Request, Informed, SamePlace
    <2> QED
        BY <1>11, <2>4, <2>5, <2>6, <2>7, <2>8, <2>9 DEF Request
<1> QED
    BY <1>13, <1>16, <1>17, <1>18, <1>19 DEF RegistryInv

-----------------------------------------------------------------------------
(* The invariant holds.                                                     *)

LEMMA NoRowIs ==
    NoRow \in RowSet /\ NoRow.log = << >> /\ Len(NoRow.log) = 0
<1>1. << >> \in Seq(Entry)
    OBVIOUS
<1> QED
    BY <1>1 DEF NoRow, RowSet

LEMMA RowIs ==
    ASSUME NEW s \in Streams, NEW n \in Nat
    PROVE  /\ Row(s, n) \in RowSet /\ Len(Row(s, n).log) = n
           /\ Row(s, n).key = s /\ Row(s, n).key # None /\ Row(s, n).scope # None
           /\ s \in PgStreams => Row(s, n).scope = "PoliticalGroup"
           /\ s \in CsbStreams => Row(s, n).scope = "ImportedByCsb"
           /\ \A k \in 1..n : Row(s, n).log[k].at = 0
           /\ s \in PgStreams => \A k \in 1..n : Row(s, n).log[k].kind = "login"
<1> DEFINE e == [kind |-> IF s \in PgStreams THEN "login" ELSE "create",
                 at |-> 0, src |-> None, upto |-> 0]
           l == [k \in 1..n |-> e]
           c == IF s \in PgStreams THEN "PoliticalGroup" ELSE "ImportedByCsb"
<1>1. e \in Entry /\ e.at = 0 /\ (s \in PgStreams => e.kind = "login")
    BY DEF Entry, Kinds, Ops
<1> HIDE DEF e
<1>2. /\ l \in Seq(Entry) /\ Len(l) = n /\ \A k \in 1..n : l[k].at = 0
      /\ s \in PgStreams => \A k \in 1..n : l[k].kind = "login"
    BY <1>1
<1>3. c \in Scopes /\ c # None
    BY StreamsAssumption DEF Scopes
<1>4. s # None
    BY StreamsAssumption
<1>5. Row(s, n) = [scope |-> c, key |-> s, log |-> l]
    BY DEF Row, e
<1>6. s \in CsbStreams => s \notin PgStreams
    BY StreamsAssumption
<1> HIDE DEF l
<1> QED
    BY <1>2, <1>3, <1>4, <1>5, <1>6 DEF RowSet

LEMMA NewFields ==
    ASSUME NEW h, NEW ops
    PROVE  /\ NewRequest(h, ops).pc = "idle" /\ NewRequest(h, ops).phase = None
           /\ NewRequest(h, ops).obj = None /\ NewRequest(h, ops).floor = {}
           /\ NewRequest(h, ops).wrote = 0 /\ NewRequest(h, ops).src = None
           /\ NewRequest(h, ops).todo = {} /\ NewRequest(h, ops).op = None
           /\ NewRequest(h, ops).reg = None
BY DEF NewRequest

LEMMA InitInv ==
    ASSUME Init
    PROVE  RegistryInv
<1>1. PICK c \in Scenes :
        /\ now = c.start
        /\ rows = [s \in Streams |-> IF c.past[s] = 0 THEN NoRow ELSE Row(s, c.past[s])]
        /\ cache = [i \in Instances |-> [g \in Registries |-> [s \in Streams |-> None]]]
        /\ objs = << >>
        /\ req = [r \in Requests |-> NewRequest(c.host[r], c.ops[r])]
        /\ told = [i \in Instances |-> [s \in Streams |-> 0]]
    BY DEF Init
<1>2. /\ c.ops \in [Requests -> SUBSET Ops] /\ c.host \in [Requests -> Instances]
      /\ c.past \in [Streams -> Nat] /\ c.start \in Nat
    BY ScenesAssumption
<1>3. /\ \A s \in Streams : c.past[s] \in Nat
      /\ \A r \in Requests : c.host[r] \in Instances /\ c.ops[r] \in SUBSET Ops
    BY <1>2
<1>4. \A s \in Streams : rows[s] = IF c.past[s] = 0 THEN NoRow ELSE Row(s, c.past[s])
    BY <1>1
<1>5. \A s \in Streams : rows[s] \in RowSet /\ Len(Log(s)) \in Nat
    BY <1>3, <1>4, NoRowIs, RowIs DEF Log
<1>6. DOMAIN objs = {}
    BY <1>1
<1>7. \A r \in Requests : req[r] \in Req /\ req[r] = NewRequest(c.host[r], c.ops[r])
    BY <1>1, <1>3, NewIs
<1>8. Types
    <2>1. rows \in [Streams -> RowSet] /\ now \in Nat
        BY <1>1, <1>2, <1>4, <1>5
    <2>2. cache \in [Instances -> [Registries -> [Streams -> ObjectsOrNone]]]
        BY <1>1 DEF ObjectsOrNone
    <2>3. req \in [Requests -> Req]
        BY <1>1, <1>7
    <2>4. told \in [Instances -> [Streams -> Nat]]
        BY <1>1
    <2> QED
        BY <1>6, <2>1, <2>2, <2>3, <2>4 DEF Types
<1>9. Tables
    <2>1. RowsOk
        <3>1. NoRow.scope = None /\ None # "PoliticalGroup"
            BY StreamsAssumption DEF NoRow, Scopes
        <3> QED
            BY <1>3, <1>4, <3>1, RowIs DEF RowsOk
    <2>2. ObjectsOk /\ EmptyHasOne
        BY <1>6 DEF ObjectsOk, EmptyHasOne
    <2>3. CacheOk
        BY <1>1 DEF CacheOk
    <2>4. ToldOk
        BY <1>1, <1>5 DEF ToldOk
    <2> QED
        BY <2>1, <2>2, <2>3, <2>4 DEF Tables
<1>10. ASSUME NEW r \in Requests
       PROVE  req[r].phase = None /\ Request(r, req[r])
    <2>1. /\ req[r].pc = "idle" /\ req[r].phase = None /\ req[r].obj = None /\ req[r].floor = {}
          /\ req[r].wrote = 0 /\ req[r].src = None /\ req[r].todo = {}
        BY <1>7, NewFields
    <2>2. Task(req[r])
        BY <2>1, PhasesAre DEF Task, Seeking, Holding
    <2>3. Store(r, req[r])
        BY <2>1 DEF Store, Holding
    <2>4. Builds(r, req[r])
        BY <1>6 DEF Builds
    <2>5. Scoped(req[r])
        BY <2>1, PhasesAre DEF Scoped
    <2>6. Informed(req[r])
        BY <2>1 DEF Informed
    <2> QED
        BY <2>1, <2>2, <2>3, <2>4, <2>5, <2>6 DEF Request
<1>11. OwnTargets
    BY <1>10, PhasesAre DEF OwnTargets
<1> QED
    BY <1>8, <1>9, <1>10, <1>11 DEF RegistryInv

LEMMA StutterInv ==
    ASSUME RegistryInv, UNCHANGED vars
    PROVE  RegistryInv'
<1>1. Types /\ Tables /\ ObjectsOk /\ OwnTargets /\ UNCHANGED <<rows, cache, objs, req, now, told>>
    BY DEF RegistryInv, Tables, vars
<1>3. Types'
    BY <1>1 DEF Types
<1>4. Tables'
    BY <1>1 DEF Tables, RowsOk, ObjectsOk, CacheOk, ToldOk, EmptyHasOne, Log
<1>5. OwnTargets'
    BY <1>1 DEF OwnTargets
<1>6. ASSUME NEW q \in Requests
      PROVE  Request(q, req[q])'
    <2>1. ObjectsKept(q)
        BY <1>1, ObjectsUnchanged
    <2>2. PICK y \in Req : y = req[q]
        BY <1>1 DEF Types
    <2>3. Request(q, y) /\ Survives(y.obj)
        BY <1>1, <2>2 DEF RegistryInv, Survives
    <2>4. Request(q, y)'
        BY <1>1, <2>1, <2>3, RequestKept
    <2> QED
        BY <1>1, <2>2, <2>4
<1> QED
    BY <1>3, <1>4, <1>5, <1>6 DEF RegistryInv

LEMMA ArrivalInv ==
    ASSUME RegistryInv, NEW r \in Requests, Arrival(r)
    PROVE  RegistryInv'
<1>0. /\ {"pg", "csb", "pre"} \subseteq Registries /\ IsCsb("csb") /\ IsCsb("pre")
      /\ PgStreams \subseteq Streams /\ CsbStreams \subseteq Streams
    BY DEF Registries, IsCsb, Streams
<1>1. ASSUME NEW s \in PgStreams, \/ Visit(r, s)
                                  \/ \E pinned \in BOOLEAN : Login(r, s, pinned)
                                  \/ Logout(r, s)
      PROVE  RegistryInv'
    <2>1. \E op \in {"visit", "login", "logout"} : Serve(r, op, "pg", s)
        BY <1>1 DEF Visit, Login, Logout
    <2> QED
        BY <1>0, <2>1, ServeInv
<1>2. ASSUME NEW s \in PgStreams, NEW g \in {"csb", "pre"}, NEW id \in 1..Len(Log(s)),
             NEW sure \in BOOLEAN, Import(r, g, s, id, sure)
      PROVE  RegistryInv'
    BY <1>2, ImportInv
<1>3. ASSUME NEW s \in CsbStreams, \/ \E g \in {"csb", "pre"} : Examine(r, g, s)
                                   \/ CorrectPapers(r, s)
      PROVE  RegistryInv'
    <2>1. \E op \in {"examine", "paper"}, g \in {"csb", "pre"} : Serve(r, op, g, s)
        BY <1>3 DEF Examine, CorrectPapers
    <2> QED
        BY <1>0, <2>1, ServeInv
<1>4. ASSUME NEW s \in CsbStreams, CreateEmpty(r, s)
      PROVE  RegistryInv'
    BY <1>4, CreateEmptyInv
<1>5. ASSUME NEW g \in {"csb", "pre"}, Overview(r, g)
      PROVE  RegistryInv'
    BY <1>5, OverviewInv
<1> QED
    BY <1>1, <1>2, <1>3, <1>4, <1>5 DEF Arrival

LEMMA ProgressInv ==
    ASSUME RegistryInv, NEW r \in Requests, Progress(r)
    PROVE  RegistryInv'
BY LookupHitInv, LookupMissInv, ListForLookupInv, BuildInv, LoadNewInv, InsertInv, ScanInv,
   ScanNextInv, InspectInv, ScanDoneInv, TakeSnapshotInv, TakeLoadedInv, TakeCachedInv,
   TakeFreshInv, CheckInv, ConflictInv, WriteInv, FinishInv DEF Progress

LEMMA RegistryStep ==
    ASSUME RegistryInv, [Next]_vars
    PROVE  RegistryInv'
<1>1. CASE UNCHANGED vars
    BY <1>1, StutterInv
<1>2. CASE Next
    BY <1>2, ArrivalInv, ProgressInv, FailInv, PurgeIdleInv, TickInv DEF Next
<1> QED
    BY <1>1, <1>2

(* RegistryInv, of the tables and of every request, is inductive.           *)
THEOREM RegistryHolds == Spec => []RegistryInv
<1>1. Init => RegistryInv
    BY InitInv
<1>2. RegistryInv /\ [Next]_vars => RegistryInv'
    BY RegistryStep
<1> QED
    BY <1>1, <1>2, PTL DEF Spec

(* OneKeyPerStream, for any number of requests that create a row at once:   *)
(* ensure_stream returns the key that is stored, so every Store of a stream *)
(* encrypts with it.                                                        *)
THEOREM OneKey == Spec => []OneKeyPerStream
<1>1. RegistryInv => OneKeyPerStream
    BY DEF RegistryInv, Tables, ObjectsOk, OneKeyPerStream
<1> QED
    BY <1>1, RegistryHolds, PTL

(* SeesWhatWasTold, for any processes and requests: a group's request loads *)
(* its store again, and a committee member's uses the one store that every  *)
(* request of the process writes through.                                   *)
THEOREM SeesTold == Spec => []SeesWhatWasTold
<1>1. RegistryInv => SeesWhatWasTold
    BY DEF RegistryInv, Request, Informed, SeesWhatWasTold
<1> QED
    BY <1>1, RegistryHolds, PTL

-----------------------------------------------------------------------------
(* The limits.  Windows only lose events as time passes, and an event that  *)
(* is checked against the whole stream keeps it within them.                *)

LimitsAt(log, n) ==
    LET cut == SubSeq(log, 1, n)
        recent == InWindow(cut, cut[n].at) IN
    /\ EventsTotal > 0 => n <= EventsTotal
    /\ MaxEvents > 0 => Cardinality(recent) <= MaxEvents
    /\ MaxDownloads > 0 => Cardinality(Downloads(cut, recent)) <= MaxDownloads

WithinLimits(log) == \A n \in 1..Len(log) : LimitsAt(log, n)

LEMMA LimitsAre == LimitsHold <=> \A s \in PgStreams : WithinLimits(Log(s))
BY DEF LimitsHold, WithinLimits, LimitsAt

LEMMA LimitTypes ==
    EventsTotal \in Nat /\ MaxEvents \in Nat /\ MaxDownloads \in Nat /\ Window \in Nat
BY LimitsAssumption

LEMMA EntryAt ==
    ASSUME NEW log \in Seq(Entry), NEW n \in 1..Len(log)
    PROVE  log[n] \in Entry /\ log[n].at \in Nat
<1>1. log[n] \in Entry
    OBVIOUS
<1> QED
    BY <1>1 DEF Entry

LEMMA OneMore ==
    ASSUME NEW S, NEW x, IsFiniteSet(S)
    PROVE  IsFiniteSet(S \cup {x}) /\ Cardinality(S \cup {x}) <= Cardinality(S) + 1
<1>1. /\ IsFiniteSet(S \cup {x})
      /\ Cardinality(S \cup {x}) = IF x \in S THEN Cardinality(S) ELSE Cardinality(S) + 1
    BY FS_AddElement
<1>2. Cardinality(S) \in Nat
    BY FS_CardinalityType
<1>3. CASE x \in S
    BY <1>1, <1>2, <1>3
<1>4. CASE x \notin S
    BY <1>1, <1>2, <1>4
<1> QED
    BY <1>3, <1>4

LEMMA WindowFinite ==
    ASSUME NEW log \in Seq(Entry), NEW t
    PROVE  /\ InWindow(log, t) \subseteq 1..Len(log) /\ IsFiniteSet(InWindow(log, t))
           /\ Cardinality(InWindow(log, t)) \in Nat
           /\ IsFiniteSet(Downloads(log, InWindow(log, t)))
           /\ Cardinality(Downloads(log, InWindow(log, t))) \in Nat
<1>1. IsFiniteSet(1..Len(log))
    BY FS_Interval
<1>2. InWindow(log, t) \subseteq 1..Len(log)
    BY DEF InWindow
<1>3. IsFiniteSet(InWindow(log, t))
    BY <1>1, <1>2, FS_Subset
<1>4. Downloads(log, InWindow(log, t)) \subseteq InWindow(log, t)
    BY DEF Downloads
<1>5. IsFiniteSet(Downloads(log, InWindow(log, t)))
    BY <1>3, <1>4, FS_Subset
<1> QED
    BY <1>2, <1>3, <1>5, FS_CardinalityType

LEMMA WindowShrinks ==
    ASSUME NEW log \in Seq(Entry), NEW t \in Nat, NEW u \in Nat, t <= u
    PROVE  /\ Cardinality(InWindow(log, u)) <= Cardinality(InWindow(log, t))
           /\ Cardinality(Downloads(log, InWindow(log, u)))
                <= Cardinality(Downloads(log, InWindow(log, t)))
<1>1. \A n \in 1..Len(log) : log[n].at \in Nat
    BY EntryAt
<1>2. InWindow(log, u) \subseteq InWindow(log, t)
    BY <1>1, LimitTypes DEF InWindow
<1>3. Downloads(log, InWindow(log, u)) \subseteq Downloads(log, InWindow(log, t))
    BY <1>2 DEF Downloads
<1> QED
    BY <1>2, <1>3, WindowFinite, FS_Subset

LEMMA LimitPasses ==
    ASSUME NEW log \in Seq(Entry), NEW k, now \in Nat, now' \in Nat, now <= now',
           ~LimitHit(log, k)
    PROVE  ~LimitHit(log, k)'
<1>1. /\ Cardinality(InWindow(log, now')) <= Cardinality(InWindow(log, now))
      /\ Cardinality(Downloads(log, InWindow(log, now')))
           <= Cardinality(Downloads(log, InWindow(log, now)))
    BY WindowShrinks
<1>2. /\ Cardinality(InWindow(log, now')) \in Nat /\ Cardinality(InWindow(log, now)) \in Nat
      /\ Cardinality(Downloads(log, InWindow(log, now'))) \in Nat
      /\ Cardinality(Downloads(log, InWindow(log, now))) \in Nat
    BY WindowFinite
<1>3. LimitHit(log, k)' <=>
        \/ Reached(EventsTotal, Len(log))
        \/ Reached(MaxEvents, Cardinality(InWindow(log, now')))
        \/ k = "download" /\ Reached(MaxDownloads, Cardinality(Downloads(log, InWindow(log, now'))))
    BY DEF LimitHit
<1> QED
    BY <1>1, <1>2, <1>3, LimitTypes DEF LimitHit, Reached

LEMMA CutSame ==
    ASSUME NEW log \in Seq(Entry), NEW e \in Entry, NEW n \in 1..Len(log)
    PROVE  SubSeq(Append(log, e), 1, n) = SubSeq(log, 1, n)
OBVIOUS

LEMMA AppendFits ==
    ASSUME NEW log \in Seq(Entry), NEW e \in Entry, now \in Nat, e.at = now,
           \A n \in 1..Len(log) : log[n].at <= now, WithinLimits(log), ~LimitHit(log, e.kind)
    PROVE  WithinLimits(Append(log, e))
<1> DEFINE new == Append(log, e)
           m == Len(log) + 1
<1>1. /\ new \in Seq(Entry) /\ Len(new) = m /\ new[m] = e /\ m \in Nat
      /\ \A n \in 1..Len(log) : new[n] = log[n]
    BY AppendProperties
<1>2. \A n \in 1..Len(log) : LimitsAt(new, n)
    BY CutSame DEF WithinLimits, LimitsAt
<1> HIDE DEF new, m
<1>3. SubSeq(new, 1, m) = new
    BY <1>1, SubSeqFull
<1> DEFINE W == InWindow(log, now)
           V == InWindow(new, now)
<1>4. V \subseteq W \cup {m}
    BY <1>1 DEF InWindow, m
<1>5. /\ IsFiniteSet(W) /\ W \subseteq 1..Len(log) /\ Cardinality(W) \in Nat
      /\ IsFiniteSet(Downloads(log, W)) /\ Cardinality(Downloads(log, W)) \in Nat
    BY WindowFinite
<1>6. /\ Cardinality(V) \in Nat /\ Cardinality(Downloads(new, V)) \in Nat
    BY <1>1, WindowFinite
<1> HIDE DEF W, V
<1>7. Cardinality(V) <= Cardinality(W) + 1
    <2>1. IsFiniteSet(W \cup {m}) /\ Cardinality(W \cup {m}) <= Cardinality(W) + 1
        BY <1>5, OneMore
    <2>2. Cardinality(V) <= Cardinality(W \cup {m})
        BY <1>4, <2>1, FS_Subset
    <2>3. Cardinality(W \cup {m}) \in Nat
        BY <2>1, FS_CardinalityType
    <2> QED
        BY <1>5, <1>6, <2>1, <2>2, <2>3
<1>8. /\ EventsTotal > 0 => Len(log) < EventsTotal
      /\ MaxEvents > 0 => Cardinality(W) < MaxEvents
      /\ MaxDownloads > 0 /\ e.kind = "download" => Cardinality(Downloads(log, W)) < MaxDownloads
    BY <1>5, LimitTypes DEF LimitHit, Reached, W
<1>9. MaxDownloads > 0 => Cardinality(Downloads(new, V)) <= MaxDownloads
    <2> SUFFICES ASSUME MaxDownloads > 0
                 PROVE  Cardinality(Downloads(new, V)) <= MaxDownloads
        OBVIOUS
    <2>1. CASE e.kind = "download"
        <3>1. Downloads(new, V) \subseteq Downloads(log, W) \cup {m}
            BY <1>1, <1>4, <1>5 DEF Downloads
        <3>2. /\ IsFiniteSet(Downloads(log, W) \cup {m})
              /\ Cardinality(Downloads(log, W) \cup {m}) <= Cardinality(Downloads(log, W)) + 1
            BY <1>5, OneMore
        <3>3. Cardinality(Downloads(new, V)) <= Cardinality(Downloads(log, W) \cup {m})
            BY <3>1, <3>2, FS_Subset
        <3>4. Cardinality(Downloads(log, W) \cup {m}) \in Nat
            BY <3>2, FS_CardinalityType
        <3> QED
            BY <1>5, <1>6, <1>8, <2>1, <3>2, <3>3, <3>4, LimitTypes
    <2>2. CASE e.kind # "download"
        <3>1. Downloads(new, V) \subseteq Downloads(log, W)
            BY <1>1, <1>4, <1>5, <2>2 DEF Downloads
        <3>2. Cardinality(Downloads(new, V)) <= Cardinality(Downloads(log, W))
            BY <1>5, <3>1, FS_Subset
        <3>3. Cardinality(Downloads(log, W)) <= MaxDownloads
            <4>1. CASE Len(log) = 0
                <5>1. Downloads(log, W) = {}
                    <6>1. 1..Len(log) = {}
                        BY <4>1
                    <6> QED
                        BY <1>5, <6>1 DEF Downloads
                <5> QED
                    BY <5>1, FS_EmptySet, LimitTypes
            <4>2. CASE Len(log) # 0
                <5> DEFINE n == Len(log)
                           t == log[n].at
                <5>0. n \in 1..Len(log)
                    BY <4>2
                <5>1. n \in 1..Len(log) /\ t \in Nat /\ t <= now
                    BY <5>0, EntryAt
                <5>2. SubSeq(log, 1, n) = log
                    BY SubSeqFull
                <5>3. Cardinality(Downloads(log, InWindow(log, t))) <= MaxDownloads
                    BY <5>1, <5>2 DEF WithinLimits, LimitsAt
                <5> HIDE DEF t, n
                <5>4. Cardinality(Downloads(log, W)) <= Cardinality(Downloads(log, InWindow(log, t)))
                    BY <5>1, WindowShrinks DEF W
                <5>5. Cardinality(Downloads(log, InWindow(log, t))) \in Nat
                    BY WindowFinite
                <5> QED
                    BY <1>5, <5>3, <5>4, <5>5, LimitTypes
            <4> QED
                BY <4>1, <4>2
        <3> QED
            BY <1>5, <1>6, <3>2, <3>3, LimitTypes
    <2> QED
        BY <2>1, <2>2
<1>10. LimitsAt(new, m)
    <2>1. EventsTotal > 0 => m <= EventsTotal
        BY <1>8, LimitTypes DEF m
    <2>2. MaxEvents > 0 => Cardinality(V) <= MaxEvents
        BY <1>5, <1>6, <1>7, <1>8, LimitTypes
    <2>3. new[m].at = now
        BY <1>1
    <2> QED
        BY <1>3, <1>9, <2>1, <2>2, <2>3 DEF LimitsAt, V
<1>11. \A n \in 1..m : n \in 1..Len(log) \/ n = m
    BY DEF m
<1> QED
    BY <1>1, <1>2, <1>10, <1>11 DEF WithinLimits, new

-----------------------------------------------------------------------------
(* What each request has checked, and which imports it has looked at.       *)

Careful(q) == Limited(q) /\ Warned(q)
CareInv ==
    /\ RegistryInv /\ PastOk /\ LimitsHold
    /\ \A r \in Requests : Careful(req[r])

(* A step that records nothing.                                             *)
Quiet ==
    /\ now \in Nat /\ now' \in Nat /\ now <= now'
    /\ \A t \in Streams : /\ Log(t)' = Log(t)
                          /\ rows[t].scope # None => rows'[t].scope = rows[t].scope
    /\ \A o \in DOMAIN objs : o \in DOMAIN objs' => objs[o].seen <= objs'[o].seen

LEMMA PlaceIs ==
    ASSUME RegistryInv, NEW r \in Requests, NEW y, y = req[r]
    PROVE  /\ y \in Req
           /\ y.pc \in Holding => y.obj \in DOMAIN objs /\ y.obj[3] = y.stream /\ y.stream \in Streams
BY RequestIs DEF Request, Store, Task

LEMMA WarnedQuiet ==
    ASSUME RegistryInv, Quiet, NEW y \in Req, Warned(y)
    PROVE  Warned(y)'
<1> SUFFICES ASSUME y.op = "import", ~y.sure
             PROVE  Warned(y)'
    BY DEF Warned
<1>1. \A c \in y.before : c \in Streams
    BY DEF Req, Streams
<1>2. \A c \in y.before : Log(c)' = Log(c)
    BY <1>1 DEF Quiet
<1>3. y.pc = "scan" => \A c \in y.before : InScope(c, y.reg)'
    <2> SUFFICES ASSUME y.pc = "scan", NEW c \in y.before
                 PROVE  InScope(c, y.reg)'
        OBVIOUS
    <2>1. rows[c].scope = ScopeOf(y.reg) /\ Len(Log(c)) > 0
        BY DEF Warned, InScope
    <2>2. rows[c].scope # None
        <3>1. RowsOk /\ c \in Streams /\ Len(NoRow.log) = 0
            BY <1>1, NoRowIs DEF RegistryInv, Tables
        <3>2. rows[c] # NoRow
            BY <2>1, <3>1 DEF Log
        <3> QED
            BY <3>1, <3>2 DEF RowsOk
    <2> QED
        BY <1>1, <1>2, <2>1, <2>2 DEF InScope, Quiet
<1>4. \A c \in y.before : Len(Log(c)') > 0
    BY <1>2 DEF Warned
<1>5. y.phase \in {"scan", "source"} => \A c \in y.before : Log(c)'[1].src = y.src
    BY <1>2 DEF Warned
<1>6. y.phase = "scan" /\ y.pc # "scan" =>
        \A c \in y.before : c \in y.todo \/ Deleted(Log(c)') \/ (y.pc # "next" /\ c = y.stream)
    BY <1>2 DEF Warned
<1>7. y.phase \in {"source", "target"} \/ y.wrote > 0 => \A c \in y.before : Deleted(Log(c)')
    BY <1>2 DEF Warned
<1> QED
    BY <1>3, <1>4, <1>5, <1>6, <1>7 DEF Warned, Log, Deleted

LEMMA LimitedQuiet ==
    ASSUME RegistryInv, RegistryInv', Quiet, NEW r \in Requests, NEW y \in Req, y = req'[r],
           Limited(y), y.pc \in {"acting", "checked"} => y.obj \in DOMAIN objs
    PROVE  Limited(y)'
<1> SUFFICES ASSUME y.reg = "pg", y.pc \in {"acting", "checked"}
             PROVE  /\ y.expected <= objs'[y.obj].seen
                    /\ y.pc = "checked" /\ y.expected = Len(Log(y.stream)')
                         => ~LimitHit(Log(y.stream), y.kind)'
    BY DEF Limited
<1>1. y.obj \in DOMAIN objs' /\ y.stream \in Streams /\ y.expected \in Nat
    <2>1. Request(r, req[r])'
        BY DEF RegistryInv
    <2>2. Request(r, y)'
        BY <2>1
    <2>3. Store(r, y)' /\ Task(y)'
        BY <2>2 DEF Request
    <2> QED
        BY <2>3 DEF Store, Task, Holding, Req
<1>2. y.obj \in DOMAIN objs
    OBVIOUS
<1>3. objs[y.obj].seen \in Nat /\ objs'[y.obj].seen \in Nat
    <2>1. objs'[y.obj] \in StoreSet /\ objs[y.obj] \in StoreSet
        BY <1>1, <1>2 DEF RegistryInv, Types
    <2> QED
        BY <2>1 DEF StoreSet
<1>4. y.expected <= objs'[y.obj].seen
    BY <1>1, <1>2, <1>3 DEF Limited, Quiet
<1>5. ASSUME y.pc = "checked", y.expected = Len(Log(y.stream)')
      PROVE  ~LimitHit(Log(y.stream), y.kind)'
    <2>1. PICK log \in Seq(Entry) : log = Log(y.stream) /\ log = Log(y.stream)'
        BY <1>1, LogTypes DEF Quiet, RegistryInv
    <2>2. PICK k : k = y.kind
        OBVIOUS
    <2>3. ~LimitHit(log, k)
        BY <1>5, <2>1, <2>2 DEF Limited
    <2>4. ~LimitHit(log, k)'
        BY <2>3, LimitPasses DEF Quiet
    <2> QED
        BY <2>1, <2>2, <2>4
<1> QED
    BY <1>4, <1>5

LEMMA CareQuiet ==
    ASSUME CareInv, RegistryInv', Quiet,
           \A r \in Requests : req'[r] = req[r] \/ Careful(req[r])'
    PROVE  CareInv'
<1>1. PastOk'
    <2> SUFFICES ASSUME NEW s \in Streams, NEW n \in 1..Len(Log(s)')
                 PROVE  Log(s)'[n].at <= now'
        BY DEF PastOk, Log
    <2>1. Log(s)' = Log(s) /\ Log(s) \in Seq(Entry)
        BY LogTypes DEF Quiet, CareInv, RegistryInv
    <2>2. n \in 1..Len(Log(s)) /\ Log(s)[n].at \in Nat
        BY <2>1, EntryAt
    <2>3. Log(s)[n].at <= now
        BY <2>2 DEF CareInv, PastOk
    <2> QED
        BY <2>1, <2>2, <2>3 DEF Quiet
<1>2. LimitsHold'
    <2>1. \A s \in PgStreams : WithinLimits(Log(s))
        BY LimitsAre DEF CareInv
    <2>2. \A s \in PgStreams : Log(s)' = Log(s)
        BY DEF Quiet, Streams
    <2>3. \A s \in PgStreams : \A n \in 1..Len(Log(s)') : LimitsAt(Log(s)', n)
        BY <2>1, <2>2 DEF WithinLimits
    <2> QED
        BY <2>3 DEF LimitsHold, LimitsAt, Log, InWindow, Downloads
<1>3. ASSUME NEW r \in Requests, req'[r] = req[r]
      PROVE  Careful(req[r])'
    <2>1. PICK y \in Req : y = req[r]
        BY PlaceIs DEF CareInv
    <2>2. Careful(y)
        BY <2>1 DEF CareInv
    <2>3. Warned(y)'
        BY <2>2, WarnedQuiet DEF CareInv, Careful
    <2>4. y.pc \in {"acting", "checked"} => y.obj \in DOMAIN objs
        BY <2>1, PlaceIs DEF CareInv, Holding
    <2>5. Limited(y)'
        BY <1>3, <2>1, <2>2, <2>4, LimitedQuiet DEF CareInv, Careful
    <2> QED
        BY <1>3, <2>1, <2>3, <2>5 DEF Careful
<1> QED
    BY <1>1, <1>2, <1>3 DEF CareInv

LEMMA CareStep ==
    ASSUME CareInv, RegistryInv', Quiet, NEW r \in Requests, NEW x, Step(r, x), Careful(x),
           x.pc \in {"acting", "checked"} => x.obj \in DOMAIN objs
    PROVE  CareInv'
<1>1. req'[r] = x /\ \A q \in Requests \ {r} : req'[q] = req[q]
    BY DEF CareInv, RegistryInv, Types, Step
<1>2. PICK y \in Req : y = x
    BY <1>1 DEF RegistryInv, Types
<1>3. Warned(y)' /\ Limited(y)'
    BY <1>1, <1>2, WarnedQuiet, LimitedQuiet DEF CareInv, Careful
<1>4. Careful(req[r])'
    BY <1>1, <1>2, <1>3 DEF Careful
<1> QED
    BY <1>1, <1>4, CareQuiet

LEMMA QuietSame ==
    ASSUME RegistryInv, UNCHANGED <<rows, objs, now>>
    PROVE  Quiet
<1>1. \A o \in DOMAIN objs : objs[o].seen \in Nat
    BY SeenTypes DEF RegistryInv, Tables
<1> QED
    BY <1>1 DEF Quiet, RegistryInv, Types, Log

LEMMA QuietLoaded ==
    ASSUME RegistryInv, UNCHANGED <<rows, now>>, NEW o \in DOMAIN objs,
           objs' = Loaded(o) \/ Stores(Loaded(o))
    PROVE  Quiet
<1>1. /\ DOMAIN Loaded(o) = DOMAIN objs
      /\ \A p \in DOMAIN objs : objs[p].seen <= Loaded(o)[p].seen
    BY LoadedIs DEF RegistryInv, Tables
<1> DEFINE new == Loaded(o)
<1>2. \A p \in DOMAIN objs' : objs'[p] = new[p]
    BY <1>1 DEF Stores
<1> QED
    BY <1>1, <1>2 DEF Quiet, RegistryInv, Types, Log

LEMMA QuietStores ==
    ASSUME RegistryInv, UNCHANGED <<rows, now>>, Stores(objs)
    PROVE  Quiet
<1>1. \A p \in DOMAIN objs : objs[p].seen \in Nat
    BY SeenTypes DEF RegistryInv, Tables
<1>2. \A p \in DOMAIN objs' : objs'[p] = objs[p]
    BY DEF Stores
<1> QED
    BY <1>1, <1>2 DEF Quiet, RegistryInv, Types, Log

LEMMA NowFields ==
    ASSUME NEW q \in Req, NEW pc, NEW o
    PROVE  /\ Now(q, pc, o).pc = pc /\ Now(q, pc, o).obj = o
           /\ SameTask(Now(q, pc, o), q) /\ SamePlace(Now(q, pc, o), q)
<1>3. Now(q, pc, o).pc = pc /\ Now(q, pc, o).obj = o
    BY DEF Now, Req
<1>4. SameTask(Now(q, pc, o), q)
    BY DEF Now, Req, SameTask
<1>5. SamePlace(Now(q, pc, o), q)
    BY DEF Now, Req, SamePlace
<1> QED
    BY <1>3, <1>4, <1>5

Under == {"lookup", "list", "build", "load", "insert", "held", "acting", "checked"}

(* A request that goes on with the same stream, short of writing to a       *)
(* group's.                                                                 *)
LEMMA CareMoved ==
    ASSUME CareInv, RegistryInv', Quiet, NEW r \in Requests, NEW q, q = req[r], q.pc \in Under,
           NEW pc \in Under, NEW o, Step(r, Now(q, pc, o)),
           pc \in {"acting", "checked"} => q.reg # "pg" /\ o \in DOMAIN objs
    PROVE  CareInv'
<1>1. q \in Req /\ Careful(q)
    BY PlaceIs DEF CareInv
<1> DEFINE x == Now(q, pc, o)
<1>2. x.pc = pc /\ x.obj = o /\ SameTask(x, q) /\ SamePlace(x, q)
    BY <1>1, NowFields
<1>3. Step(r, x)
    OBVIOUS
<1> HIDE DEF x
<1>4. Limited(x)
    BY <1>2 DEF Limited, SamePlace
<1>5. Warned(x)
    BY <1>1, <1>2 DEF Careful, Warned, SameTask, SamePlace, Under
<1> QED
    BY <1>2, <1>3, <1>4, <1>5, CareStep DEF Careful

LEMMA CareAnswered ==
    ASSUME CareInv, RegistryInv', Quiet, NEW r \in Requests, NEW a \in Answers, Answer(r, a)
    PROVE  CareInv'
<1>1. PICK q \in Req : q = req[r]
    BY PlaceIs DEF CareInv
<1>2. Careful(q)
    BY <1>1 DEF CareInv
<1> DEFINE x == AnswerOf(q, a)
<1>3. Step(r, x)
    BY <1>1 DEF Answer, AnswerOf, DoneWith
<1>4. /\ x.pc = "done" /\ x.phase = None /\ x.op = q.op /\ x.sure = q.sure
      /\ x.before = q.before /\ x.wrote = q.wrote
    BY AnswerIs
<1> HIDE DEF x
<1>5. Limited(x)
    BY <1>4 DEF Limited
<1>6. Warned(x)
    BY <1>2, <1>4, PhasesAre DEF Careful, Warned
<1> QED
    BY <1>3, <1>4, <1>5, <1>6, CareStep DEF Careful

LEMMA CareSimple ==
    ASSUME CareInv, RegistryInv', NEW r \in Requests,
           \/ LookupHit(r) \/ LookupMiss(r) \/ ListForLookup(r) \/ TakeFresh(r)
    PROVE  CareInv'
<1>1. PICK q \in Req : q = req[r]
    BY PlaceIs DEF CareInv
<1>2. RegistryInv /\ Request(r, q)
    BY <1>1 DEF CareInv, RegistryInv
<1>3. Quiet
    BY <1>2, QuietSame DEF LookupHit, LookupMiss, ListForLookup, TakeFresh
<1>4. CASE LookupHit(r)
    <2>1. q.pc = "lookup" /\ Step(r, Now(q, "held", Cached(r)))
        BY <1>1, <1>4 DEF LookupHit, Now
    <2> QED
        BY <1>1, <1>3, <2>1, CareMoved DEF Under
<1>5. CASE LookupMiss(r)
    <2>1. \E pc \in {"list", "build"} : Step(r, Now(q, pc, q.obj))
        BY <1>1, <1>5, NowPc DEF LookupMiss
    <2>2. q.pc = "lookup"
        BY <1>1, <1>5 DEF LookupMiss
    <2> QED
        BY <1>1, <1>3, <2>1, <2>2, CareMoved DEF Under
<1>6. CASE ListForLookup(r)
    <2>1. q.pc = "list"
        BY <1>1, <1>6 DEF ListForLookup
    <2>2. Step(r, Now(q, "build", q.obj)) \/ Answer(r, "NotFound")
        BY <1>1, <1>6, NowPc DEF ListForLookup
    <2> QED
        BY <1>1, <1>3, <2>1, <2>2, CareMoved, CareAnswered DEF Under, Answers
<1>7. CASE TakeFresh(r)
    <2>1. q.pc = "held" /\ q.phase = "target" /\ Step(r, Now(q, "acting", q.obj))
        BY <1>1, <1>7, NowPc DEF TakeFresh
    <2>2. q.reg # "pg" /\ q.obj \in DOMAIN objs
        BY <1>2, <2>1 DEF Request, Task, Store, IsCsb, Holding
    <2> QED
        BY <1>1, <1>3, <2>1, <2>2, CareMoved DEF Under
<1> QED
    BY <1>4, <1>5, <1>6, <1>7

LEMMA CareLookup ==
    ASSUME CareInv, RegistryInv', NEW r \in Requests,
           Build(r) \/ LoadNew(r) \/ Insert(r) \/ TakeCached(r)
    PROVE  CareInv'
<1>1. PICK q \in Req : q = req[r]
    BY PlaceIs DEF CareInv
<1>2. RegistryInv /\ Request(r, q) /\ Types /\ ObjectsOk
    BY <1>1 DEF CareInv, RegistryInv, Tables
<1>4. CASE Build(r)
    <2>1. q.pc = "build" /\ Step(r, Now(q, "load", Object(r)))
        BY <1>1, <1>4 DEF Build, Now
    <2>2. PICK s \in Streams, g \in Registries : s = q.stream /\ g = q.reg
        BY <1>1, <1>2, <2>1, BuildFinds
    <2>3. Object(r) = <<r, g, s>> /\ <<r, g, s>> \notin DOMAIN objs
        BY <1>1, <1>2, <2>1, <2>2, BuildFinds DEF Object
    <2>4. \A p \in DOMAIN objs : objs'[p] = objs[p] /\ objs[p].seen \in Nat
        <3>1. objs' = [p \in DOMAIN objs \cup {Object(r)} |->
                         IF p = Object(r) THEN [key |-> rows'[req[r].stream].key, seen |-> 0]
                         ELSE objs[p]]
            BY <1>4 DEF Build, EnsureStream
        <3> QED
            BY <1>2, <2>3, <3>1, SeenTypes
    <2>5. \A t \in Streams : Log(t)' = Log(t) /\ (rows[t].scope # None => rows'[t].scope = rows[t].scope)
        <3>1. rows' = [rows EXCEPT ![s] = IF rows[s] # NoRow THEN rows[s] ELSE NewRow(r, g)]
            BY <1>1, <1>4, <2>2 DEF Build, EnsureStream, NewRow
        <3>2. \A t \in Streams : rows'[t] = rows[t] \/ (rows[t] = NoRow /\ rows'[t] = NewRow(r, g))
            BY <1>2, <3>1 DEF Types
        <3>3. NewRow(r, g).log = NoRow.log /\ NoRow.scope = None
            BY DEF NewRow, NoRow
        <3> QED
            BY <3>2, <3>3 DEF Log
    <2>6. Quiet
        BY <1>2, <1>4, <2>4, <2>5 DEF Quiet, Build, Types
    <2> QED
        BY <1>1, <2>1, <2>6, CareMoved DEF Under
<1>5. CASE LoadNew(r)
    <2>1. q.pc = "load" /\ Step(r, Now(q, "insert", q.obj)) /\ q.obj \in DOMAIN objs
        BY <1>1, <1>2, <1>5, NowPc DEF LoadNew, Request, Store
    <2>2. Quiet
        BY <1>1, <1>2, <1>5, <2>1, QuietLoaded DEF LoadNew
    <2> QED
        BY <1>1, <2>1, <2>2, CareMoved DEF Under
<1>6. CASE Insert(r)
    <2>1. q.pc = "insert" /\ Quiet
        BY <1>1, <1>2, <1>6, QuietStores, SMTT(40) DEF Insert
    <2>2. \E kept : Step(r, Now(q, "held", kept))
        BY <1>1, <1>6 DEF Insert, Now
    <2> QED
        BY <1>1, <2>1, <2>2, CareMoved DEF Under
<1>7. CASE TakeCached(r)
    <2>1. q.pc = "held" /\ q.phase = "serve" /\ q.op = "examine" /\ Quiet
        BY <1>1, <1>2, <1>7, QuietStores DEF TakeCached
    <2>2. Step(r, Now(q, "acting", q.obj)) \/ Answer(r, "NotFound")
        BY <1>1, <1>7, NowPc DEF TakeCached
    <2>3. q.reg # "pg" /\ q.obj \in DOMAIN objs
        BY <1>2, <2>1 DEF Request, Task, Store, IsCsb, Holding
    <2> QED
        BY <1>1, <2>1, <2>2, <2>3, CareMoved, CareAnswered DEF Under, Answers
<1> QED
    BY <1>4, <1>5, <1>6, <1>7

LEMMA CareEnds ==
    ASSUME CareInv, RegistryInv', NEW r \in Requests, Finish(r) \/ Fail(r) \/ Conflict(r)
    PROVE  CareInv'
<1>1. RegistryInv /\ Request(r, req[r])
    BY DEF CareInv, RegistryInv
<1>2. CASE Finish(r) \/ Fail(r)
    BY <1>1, <1>2, QuietStores, CareAnswered DEF Finish, Fail, Answers
<1>3. CASE Conflict(r)
    <2>1. req[r].obj \in DOMAIN objs
        BY <1>1, <1>3 DEF Conflict, Request, Store, Holding
    <2> QED
        BY <1>1, <1>3, <2>1, QuietLoaded, CareAnswered DEF Conflict, Answers
<1> QED
    BY <1>2, <1>3

LEMMA CareClock ==
    ASSUME CareInv, RegistryInv', Tick \/ (\E i \in Instances, s \in PgStreams : PurgeIdle(i, s))
    PROVE  CareInv'
<1>1. RegistryInv
    BY DEF CareInv
<1>2. UNCHANGED req
    BY DEF Tick, PurgeIdle
<1>3. CASE Tick
    <2>1. \A o \in DOMAIN objs : objs[o].seen \in Nat
        BY <1>1, SeenTypes DEF RegistryInv, Tables
    <2>2. now \in Nat /\ now' = now + 1 /\ UNCHANGED <<rows, objs>>
        BY <1>1, <1>3 DEF Tick, RegistryInv, Types
    <2>3. Quiet
        BY <2>1, <2>2 DEF Quiet, Log
    <2> QED
        BY <1>2, <2>3, CareQuiet
<1>4. CASE \E i \in Instances, s \in PgStreams : PurgeIdle(i, s)
    BY <1>1, <1>2, <1>4, QuietStores, CareQuiet DEF PurgeIdle
<1> QED
    BY <1>3, <1>4

LEMMA CareOther ==
    ASSUME CareInv, RegistryInv', Quiet, NEW r \in Requests, NEW x, Step(r, x),
           x.op # "import", x.pc \notin {"acting", "checked"}
    PROVE  CareInv'
<1>1. Limited(x) /\ Warned(x)
    BY DEF Limited, Warned
<1> QED
    BY <1>1, CareStep DEF Careful

LEMMA CareArrival ==
    ASSUME CareInv, RegistryInv', NEW r \in Requests, Arrival(r)
    PROVE  CareInv'
<1>1. PICK q \in Req : q = req[r]
    BY PlaceIs DEF CareInv
<1>2. RegistryInv /\ Types
    BY DEF CareInv, RegistryInv
<1>3. ASSUME NEW op \in {"visit", "login", "logout", "examine", "paper"}, NEW g, NEW s,
             Serve(r, op, g, s)
      PROVE  CareInv'
    <2> DEFINE f == Floor(q.host, g, s)
               x == [[q EXCEPT !.pc = "lookup", !.phase = "serve", !.reg = g, !.stream = s,
                               !.floor = f] EXCEPT !.op = op]
    <2>1. Step(r, x) /\ UNCHANGED <<rows, objs, now>>
        BY <1>1, <1>3 DEF Serve, Arrived
    <2> HIDE DEF f
    <2>2. x.op = op /\ x.pc = "lookup"
        BY DEF Req
    <2> HIDE DEF x
    <2> QED
        BY <1>2, <2>1, <2>2, QuietSame, CareOther
<1>4. ASSUME NEW s, CreateEmpty(r, s)
      PROVE  CareInv'
    <2> DEFINE x == [[q EXCEPT !.pc = "lookup", !.phase = "target", !.reg = "csb",
                               !.stream = s] EXCEPT !.op = "create"]
    <2>1. Step(r, x) /\ UNCHANGED <<rows, objs, now>>
        BY <1>1, <1>4 DEF CreateEmpty, Arrived
    <2>2. x.op = "create" /\ x.pc = "lookup"
        BY DEF Req
    <2> HIDE DEF x
    <2> QED
        BY <1>2, <2>1, <2>2, QuietSame, CareOther
<1>5. ASSUME NEW g, Overview(r, g)
      PROVE  CareInv'
    <2> DEFINE x == [[q EXCEPT !.pc = "scan", !.phase = "scan", !.reg = g] EXCEPT !.op = "overview"]
    <2>1. Step(r, x) /\ UNCHANGED <<rows, objs, now>>
        BY <1>1, <1>5 DEF Overview, Arrived
    <2>2. x.op = "overview" /\ x.pc = "scan"
        BY DEF Req
    <2> HIDE DEF x
    <2> QED
        BY <1>2, <2>1, <2>2, QuietSame, CareOther
<1>6. ASSUME NEW s \in PgStreams, NEW g \in {"csb", "pre"}, NEW id \in 1..Len(Log(s)),
             NEW sure \in BOOLEAN, Import(r, g, s, id, sure)
      PROVE  CareInv'
    <2> DEFINE pc == IF sure THEN "lookup" ELSE "scan"
               ph == IF sure THEN "source" ELSE "scan"
               h == IF sure THEN "pg" ELSE g
               st == IF sure THEN s ELSE None
               b == {c \in StreamsByScope(g) : /\ Log(c)[1].src = s
                                               /\ \E i \in Instances : told[i][c] > 0}
               x == [[q EXCEPT !.pc = pc, !.phase = ph, !.reg = h, !.stream = st,
                               !.src = s, !.upto = id, !.into = g, !.sure = sure,
                               !.before = b] EXCEPT !.op = "import"]
    <2>1. Arrived(r, "import", [q EXCEPT !.pc = pc, !.phase = ph, !.reg = h, !.stream = st,
                               !.src = s, !.upto = id, !.into = g, !.sure = sure,
                               !.before = b])
        BY <1>1, <1>6 DEF Import
    <2>2. Step(r, x) /\ UNCHANGED <<rows, objs, now>> /\ q.pc = "idle"
        BY <1>1, <2>1 DEF Arrived
    <2>3. q.wrote = 0
        BY <1>1, <1>2, <2>2 DEF RegistryInv, Request, Task
    <2>4. /\ pc \notin {"acting", "checked"}
          /\ ~sure => pc = "scan" /\ ph = "scan" /\ h = g
        OBVIOUS
    <2>5. \A c \in b : InScope(c, g) /\ Len(Log(c)) > 0 /\ Log(c)[1].src = s
        BY DEF StreamsByScope, InScope
    <2> HIDE DEF pc, ph, h, st, b
    <2>6. /\ x.pc = pc /\ x.phase = ph /\ x.reg = h /\ x.src = s /\ x.sure = sure
          /\ x.before = b /\ x.op = "import" /\ x.wrote = q.wrote
        BY DEF Req
    <2> HIDE DEF x
    <2>7. Limited(x)
        BY <2>4, <2>6 DEF Limited
    <2>8. Warned(x)
        BY <2>3, <2>4, <2>5, <2>6 DEF Warned
    <2> QED
        BY <1>2, <2>2, <2>4, <2>6, <2>7, <2>8, QuietSame, CareStep DEF Careful
<1> QED
    BY <1>3, <1>4, <1>5, <1>6 DEF Arrival, Visit, Login, Logout, Examine, CorrectPapers

LEMMA CareScans ==
    ASSUME CareInv, RegistryInv', NEW r \in Requests,
           Scan(r) \/ \E s \in CsbStreams : ScanNext(r, s)
    PROVE  CareInv'
<1>1. PICK q \in Req : q = req[r]
    BY PlaceIs DEF CareInv
<1>2. RegistryInv /\ Request(r, q) /\ Careful(q)
    BY <1>1 DEF CareInv, RegistryInv
<1>3. Quiet
    BY <1>2, QuietSame DEF Scan, ScanNext
<1>4. CASE Scan(r)
    <2> DEFINE d == StreamsByScope(q.reg)
               x == [q EXCEPT !.pc = "next", !.todo = d]
    <2>1. q.pc = "scan" /\ Step(r, x)
        BY <1>1, <1>4 DEF Scan
    <2>2. q.op = "import" /\ ~q.sure => \A c \in q.before : c \in d
        BY <1>2, <2>1 DEF Careful, Warned, StreamsByScope, InScope, Req, Streams
    <2> HIDE DEF d
    <2>3. x.pc = "next" /\ x.todo = d /\ x.phase = q.phase /\ SameTask(x, q)
        BY DEF Req, SameTask
    <2> HIDE DEF x
    <2>4. Limited(x)
        BY <2>3 DEF Limited
    <2>5. Warned(x)
        BY <1>2, <2>2, <2>3 DEF Careful, Warned, SameTask
    <2> QED
        BY <1>3, <2>1, <2>3, <2>4, <2>5, CareStep DEF Careful
<1>5. ASSUME NEW s \in CsbStreams, ScanNext(r, s)
      PROVE  CareInv'
    <2> DEFINE d == q.todo \ {s}
               x == [q EXCEPT !.pc = "lookup", !.stream = s, !.todo = d]
    <2>1. q.pc = "next" /\ Step(r, x)
        BY <1>1, <1>5 DEF ScanNext
    <2> HIDE DEF d
    <2>3. x.pc = "lookup" /\ x.todo = d /\ x.stream = s /\ x.phase = q.phase /\ SameTask(x, q)
        BY DEF Req, SameTask
    <2> HIDE DEF x
    <2>4. Limited(x)
        BY <2>3 DEF Limited
    <2>5. Warned(x)
        BY <1>2, <2>1, <2>3 DEF Careful, Warned, SameTask, d
    <2> QED
        BY <1>3, <2>1, <2>3, <2>4, <2>5, CareStep DEF Careful
<1> QED
    BY <1>4, <1>5

LEMMA SeenIs ==
    ASSUME Types, ObjectsOk, NEW o \in DOMAIN objs
    PROVE  /\ Seen(o) \in Seq(Entry) /\ Len(Seen(o)) = objs[o].seen
           /\ \A n \in 1..Len(Seen(o)) : n \in 1..Len(Log(o[3])) /\ Seen(o)[n] = Log(o[3])[n]
           /\ objs[o].seen = Len(Log(o[3])) => Seen(o) = Log(o[3])
<1>1. /\ o[3] \in Streams /\ objs[o].seen \in Nat /\ Len(Log(o[3])) \in Nat
      /\ objs[o].seen <= Len(Log(o[3]))
    BY SeenTypes
<1>2. Log(o[3]) \in Seq(Entry)
    BY <1>1, LogTypes
<1> DEFINE log == Log(o[3])
           n == objs[o].seen
<1> HIDE DEF log, n
<1>3. /\ SubSeq(log, 1, n) \in Seq(Entry) /\ Len(SubSeq(log, 1, n)) = n
      /\ \A i \in 1..n : i \in 1..Len(log) /\ SubSeq(log, 1, n)[i] = log[i]
      /\ n = Len(log) => SubSeq(log, 1, n) = log
    BY <1>1, <1>2 DEF log, n
<1> QED
    BY <1>3 DEF Seen, log, n

LEMMA CareInspect ==
    ASSUME CareInv, RegistryInv', NEW r \in Requests, Inspect(r)
    PROVE  CareInv'
<1>1. PICK q \in Req : q = req[r]
    BY PlaceIs DEF CareInv
<1>2. RegistryInv /\ Request(r, q) /\ Careful(q) /\ Types /\ ObjectsOk /\ CacheOk
    BY <1>1 DEF CareInv, RegistryInv, Tables
<1>3. q.pc = "held" /\ q.phase = "scan" /\ Quiet
    BY <1>1, <1>2, QuietStores DEF Inspect
<1>4. CASE Answer(r, "AlreadyImported")
    BY <1>3, <1>4, CareAnswered DEF Answers
<1>5. CASE /\ Step(r, Now(q, "next", None))
           /\ q.op = "import" => ~ImportedFrom(Seen(q.obj), q.src)
    <2> DEFINE x == Now(q, "next", None)
    <2>1. x.pc = "next" /\ SameTask(x, q) /\ SamePlace(x, q) /\ Step(r, x)
        BY <1>5, NowFields
    <2> HIDE DEF x
    <2>2. ASSUME q.op = "import", ~q.sure, q.stream \in q.before
          PROVE  Deleted(Log(q.stream))
        <3>1. /\ q.obj \in DOMAIN objs /\ q.obj[3] = q.stream /\ IsCsb(q.reg)
              /\ q.obj = cache[q.host][q.reg][q.stream]
              /\ q.host \in Instances /\ q.reg \in Registries /\ q.stream \in Streams
            BY <1>2, <1>3 DEF Request, Store, Task, Holding, Req
        <3>2. q.obj # None
            BY <1>2, <3>1, SeenTypes, ObjectParts
        <3>3. Len(Log(q.stream)) > 0 /\ Log(q.stream)[1].src = q.src
            BY <1>2, <1>3, <2>2 DEF Careful, Warned
        <3>4. objs[q.obj].seen > 0 /\ objs[q.obj].seen \in Nat
            BY <1>2, <3>1, <3>2, <3>3, SeenTypes, SMTT(40) DEF CacheOk
        <3>5. /\ Len(Seen(q.obj)) > 0 /\ Len(Seen(q.obj)) \in Nat
              /\ \A n \in 1..Len(Seen(q.obj)) : n \in 1..Len(Log(q.stream))
                                                /\ Seen(q.obj)[n] = Log(q.stream)[n]
            BY <1>2, <3>1, <3>4, SeenIs
        <3>6. Seen(q.obj)[1].src = q.src
            BY <3>3, <3>5
        <3>7. Deleted(Seen(q.obj))
            BY <1>5, <2>2, <3>5, <3>6 DEF ImportedFrom
        <3> QED
            BY <3>5, <3>7 DEF Deleted
    <2>3. Limited(x)
        BY <2>1 DEF Limited
    <2>4. Warned(x)
        BY <1>2, <1>3, <2>1, <2>2 DEF Careful, Warned, SameTask, SamePlace
    <2> QED
        BY <1>3, <2>1, <2>3, <2>4, CareStep DEF Careful
<1> QED
    BY <1>1, <1>4, <1>5 DEF Inspect, Now

LEMMA CareScanDone ==
    ASSUME CareInv, RegistryInv', NEW r \in Requests, ScanDone(r)
    PROVE  CareInv'
<1>1. PICK q \in Req : q = req[r]
    BY PlaceIs DEF CareInv
<1>2. RegistryInv /\ Request(r, q) /\ Careful(q)
    BY <1>1 DEF CareInv, RegistryInv
<1>3. q.pc = "next" /\ q.todo = {} /\ q.phase = "scan" /\ Quiet
    BY <1>1, <1>2, QuietSame DEF ScanDone, AfterScan, Request, Task
<1> DEFINE x == [q EXCEPT !.pc = "lookup", !.phase = "source", !.reg = "pg",
                          !.stream = q.src, !.todo = {}]
<1>4. CASE Answer(r, "Shown")
    BY <1>3, <1>4, CareAnswered DEF Answers
<1>5. CASE Step(r, x)
    <2>1. x.pc = "lookup" /\ x.phase = "source" /\ SameTask(x, q)
        BY DEF Req, SameTask
    <2> HIDE DEF x
    <2>3. Limited(x)
        BY <2>1 DEF Limited
    <2>4. Warned(x)
        BY <1>2, <1>3, <2>1 DEF Careful, Warned, SameTask
    <2> QED
        BY <1>3, <1>5, <2>1, <2>3, <2>4, CareStep DEF Careful
<1> QED
    BY <1>1, <1>4, <1>5 DEF ScanDone, AfterScan

LEMMA CareSnapshot ==
    ASSUME CareInv, RegistryInv', NEW r \in Requests, NEW fresh \in CsbStreams,
           TakeSnapshot(r, fresh)
    PROVE  CareInv'
<1>1. PICK q \in Req : q = req[r]
    BY PlaceIs DEF CareInv
<1>2. RegistryInv /\ Request(r, q) /\ Careful(q)
    BY <1>1 DEF CareInv, RegistryInv
<1>3. q.pc = "held" /\ q.phase = "source" /\ q.obj \in DOMAIN objs
    BY <1>1, <1>2 DEF TakeSnapshot, Request, Store, Holding
<1>4. Quiet
    BY <1>1, <1>2, <1>3, QuietLoaded DEF TakeSnapshot
<1> DEFINE x == [q EXCEPT !.pc = "lookup", !.phase = "target", !.reg = q.into,
                          !.stream = fresh, !.obj = None]
<1>5. CASE Answer(r, "NotFound")
    BY <1>4, <1>5, CareAnswered DEF Answers
<1>6. CASE Step(r, x)
    <2>1. x.pc = "lookup" /\ x.phase = "target" /\ SameTask(x, q)
        BY DEF Req, SameTask
    <2> HIDE DEF x
    <2>3. Limited(x)
        BY <2>1 DEF Limited
    <2>4. Warned(x)
        BY <1>2, <1>3, <2>1 DEF Careful, Warned, SameTask
    <2> QED
        BY <1>4, <1>6, <2>1, <2>3, <2>4, CareStep DEF Careful
<1> QED
    BY <1>1, <1>5, <1>6 DEF TakeSnapshot, Snapshot

(* The projection that is checked is the whole stream, when it still is     *)
(* what the handle expects.                                                 *)
LEMMA CareCheck ==
    ASSUME CareInv, RegistryInv', NEW r \in Requests, NEW k, Check(r, k)
    PROVE  CareInv'
<1>1. PICK q \in Req : q = req[r]
    BY PlaceIs DEF CareInv
<1>2. RegistryInv /\ Request(r, q) /\ Careful(q) /\ Types /\ ObjectsOk
    BY <1>1 DEF CareInv, RegistryInv, Tables
<1>3. q.pc = "acting" /\ Quiet
    BY <1>1, <1>2, QuietStores DEF Check
<1>4. q.obj \in DOMAIN objs /\ q.obj[3] = q.stream /\ q.expected \in Nat
    BY <1>2, <1>3 DEF Request, Store, Holding, Req
<1> DEFINE x == [q EXCEPT !.pc = "checked", !.kind = k]
<1>5. CASE Answer(r, "LimitHit")
    BY <1>3, <1>5, CareAnswered DEF Answers
<1>6. CASE Step(r, x) /\ ~(q.reg = "pg" /\ LimitHit(Seen(q.obj), k))
    <2>1. /\ x.pc = "checked" /\ x.kind = k /\ x.obj = q.obj /\ x.expected = q.expected
          /\ SameTask(x, q) /\ SamePlace(x, q)
        BY DEF Req, SameTask, SamePlace
    <2> HIDE DEF x
    <2>2. ASSUME q.reg = "pg", q.expected = Len(Log(q.stream))
          PROVE  ~LimitHit(Log(q.stream), k)
        <3>1. q.expected <= objs[q.obj].seen
            BY <1>2, <1>3, <2>2 DEF Careful, Limited
        <3>2. objs[q.obj].seen <= Len(Log(q.stream)) /\ objs[q.obj].seen \in Nat
            BY <1>2, <1>4, SeenTypes
        <3>3. objs[q.obj].seen = Len(Log(q.stream))
            BY <1>4, <2>2, <3>1, <3>2
        <3>4. Seen(q.obj) = Log(q.stream)
            BY <1>2, <1>4, <3>3, SeenIs
        <3> QED
            BY <1>6, <2>2, <3>4
    <2>3. Limited(x)
        BY <1>2, <1>3, <2>1, <2>2 DEF Careful, Limited, SamePlace
    <2>4. Warned(x)
        BY <1>2, <1>3, <2>1 DEF Careful, Warned, SameTask, SamePlace
    <2> QED
        BY <1>3, <1>4, <1>6, <2>1, <2>3, <2>4, CareStep DEF Careful
<1> QED
    BY <1>1, <1>5, <1>6 DEF Check

LEMMA CareTakeLoaded ==
    ASSUME CareInv, RegistryInv', NEW r \in Requests, TakeLoaded(r)
    PROVE  CareInv'
<1>1. PICK q \in Req : q = req[r]
    BY PlaceIs DEF CareInv
<1>2. RegistryInv /\ Request(r, q) /\ Types /\ ObjectsOk
    BY <1>1 DEF CareInv, RegistryInv, Tables
<1>3. q.pc = "held" /\ q.op # "import" /\ objs' = Loaded(q.obj) /\ UNCHANGED <<rows, now>>
    BY <1>1 DEF TakeLoaded
<1>4. q.obj \in DOMAIN objs /\ q.obj[3] = q.stream /\ q.stream \in Streams
    BY <1>2, <1>3 DEF Request, Store, Task, Holding
<1>5. Quiet
    BY <1>2, <1>3, <1>4, QuietLoaded
<1>6. PICK n \in Nat : n = Len(Log(q.stream))
    BY <1>2, <1>4, LogTypes
<1>7. PICK x : x = [q EXCEPT !.pc = "acting", !.expected = n]
    OBVIOUS
<1>8. Step(r, x)
    BY <1>1, <1>6, <1>7 DEF TakeLoaded
<1>9. x.pc = "acting" /\ x.op = q.op /\ x.obj = q.obj /\ x.expected = n
    BY <1>7 DEF Req
<1>10. objs'[q.obj].seen = n
    BY <1>2, <1>3, <1>4, <1>6, LoadedIs
<1>11. Careful(x)'
    BY <1>3, <1>9, <1>10 DEF Careful, Limited, Warned
<1>12. req'[r] = x /\ \A p \in Requests \ {r} : req'[p] = req[p]
    BY <1>2, <1>8 DEF Types, Step
<1>13. Careful(req[r])'
    BY <1>11, <1>12
<1> QED
    BY <1>5, <1>12, <1>13, CareQuiet

(* An event is recorded.                                                    *)
LEMMA LogGrows ==
    ASSUME Types, NEW s \in Streams, NEW i, NEW o, NEW e \in Entry, Grown(s, i, o, e),
           NEW t \in Streams
    PROVE  /\ Len(Log(t)) \in Nat /\ Len(Log(t)') \in Nat /\ Len(Log(t)) <= Len(Log(t)')
           /\ rows'[t].scope = rows[t].scope
           /\ \A n \in 1..Len(Log(t)) : n \in 1..Len(Log(t)') /\ Log(t)'[n] = Log(t)[n]
<1>1. Log(t) \in Seq(Entry) /\ Len(Log(t)) \in Nat
    BY LogTypes
<1>2. CASE t = s
    <2>1. Log(t)' = Append(Log(t), e) /\ rows'[t].scope = rows[t].scope
        BY <1>2 DEF Grown, Log
    <2> QED
        BY <1>1, <2>1, AppendProperties
<1>3. CASE t # s
    BY <1>1, <1>3 DEF Grown
<1> QED
    BY <1>2, <1>3

LEMMA WarnedGrown ==
    ASSUME Types, NEW s \in Streams, NEW i, NEW o, NEW e \in Entry, Grown(s, i, o, e),
           NEW y \in Req, Warned(y)
    PROVE  Warned(y)'
<1> SUFFICES ASSUME y.op = "import", ~y.sure
             PROVE  Warned(y)'
    BY DEF Warned
<1>1. ASSUME NEW c \in y.before
      PROVE  /\ Len(Log(c)') > 0 /\ Log(c)'[1] = Log(c)[1]
             /\ Deleted(Log(c)) => Deleted(Log(c)')
             /\ InScope(c, y.reg) => InScope(c, y.reg)'
    <2>1. c \in Streams /\ Len(Log(c)) > 0
        BY DEF Req, Streams, Warned
    <2>2. /\ Len(Log(c)) \in Nat /\ Len(Log(c)') \in Nat /\ Len(Log(c)) <= Len(Log(c)')
          /\ rows'[c].scope = rows[c].scope
          /\ \A n \in 1..Len(Log(c)) : n \in 1..Len(Log(c)') /\ Log(c)'[n] = Log(c)[n]
        BY <2>1, LogGrows
    <2>3. Len(Log(c)') > 0 /\ Log(c)'[1] = Log(c)[1]
        BY <2>1, <2>2
    <2>4. Deleted(Log(c)) => Deleted(Log(c)')
        BY <2>2 DEF Deleted
    <2>5. InScope(c, y.reg) => InScope(c, y.reg)'
        BY <2>2, <2>3 DEF InScope
    <2> QED
        BY <2>3, <2>4, <2>5
<1>3. y.pc = "scan" => \A c \in y.before : InScope(c, y.reg)'
    BY <1>1 DEF Warned
<1>4. \A c \in y.before : Len(Log(c)') > 0
    BY <1>1
<1>5. y.phase \in {"scan", "source"} => \A c \in y.before : Log(c)'[1].src = y.src
    BY <1>1 DEF Warned
<1>6. y.phase = "scan" /\ y.pc # "scan" =>
        \A c \in y.before : c \in y.todo \/ Deleted(Log(c)') \/ (y.pc # "next" /\ c = y.stream)
    BY <1>1 DEF Warned
<1>7. y.phase \in {"source", "target"} \/ y.wrote > 0 => \A c \in y.before : Deleted(Log(c)')
    BY <1>1 DEF Warned
<1> QED
    BY <1>3, <1>4, <1>5, <1>6, <1>7 DEF Warned, Log, Deleted

LEMMA LimitedGrown ==
    ASSUME Types, ObjectsOk, NEW s \in Streams, NEW i, NEW o \in DOMAIN objs, NEW e \in Entry,
           Grown(s, i, o, e), o[3] = s, UNCHANGED now, NEW y \in Req, Limited(y),
           y.pc \in {"acting", "checked"} =>
               y.obj \in DOMAIN objs /\ y.obj[3] = y.stream /\ y.stream \in Streams
    PROVE  Limited(y)'
<1> SUFFICES ASSUME y.reg = "pg", y.pc \in {"acting", "checked"}
             PROVE  /\ y.expected <= objs'[y.obj].seen
                    /\ y.pc = "checked" /\ y.expected = Len(Log(y.stream)')
                         => ~LimitHit(Log(y.stream), y.kind)'
    BY DEF Limited
<1>1. PICK p \in DOMAIN objs, t \in Streams : p = y.obj /\ t = y.stream /\ p[3] = t
    OBVIOUS
<1>2. /\ objs[p].seen \in Nat /\ objs[p].seen <= Len(Log(t)) /\ Len(Log(t)) \in Nat
      /\ y.expected \in Nat /\ y.expected <= objs[p].seen
    BY <1>1, SeenTypes DEF Limited, Req
<1>3. objs[p].seen <= objs'[p].seen /\ objs'[p].seen \in Nat
    <2>1. Len(Log(s)) \in Nat
        BY LogTypes
    <2>2. CASE p = o
        BY <1>1, <1>2, <2>1, <2>2 DEF Grown
    <2>3. CASE p # o
        BY <1>2, <2>3 DEF Grown
    <2> QED
        BY <2>2, <2>3
<1>4. ASSUME y.pc = "checked", y.expected = Len(Log(y.stream)')
      PROVE  ~LimitHit(Log(y.stream), y.kind)'
    <2>1. t # s
        BY <1>1, <1>2, <1>4 DEF Grown
    <2>2. PICK log : log = Log(t) /\ log = Log(t)'
        BY <2>1 DEF Grown
    <2>3. PICK k : k = y.kind
        OBVIOUS
    <2>4. ~LimitHit(log, k)
        BY <1>1, <1>4, <2>2, <2>3 DEF Limited
    <2>5. ~LimitHit(log, k)'
        BY <2>4 DEF LimitHit
    <2> QED
        BY <1>1, <2>2, <2>3, <2>5
<1> QED
    BY <1>1, <1>2, <1>3, <1>4

LEMMA CareWrite ==
    ASSUME CareInv, RegistryInv', NEW r \in Requests, Write(r)
    PROVE  CareInv'
<1>1. PICK q \in Req : q = req[r]
    BY PlaceIs DEF CareInv
<1>2. RegistryInv /\ Request(r, q) /\ Careful(q) /\ Types /\ Tables /\ ObjectsOk
    BY <1>1 DEF CareInv, RegistryInv, Tables
<1>3. /\ q.pc = "checked" /\ UNCHANGED <<cache, now>> /\ now \in Nat
      /\ q.reg = "pg" => q.expected = Len(Log(q.stream))
    BY <1>1, <1>2 DEF Write, Recorded, Types
<1>4. PICK s \in Streams, i \in Instances, o \in DOMAIN objs, e \in Entry :
         s = q.stream /\ i = q.host /\ o = q.obj /\ e = Event(q.kind, q.src, q.upto)
    BY <1>1, <1>2, <1>3, WriteTypes
<1>5. o[3] = s /\ rows[s].scope = ScopeOf(q.reg) /\ rows[s] # NoRow /\ q.reg \in Registries
    BY <1>1, <1>2, <1>3, <1>4, WriteTypes
<1>6. e.at = now /\ e.kind = q.kind
    BY <1>4 DEF Event
<1> DEFINE x == [q EXCEPT !.pc = "acting", !.kind = None, !.wrote = q.wrote + 1,
                          !.expected = q.expected + 1]
<1>7. /\ rows' = WithEvent(s, e) /\ objs' = WithSeen(o, Len(Log(s)) + 1)
      /\ told' = WithTold(i, s, Len(Log(s)) + 1) /\ Step(r, x)
    BY <1>1, <1>4 DEF Write, Recorded, WithEvent, WithSeen, WithTold
<1>8. Grown(s, i, o, e)
    BY <1>2, <1>7, RecordedTables
<1>9. /\ x.pc = "acting" /\ x.obj = q.obj /\ x.expected = q.expected + 1
      /\ x.wrote = q.wrote + 1 /\ SamePlace(x, q) /\ x.op = q.op /\ x.sure = q.sure
      /\ x.before = q.before /\ x.src = q.src
    BY DEF Req, SamePlace
<1> HIDE DEF x
<1>10. req'[r] = x /\ \A p \in Requests \ {r} : req'[p] = req[p]
    BY <1>2, <1>7 DEF Types, Step
<1>11. Log(s) \in Seq(Entry) /\ Len(Log(s)) \in Nat
    BY <1>2, LogTypes
<1>12. PastOk'
    <2> SUFFICES ASSUME NEW t \in Streams, NEW n \in 1..Len(Log(t)')
                 PROVE  Log(t)'[n].at <= now
        BY <1>3 DEF PastOk, Log
    <2>1. \A m \in 1..Len(Log(t)) : Log(t)[m].at <= now
        BY DEF CareInv, PastOk
    <2>2. CASE t # s
        BY <1>8, <2>1, <2>2 DEF Grown
    <2>3. CASE t = s
        <3>1. Log(t)' = Append(Log(s), e)
            BY <1>8, <2>3 DEF Grown, Log
        <3>2. n \in 1..Len(Log(s)) \/ n = Len(Log(s)) + 1
            BY <1>11, <3>1, AppendProperties
        <3>3. /\ \A m \in 1..Len(Log(s)) : Append(Log(s), e)[m] = Log(s)[m]
              /\ Append(Log(s), e)[Len(Log(s)) + 1] = e
            BY <1>11, AppendProperties
        <3> QED
            BY <1>3, <1>6, <2>1, <2>3, <3>1, <3>2, <3>3
    <2> QED
        BY <2>2, <2>3
<1>13. LimitsHold'
    <2>1. \A t \in PgStreams : WithinLimits(Log(t))
        BY LimitsAre DEF CareInv
    <2>2. ASSUME NEW t \in PgStreams
          PROVE  WithinLimits(Log(t)')
        <3>1. CASE t # s
            BY <1>8, <2>1, <3>1 DEF Grown, Streams
        <3>2. CASE t = s
            <4>1. q.reg = "pg"
                <5>1. rows[s].scope \in {None, "PoliticalGroup"} /\ ScopeOf(q.reg) # None
                    BY <1>2, <1>5, <3>2, ScopesDiffer DEF Tables, RowsOk
                <5> QED
                    BY <1>5, <5>1, ScopesDiffer
            <4>2. ~LimitHit(Log(s), e.kind)
                BY <1>2, <1>3, <1>4, <1>6, <4>1 DEF Careful, Limited
            <4>3. \A m \in 1..Len(Log(s)) : Log(s)[m].at <= now
                BY DEF CareInv, PastOk
            <4>4. WithinLimits(Append(Log(s), e))
                BY <1>3, <1>6, <1>11, <2>1, <3>2, <4>2, <4>3, AppendFits
            <4>5. Log(t)' = Append(Log(s), e)
                BY <1>8, <3>2 DEF Grown, Log
            <4> QED
                BY <4>4, <4>5
        <3> QED
            BY <3>1, <3>2
    <2>3. \A t \in PgStreams : \A n \in 1..Len(Log(t)') : LimitsAt(Log(t)', n)
        BY <2>2 DEF WithinLimits
    <2> QED
        BY <2>3 DEF LimitsHold, LimitsAt, Log, InWindow, Downloads
<1>14. ASSUME NEW p \in Requests \ {r}
       PROVE  Careful(req[p])'
    <2>1. PICK y \in Req : y = req[p]
        BY <1>2, PlaceIs
    <2>2. Careful(y)
        BY <2>1 DEF CareInv
    <2>3. y.pc \in {"acting", "checked"} =>
             y.obj \in DOMAIN objs /\ y.obj[3] = y.stream /\ y.stream \in Streams
        BY <1>2, <2>1, PlaceIs DEF Holding
    <2>4. Warned(y)'
        BY <1>2, <1>8, <2>2, WarnedGrown DEF Careful
    <2>5. Limited(y)'
        BY <1>2, <1>3, <1>5, <1>8, <2>2, <2>3, LimitedGrown DEF Careful
    <2> QED
        BY <1>10, <2>1, <2>4, <2>5 DEF Careful
<1>15. Careful(req[r])'
    <2>1. PICK z : z = x
        OBVIOUS
    <2>2. Limited(z)'
        <3>1. objs'[o].seen = Len(Log(s)) + 1
            BY <1>8 DEF Grown
        <3>2. q.reg = "pg" => q.expected + 1 <= objs'[o].seen
            BY <1>3, <1>4, <1>11, <3>1
        <3> QED
            BY <1>4, <1>9, <2>1, <3>2 DEF Limited, SamePlace
    <2>3. Warned(q)'
        BY <1>2, <1>8, WarnedGrown DEF Careful
    <2>4. q.op = "import" => q.phase = "target"
        BY <1>2, <1>3 DEF Request, Task
    <2>5. Warned(z)'
        BY <1>9, <2>1, <2>3, <2>4 DEF Warned, SamePlace
    <2> QED
        BY <1>10, <2>1, <2>2, <2>5 DEF Careful
<1> QED
    BY <1>10, <1>12, <1>13, <1>14, <1>15 DEF CareInv

-----------------------------------------------------------------------------
(* The limits hold, and so does the warning.                                *)

LEMMA PastFits ==
    ASSUME NEW log \in Seq(Entry), \A k \in 1..Len(log) : log[k].kind = "login",
           EventsTotal > 0 => Len(log) <= EventsTotal, MaxEvents > 0 => Len(log) <= MaxEvents
    PROVE  WithinLimits(log)
<1> SUFFICES ASSUME NEW n \in 1..Len(log)
             PROVE  LimitsAt(log, n)
    BY DEF WithinLimits
<1> DEFINE cut == SubSeq(log, 1, n)
           recent == InWindow(cut, cut[n].at)
<1>1. cut \in Seq(Entry) /\ Len(cut) = n /\ \A k \in 1..n : cut[k] = log[k]
    OBVIOUS
<1> HIDE DEF cut
<1>2. recent \subseteq 1..n /\ Cardinality(recent) \in Nat
    BY <1>1, WindowFinite
<1>3. IsFiniteSet(1..n) /\ Cardinality(1..n) = n
    BY FS_Interval
<1>4. Cardinality(recent) <= n
    BY <1>2, <1>3, FS_Subset
<1>5. Downloads(cut, recent) = {}
    BY <1>1, <1>2 DEF Downloads
<1>6. Cardinality(Downloads(cut, recent)) = 0
    BY <1>5, FS_EmptySet
<1> HIDE DEF recent
<1>7. /\ EventsTotal > 0 => n <= EventsTotal
      /\ MaxEvents > 0 => Cardinality(recent) <= MaxEvents
      /\ MaxDownloads > 0 => Cardinality(Downloads(cut, recent)) <= MaxDownloads
    BY <1>2, <1>4, <1>6, LimitTypes
<1> QED
    BY <1>7 DEF LimitsAt, cut, recent

LEMMA CareInitially ==
    ASSUME Init
    PROVE  CareInv
<1>1. PICK c \in Scenes :
        /\ now = c.start
        /\ rows = [s \in Streams |-> IF c.past[s] = 0 THEN NoRow ELSE Row(s, c.past[s])]
        /\ req = [r \in Requests |-> NewRequest(c.host[r], c.ops[r])]
    BY DEF Init
<1>2. c.past \in [Streams -> Nat] /\ c.start \in Nat
    BY ScenesAssumption
<1>3. \A s \in Streams : /\ c.past[s] \in Nat
                         /\ rows[s] = IF c.past[s] = 0 THEN NoRow ELSE Row(s, c.past[s])
    BY <1>1, <1>2
<1>4. ASSUME NEW s \in Streams
      PROVE  /\ Log(s) \in Seq(Entry) /\ Len(Log(s)) = c.past[s]
             /\ \A n \in 1..Len(Log(s)) : Log(s)[n].at = 0
             /\ s \in PgStreams => \A n \in 1..Len(Log(s)) : Log(s)[n].kind = "login"
    <2>1. CASE c.past[s] = 0
        <3>1. Log(s) = << >>
            BY <1>3, <2>1, NoRowIs DEF Log
        <3> QED
            BY <2>1, <3>1
    <2>2. CASE c.past[s] # 0
        <3>1. rows[s] = Row(s, c.past[s]) /\ c.past[s] \in Nat
            BY <1>3, <2>2
        <3>2. Row(s, c.past[s]).log \in Seq(Entry)
            BY <3>1, RowIs DEF RowSet
        <3> QED
            BY <3>1, <3>2, RowIs DEF Log
    <2> QED
        BY <2>1, <2>2
<1>5. PastOk
    BY <1>1, <1>2, <1>4 DEF PastOk
<1>6. \A s \in PgStreams : WithinLimits(Log(s))
    <2> SUFFICES ASSUME NEW s \in PgStreams
                 PROVE  WithinLimits(Log(s))
        OBVIOUS
    <2>1. s \in Streams
        BY DEF Streams
    <2>2. /\ EventsTotal > 0 => c.past[s] <= EventsTotal
          /\ MaxEvents > 0 => c.past[s] <= MaxEvents
        BY PastAssumption
    <2> QED
        BY <1>4, <2>1, <2>2, PastFits
<1>7. ASSUME NEW r \in Requests
      PROVE  Careful(req[r])
    <2>1. req[r] = NewRequest(c.host[r], c.ops[r])
        BY <1>1
    <2>2. req[r].op = None /\ req[r].reg = None
        BY <2>1, NewFields
    <2>3. None # "import" /\ None # "pg"
        BY StreamsAssumption DEF Ops, Registries
    <2> QED
        BY <2>2, <2>3 DEF Careful, Limited, Warned
<1> QED
    BY <1>5, <1>6, <1>7, InitInv, LimitsAre DEF CareInv

LEMMA CareProgress ==
    ASSUME CareInv, RegistryInv', NEW r \in Requests, Progress(r)
    PROVE  CareInv'
BY CareSimple, CareLookup, CareEnds, CareScans, CareInspect, CareScanDone, CareSnapshot,
   CareCheck, CareTakeLoaded, CareWrite DEF Progress

(* CareInv adds to RegistryInv what a request has checked before it acts:   *)
(* the limits, against the projection it will append to, and the imports    *)
(* there were when it was asked for.                                        *)
THEOREM CareHolds == Spec => []CareInv
<1>1. Init => CareInv
    BY CareInitially
<1>2. CareInv /\ [Next]_vars => CareInv'
    <2> SUFFICES ASSUME CareInv, [Next]_vars
                 PROVE  CareInv'
        OBVIOUS
    <2>1. RegistryInv /\ RegistryInv'
        BY RegistryStep DEF CareInv
    <2>2. CASE UNCHANGED vars
        <3>1. Quiet /\ req' = req
            BY <2>1, <2>2, QuietSame DEF vars
        <3> QED
            BY <2>1, <3>1, CareQuiet
    <2>3. CASE Next
        BY <2>1, <2>3, CareArrival, CareProgress, CareEnds, CareClock DEF Next
    <2> QED
        BY <2>2, <2>3
<1> QED
    BY <1>1, <1>2, PTL DEF Spec

(* LimitsHold, for any number of processes and requests that check a limit  *)
(* at once: an append succeeds only at the end of the stream that was       *)
(* checked, so what was counted is still what is there.                     *)
THEOREM LimitsKept == Spec => []LimitsHold
<1>1. CareInv => LimitsHold
    BY DEF CareInv
<1> QED
    BY <1>1, CareHolds, PTL

(* UnconfirmedIsFirst: an import goes past the scan without a confirmation  *)
(* only when every earlier import of the same event has been deleted, and a *)
(* deleted stream stays deleted.                                            *)
THEOREM UnconfirmedFirst == Spec => []UnconfirmedIsFirst
<1>1. CareInv => UnconfirmedIsFirst
    BY DEF CareInv, Careful, Warned, UnconfirmedIsFirst
<1> QED
    BY <1>1, CareHolds, PTL

=============================================================================
