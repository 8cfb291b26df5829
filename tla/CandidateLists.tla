--------------------------- MODULE CandidateLists ---------------------------
(***************************************************************************)
(* Persons and candidate lists: the projection PgStoreData, and the pages  *)
(* that change it (src/pg/candidate_lists, candidates and persons).        *)
(*                                                                         *)
(* The same handlers serve two kinds of sessions (PgStore).  A political   *)
(* group writes on its own stream, where a write is refused when another   *)
(* request wrote since this one arrived.  A committee member correcting    *)
(* the papers writes on the CSB stream, unconditionally, with decisions    *)
(* made on the request's own snapshot.                                     *)
(*                                                                         *)
(* On the own stream a request may read later states than the one it       *)
(* arrived in, but then it cannot write (EventStore, DecidedOnPredecessor):*)
(* the state it arrived in stands for everything that a write rests on.    *)
(***************************************************************************)
EXTENDS Naturals, FiniteSets, Sequences

CONSTANTS Persons,        \* person ids, drawn fresh when a person is entered
          Keys,           \* what identifies a person: a BSN, or name and birth date
          Lists,          \* candidate list ids
          Requests,
          Settings,       \* kinds of sessions and elections
          MaxCandidates, MaxPersons, MaxLists,   \* MAX_CANDIDATES, ...
          MaxRows,        \* bound: rows of an uploaded CSV file
          MaxEvents,      \* bound: events on the stream
          Start,          \* the projection at the start
          NoKey, Unborn, Deleted, NoList, NoPerson

Identities == Keys \cup {NoKey}        \* NoKey: not enough known to tell
Gone == {Unborn, Deleted}
Injective(s) == \A i, j \in DOMAIN s : s[i] = s[j] => i = j
On(s) == {s[i] : i \in DOMAIN s}

ListRecords == [at : Nat, candidates : Seq(Persons)]
Projections == [persons : [Persons -> Identities \cup Gone],
                lists : [Lists -> ListRecords \cup {NoList}]]

Alive(d) == {p \in Persons : d.persons[p] \notin Gone}
Kept(d) == {l \in Lists : d.lists[l] # NoList}
Candidates(d, l) == d.lists[l].candidates

(* What the handlers are to keep: see the properties below.                 *)
ExistIn(d) == \A l \in Kept(d) : On(Candidates(d, l)) \subseteq Alive(d)
DistinctIn(d) == \A l \in Kept(d) : Injective(Candidates(d, l))
IdentifiedIn(d) ==
    \A p, q \in Alive(d) : d.persons[p] = d.persons[q] => p = q \/ d.persons[p] = NoKey

ASSUME BoundsAssumption ==
    /\ Settings \subseteq [own : BOOLEAN,           \* own stream, or paper corrections
                            oneDistrict : BOOLEAN]   \* a single electoral district
    /\ MaxCandidates \in Nat /\ MaxPersons \in Nat /\ MaxLists \in Nat
    /\ MaxRows \in Nat /\ MaxEvents \in Nat
ASSUME ValuesAssumption ==
    /\ Gone \cap Identities = {} /\ NoKey \notin Keys
    /\ NoList \notin ListRecords /\ NoPerson \notin Persons
ASSUME StartAssumption ==
    Start \in Projections /\ ExistIn(Start) /\ DistinctIn(Start) /\ IdentifiedIn(Start)

VARIABLES setting,   \* WriteTarget and election: fixed
          data,      \* the projection
          version,   \* last_event_id
          req,       \* the requests
          wrote      \* history: the last event, and who decided it
vars == <<setting, data, version, req, wrote>>

Own == setting.own
OneDistrict == setting.oneDistrict

ReqRecords == [pc : {"idle", "in", "append"},
               seen : Nat,            \* seen_event_id
               view : Projections,    \* what the handler reads
               list : Lists \cup {NoList}, person : Persons \cup {NoPerson}]
NoReq == [pc |-> "idle", seen |-> 0, view |-> Start, list |-> NoList, person |-> NoPerson]

Kinds == {"none", "person", "delete", "list", "order", "reorder", "add", "remove", "import"}
Wrote == [kind : Kinds, by : Projections]

Init ==
    /\ setting \in Settings
    /\ data = Start
    /\ version = 0
    /\ req = [r \in Requests |-> NoReq]
    /\ wrote = [kind |-> "none", by |-> Start]

-----------------------------------------------------------------------------
(* The events: PgStoreData::apply.                                          *)

PersonSaved(d, p, k) == [d EXCEPT !.persons[p] = k]
(* UpdatePerson...: only a person who is there.                             *)
PersonUpdated(d, p, k) == IF p \in Alive(d) THEN PersonSaved(d, p, k) ELSE d

(* retain: a list holds a person at most once.                              *)
Without(s, p) ==
    IF p \notin On(s) THEN s
    ELSE LET i == CHOOSE i \in DOMAIN s : s[i] = p
         IN  [j \in 1..(Len(s) - 1) |-> IF j < i THEN s[j] ELSE s[j + 1]]
\* mutant: the person stays on the lists
PersonDeletedOnly(d, p) == [d EXCEPT !.persons[p] = Deleted]
PersonDeleted(d, p) ==
    [persons |-> [d.persons EXCEPT ![p] = Deleted],
     lists |-> [l \in Lists |-> IF l \notin Kept(d) THEN NoList
                                ELSE [d.lists[l] EXCEPT !.candidates = Without(@, p)]]]

ListCreated(d, l, s, at) == [d EXCEPT !.lists[l] = [at |-> at, candidates |-> s]]
ListDeleted(d, l) == [d EXCEPT !.lists[l] = NoList]
OrderUpdated(d, l, s) ==
    IF l \in Kept(d) THEN [d EXCEPT !.lists[l].candidates = s] ELSE d
\* mutant: added without looking whether the person is on the list
CandidateAddedTwice(d, l, p) ==
    IF l \in Kept(d) THEN [d EXCEPT !.lists[l].candidates = Append(@, p)] ELSE d
CandidateAdded(d, l, p) ==
    IF l \in Kept(d) /\ p \notin On(Candidates(d, l))
    THEN [d EXCEPT !.lists[l].candidates = Append(@, p)] ELSE d
CandidateRemoved(d, l, p) ==
    IF l \in Kept(d) THEN [d EXCEPT !.lists[l].candidates = Without(@, p)] ELSE d
(* ImportCandidates: new persons, updated ones if still there, the list.    *)
CandidatesImported(d, l, s, keys, new) ==
    LET known == {i \in DOMAIN s : s[i] \in new \cup Alive(d)}
        saved == [d EXCEPT !.persons = [p \in Persons |->
                      IF \E i \in known : s[i] = p
                      THEN keys[CHOOSE i \in known : s[i] = p] ELSE @[p]]]
    IN  OrderUpdated(saved, l, s)

-----------------------------------------------------------------------------
(* A request arrives: the middleware loads the stream and makes the handle. *)
Arrive(r) ==
    /\ req[r].pc = "idle" /\ version < MaxEvents
    /\ req' = [req EXCEPT ![r] = [pc |-> "in", seen |-> version, view |-> data,
                                  list |-> NoList, person |-> NoPerson]]
    /\ UNCHANGED <<setting, data, version, wrote>>

(* It ends without writing: a page, an invalid form, a limit, a conflict, a *)
(* failure, or a crash.                                                     *)
Leave(r) ==
    /\ req[r].pc # "idle"
    /\ req' = [req EXCEPT ![r] = NoReq]
    /\ UNCHANGED <<setting, data, version, wrote>>

(* PgStore::update                                                          *)
\* mutant: the handle writes on its own stream as paper corrections do
MayWriteAlways(r) == version < MaxEvents
MayWrite(r) == version < MaxEvents /\ (Own => req[r].seen = version)
Persist(r, kind, d) ==
    /\ MayWrite(r)
    /\ data' = d
    /\ version' = version + 1
    /\ wrote' = [kind |-> kind, by |-> req[r].view]
    /\ UNCHANGED setting
Update(r, kind, d) ==
    /\ req[r].pc = "in"
    /\ Persist(r, kind, d)
    /\ req' = [req EXCEPT ![r] = NoReq]

CandidateLimit(n) == Own => n <= MaxCandidates
PersonLimit(d, created) == Own /\ created > 0 => Cardinality(Alive(d)) + created <= MaxPersons
ListLimit(d) == Own => Cardinality(Kept(d)) < MaxLists

(* FullCandidateList: an error when a candidate is not among the persons.   *)
Readable(d, l) == l \in Kept(d) /\ On(Candidates(d, l)) \subseteq Alive(d)

-----------------------------------------------------------------------------
(* Persons.                                                                 *)

(* uniqueness_errors                                                        *)
Unique(d, k, except) == k = NoKey \/ \A q \in Alive(d) \ except : d.persons[q] # k

Fresh(p) == data.persons[p] = Unborn

CreatePerson(r, p, k) ==
    /\ Fresh(p) /\ Unique(req[r].view, k, {}) /\ PersonLimit(req[r].view, 1)
    /\ Update(r, "person", PersonSaved(data, p, k))

\* mutant: compared with itself only
UpdatePersonAny(r, p, k) ==
    /\ p \in Alive(req[r].view)
    /\ Update(r, "person", PersonUpdated(data, p, k))
UpdatePerson(r, p, k) ==
    /\ p \in Alive(req[r].view) /\ Unique(req[r].view, k, {p})
    /\ Update(r, "person", PersonUpdated(data, p, k))

DeletePerson(r, p) ==
    /\ p \in Alive(req[r].view)
    /\ Update(r, "delete", PersonDeleted(data, p))

-----------------------------------------------------------------------------
(* Candidate lists.                                                         *)

LastList(d, l) == l \in Kept(d) /\ \A k \in Kept(d) : d.lists[k].at <= d.lists[l].at

(* create_candidate_list_submit; create_only_candidate_list in an election  *)
(* with a single district.                                                  *)
CreateList(r, l, copy) ==
    LET view == req[r].view
        from == {k \in Lists : copy /\ LastList(view, k)}
    IN  /\ data.lists[l] = NoList
        /\ OneDistrict => Kept(view) = {} /\ ~copy
        /\ ListLimit(view)
        /\ \E s \in IF from = {} THEN {<< >>} ELSE {Candidates(view, k) : k \in from} :
               Update(r, "list", ListCreated(data, l, s, version))
DeleteList(r, l) ==
    /\ l \in Kept(req[r].view)
    /\ Update(r, "list", ListDeleted(data, l))

(* CandidateList::update_order                                              *)
OrderAllowed(view, l, s) ==
    /\ l \in Kept(view)
    /\ CandidateLimit(Len(s)) /\ Injective(s) /\ On(s) \subseteq Alive(view)
UpdateOrder(r, kind, l, s) ==
    /\ OrderAllowed(req[r].view, l, s)
    /\ Update(r, kind, OrderUpdated(data, l, s))

(* reorder_candidate_list: an order that was dragged together on a page.    *)
Reorder(r, l, s) ==
    /\ l \in Kept(req[r].view)
    /\ On(s) = On(Candidates(req[r].view, l))
    /\ UpdateOrder(r, "reorder", l, s)

(* CandidateList::update_position                                           *)
Moved(s, i, j) ==
    [n \in DOMAIN s |-> IF n = j THEN s[i]
                        ELSE IF i <= n /\ n < j THEN s[n + 1]
                        ELSE IF j < n /\ n <= i THEN s[n - 1] ELSE s[n]]
UpdatePosition(r, l, i, j) ==
    /\ Readable(req[r].view, l)
    /\ i \in DOMAIN Candidates(req[r].view, l) /\ j \in DOMAIN Candidates(req[r].view, l)
    /\ UpdateOrder(r, "order", l, Moved(Candidates(req[r].view, l), i, j))

(* handle_add_candidate_form: AddAll, with the other persons in some order, *)
(* RemoveAll, and TogglePerson.                                             *)
Truncated(s) == IF Own /\ Len(s) > MaxCandidates THEN SubSeq(s, 1, MaxCandidates) ELSE s
AddAll(r, l, others) ==
    LET view == req[r].view
    IN  /\ Readable(view, l)
        /\ Injective(others) /\ On(others) = Alive(view) \ On(Candidates(view, l))
        /\ UpdateOrder(r, "order", l, Truncated(Candidates(view, l) \o others))
RemoveAll(r, l, n) ==
    /\ Readable(req[r].view, l)
    /\ n \in 0..Len(Candidates(req[r].view, l))
    /\ UpdateOrder(r, "order", l, SubSeq(Candidates(req[r].view, l), 1, n))
AppendCandidate(r, l, p) ==
    LET view == req[r].view
    IN  /\ Readable(view, l)
        /\ p \in Alive(view) \ On(Candidates(view, l))
        /\ CandidateLimit(Len(Candidates(view, l)) + 1)
        /\ Update(r, "add", CandidateAdded(data, l, p))
RemoveCandidate(r, l, p) ==
    /\ Readable(req[r].view, l)
    /\ p \in On(Candidates(req[r].view, l))
    /\ Update(r, "remove", CandidateRemoved(data, l, p))

(* create_person_candidate_list_submit: two events; the handle goes on from *)
(* the state that its first one led to.                                     *)
CreateCandidate(r, l, p, k) ==
    LET view == req[r].view
        next == PersonSaved(data, p, k)
    IN  /\ req[r].pc = "in"
        /\ Readable(view, l) /\ CandidateLimit(Len(Candidates(view, l)) + 1)
        /\ Fresh(p) /\ Unique(view, k, {}) /\ PersonLimit(view, 1)
        /\ Persist(r, "person", next)
        /\ req' = [req EXCEPT ![r] = [pc |-> "append", seen |-> version + 1, view |-> next,
                                      list |-> l, person |-> p]]
AppendCreated(r) ==
    /\ req[r].pc = "append"
    /\ Persist(r, "add", CandidateAdded(data, req[r].list, req[r].person))
    /\ req' = [req EXCEPT ![r] = NoReq]

(* import_candidate_list_csv.  keys: the rows, those of one identity merged *)
(* into the first; each is the person known by it, or a new one.            *)
SamePerson(view, k) == {q \in Alive(view) : k # NoKey /\ view.persons[q] = k}
ImportCandidates(r, l, keys, s) ==
    LET view == req[r].view
        new == {s[i] : i \in {i \in DOMAIN keys : SamePerson(view, keys[i]) = {}}}
    IN  /\ l \in Kept(view)
        /\ CandidateLimit(Len(keys))
        /\ \A i, j \in DOMAIN keys : keys[i] = keys[j] => i = j \/ keys[i] = NoKey
        /\ DOMAIN s = DOMAIN keys /\ Injective(s)
        /\ \A i \in DOMAIN keys : IF SamePerson(view, keys[i]) = {} THEN Fresh(s[i])
                                  ELSE s[i] \in SamePerson(view, keys[i])
        /\ PersonLimit(view, Cardinality(new))
        /\ Update(r, "import", CandidatesImported(data, l, s, keys, new))

(* Any other event: districts, addresses, downloads, log in...              *)
OtherEvent(r) == Update(r, "none", data)

SeqsUpTo(S, n) == UNION {[1..m -> S] : m \in 0..n}
OnPersons(r) ==
    /\ req[r].pc = "in" /\ MayWrite(r)
    /\ \E p \in Persons : \/ \E k \in Identities : CreatePerson(r, p, k) \/ UpdatePerson(r, p, k)
                          \/ DeletePerson(r, p)
OnLists(r) ==
    /\ req[r].pc = "in" /\ MayWrite(r)
    /\ \E l \in Lists :
        \/ \E copy \in BOOLEAN : CreateList(r, l, copy)
        \/ DeleteList(r, l)
        \/ \E s \in SeqsUpTo(Persons, Cardinality(Persons)) : Reorder(r, l, s) \/ AddAll(r, l, s)
        \/ \E i, j \in 1..Cardinality(Persons) : UpdatePosition(r, l, i, j)
        \/ \E n \in 0..Cardinality(Persons) : RemoveAll(r, l, n)
        \/ \E p \in Persons : AppendCandidate(r, l, p) \/ RemoveCandidate(r, l, p)
        \/ \E p \in Persons, k \in Identities : CreateCandidate(r, l, p, k)
        \/ \E keys \in SeqsUpTo(Identities, MaxRows) : \E s \in [DOMAIN keys -> Persons] :
               ImportCandidates(r, l, keys, s)
Next ==
    \E r \in Requests : \/ Arrive(r) \/ Leave(r)
                        \/ OnPersons(r) \/ OnLists(r) \/ AppendCreated(r) \/ OtherEvent(r)
Spec == Init /\ [][Next]_vars

-----------------------------------------------------------------------------
TypeOK ==
    /\ setting \in Settings
    /\ data \in Projections
    /\ version \in Nat
    /\ req \in [Requests -> ReqRecords]
    /\ wrote \in Wrote

(* Every candidate on a list is a person of the group: otherwise neither    *)
(* the list's page nor any document of it can be made                       *)
(* (build_full_candidate_list; update_order: "check all new ids exist").    *)
CandidatesExist == Own => ExistIn(data)

(* "a person holds at most one position on a list" (update_order), even     *)
(* when two members add the same person at once, on either stream.          *)
PositionsDistinct == DistinctIn(data)

(* "A person with the same BSN, or without a BSN the same name and date of  *)
(* birth, may not be entered twice" (uniqueness_errors), by whatever way a  *)
(* political group enters them.                                             *)
IdentitiesDistinct == Own => IdentifiedIn(data)

(* A political group's reorder "only permutes the current candidates".      *)
ReorderPermutes ==
    [][Own /\ version' # version /\ wrote'.kind = "reorder" =>
           \A l \in Kept(data) : l \in Kept(data') /\ On(Candidates(data', l)) = On(Candidates(data, l))]_vars

(* A political group's candidate who remains a person leaves a list only by *)
(* the decision of someone who saw them on it: no write undoes what another *)
(* request added (seen_event_id).                                           *)
NothingLostUnseen ==
    [][Own /\ version' # version =>
           \A l \in Kept(data) \cap Kept(data') :
               (On(Candidates(data, l)) \ On(Candidates(data', l))) \cap Alive(data') \subseteq
                   IF l \in Kept(wrote'.by) THEN On(Candidates(wrote'.by, l)) ELSE {}]_vars
=============================================================================
