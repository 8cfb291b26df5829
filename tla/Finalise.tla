------------------------------ MODULE Finalise ------------------------------
(***************************************************************************)
(* The numbering of the candidate lists and the final documents            *)
(* (src/csb/finalise), over the two kinds of streams they are made from:   *)
(* the committee's main stream (CsbMainStoreData: the recorded list order, *)
(* the previous results of the registered groups) and one stream for each  *)
(* imported group (deleted or not, its appellation, the districts with a   *)
(* valid list and those where such a list still has a candidate).          *)
(*                                                                         *)
(* Several instances share the streams.  Each keeps a projection of every  *)
(* stream.  That of the main stream is loaded when a request arrives       *)
(* (csb_store_middleware); those of the groups come from the registry,     *)
(* which loads a stream when it is not cached and otherwise hands out the  *)
(* projection as it is.  It is caught up by an append to the stream, and   *)
(* when somebody in this process loads it for a reason of its own.         *)
(***************************************************************************)
EXTENDS Naturals, FiniteSets, Sequences

CONSTANTS Streams,        \* the streams of the political groups
          Instances,      \* processes of the application
          Requests,       \* requests of committee members
          InstanceOf,     \* the process that handles a request
          Payloads,       \* list orders that a page may post
          Scenes,         \* what there is at the start, who does what, and bounds
          MaxVotes, MaxDistricts, MaxName,
          NoStream, NotCached

Distinct(q) == \A i, j \in DOMAIN q : q[i] = q[j] => i = j
On(q) == {q[i] : i \in DOMAIN q}

Statuses == {"none", "live", "deleted"}
Names == 0..MaxName       \* appellations, by their rank in the alphabet
GroupRecords ==
    {g \in [status : Statuses, name : Names,
            districts : 0..MaxDistricts,     \* with a valid list,
            manned : 0..MaxDistricts] :      \* one that has a candidate left
        g.manned <= g.districts}
Ops == {"zip", "draft", "order", "delete"}
Attempts == 3             \* UPDATE_WHEN_ATTEMPTS
Documents == 5            \* EML 230, per district, publication, overview, I 4

ASSUME StreamsAssumption ==
    /\ IsFiniteSet(Streams) /\ NoStream \notin Streams
    /\ InstanceOf \in [Requests -> Instances]
    /\ Payloads \subseteq Seq(Streams)
ASSUME BoundsAssumption ==
    MaxVotes \in Nat /\ MaxDistricts \in Nat /\ MaxName \in Nat /\ NotCached \notin GroupRecords
ASSUME ScenesAssumption ==
    \A c \in Scenes :
        /\ c = [order |-> c.order, votes |-> c.votes, groups |-> c.groups, ops |-> c.ops,
                makes |-> c.makes,        \* what imports and decisions make of a group
                events |-> c.events,      \* bound: events on the main stream
                changes |-> c.changes]    \* bound: events on the streams of the groups
        /\ c.order \in Seq(Streams) /\ Distinct(c.order)
        /\ c.votes \in [Names -> 0..MaxVotes] /\ c.groups \in [Streams -> GroupRecords]
        /\ c.makes \subseteq GroupRecords
        /\ c.ops \in [Requests -> SUBSET Ops] /\ c.events \in Nat /\ c.changes \in Nat

VARIABLES scene,     \* fixed
          main,      \* the main stream: list_order, previous results, last_event_id
          known,     \* each instance's projection of it
          groups,    \* the streams of the groups
          cached,    \* each instance's projections of those
          changes,   \* events on the streams of the groups
          req        \* the requests
vars == <<scene, main, known, groups, cached, changes, req>>

MainRecords == [order : Seq(Streams), votes : [Names -> 0..MaxVotes], events : Nat]
DocumentRecords == [order : Seq(Streams), numbered : SUBSET Streams, shown : SUBSET Streams]
ReqRecords == [op : Ops \cup {"none"},
               pc : {"idle", "number", "record", "render", "check", "write",
                     "find", "delete", "decide", "remove"},
               target : Streams \cup {NoStream},
               order : Seq(Streams),            \* numbered, posted, or without the target
               numbered : SUBSET Streams,       \* the groups with a position
               expected : Nat, attempts : 0..(Attempts - 1), \* update_when
               docs : Seq(DocumentRecords),
               disturbed : BOOLEAN]             \* history: others wrote since it arrived
Opened(op, pc, s) ==
    [op |-> op, pc |-> pc, target |-> s, order |-> << >>, numbered |-> {},
     expected |-> 0, attempts |-> 0, docs |-> << >>, disturbed |-> FALSE]
NoReq == Opened("none", "idle", NoStream)

Init ==
    /\ scene \in Scenes
    /\ main = [order |-> scene.order, votes |-> scene.votes, events |-> 0]
    /\ groups = scene.groups
    /\ known = [i \in Instances |-> main]
    /\ cached = [i \in Instances |-> [s \in Streams |-> NotCached]]
    /\ changes = 0
    /\ req = [r \in Requests |-> NoReq]

-----------------------------------------------------------------------------
(* Streams and projections.                                                 *)

(* stores_for_election: the streams that have events, as this process       *)
(* caches them or else loaded now.                                          *)
View(i) == [s \in Streams |-> IF cached[i][s] = NotCached THEN groups[s] ELSE cached[i][s]]
Listed == {s \in Streams : groups[s].status # "none"}
LookUp(i, S) == cached' = [cached EXCEPT ![i] =
                    [s \in Streams |-> IF s \in S THEN View(i)[s] ELSE cached[i][s]]]

(* Others at work while a request is handled; for the property below.       *)
Disturb(q, R) == [x \in Requests |-> IF x \in R THEN [q[x] EXCEPT !.disturbed = TRUE] ELSE q[x]]

(* An append to the main stream, which also catches this process up.        *)
AppendMain(i, m) ==
    /\ main.events < scene.events
    /\ main' = [order |-> m.order, votes |-> m.votes, events |-> main.events + 1]
    /\ known' = [known EXCEPT ![i] = main']
(* An append to a group's stream.                                           *)
AppendGroup(i, s, g) ==
    /\ changes < scene.changes /\ changes' = changes + 1
    /\ groups' = [groups EXCEPT ![s] = g]
    /\ cached' = [cached EXCEPT ![i][s] = g]

-----------------------------------------------------------------------------
(* ListNumbering::new.                                                      *)

Eligible(v) == {s \in Streams : v[s].status = "live" /\ v[s].districts > 0}
VotesOf(v, m, s) == m.votes[v[s].name]       \* previous_result: by appellation
OnVotes(v, m, s) == VotesOf(v, m, s) > 0     \* numbered_on_votes: seated
PlaceOf(q, s) == CHOOSE k \in DOMAIN q : q[k] = s /\ \A j \in DOMAIN q : q[j] = s => k <= j

(* The starting order: on votes, then most districts, then alphabetically.  *)
StartsBefore(v, m, a, b) ==
    LET on(s) == OnVotes(v, m, s)
        key(s) == IF on(s) THEN VotesOf(v, m, s) ELSE v[s].districts
    IN  \/ on(a) /\ ~on(b)
        \/ on(a) = on(b) /\ key(a) > key(b)
        \/ on(a) = on(b) /\ key(a) = key(b) /\ v[a].name < v[b].name
(* The recorded groups come first, as recorded.                             *)
Precedes(v, m, a, b) ==
    \/ a \in On(m.order) /\ b \notin On(m.order)
    \/ a \in On(m.order) /\ b \in On(m.order) /\ PlaceOf(m.order, a) < PlaceOf(m.order, b)
    \/ a \notin On(m.order) /\ b \notin On(m.order) /\ StartsBefore(v, m, a, b)
(* Groups that tie in everything (a package that was imported twice) stay   *)
(* as the database happened to list them, in no particular order: any of    *)
(* these sequences.                                                         *)
Numberings(v, m) ==
    {q \in [1..Cardinality(Eligible(v)) -> Eligible(v)] :
        Distinct(q) /\ \A j, k \in DOMAIN q : j < k => ~Precedes(v, m, q[k], q[j])}
(* Without a recorded order only the groups numbered on votes have their    *)
(* position; is_complete: all have.                                         *)
Numbered(q, v, m) == {s \in On(q) : m.order # << >> \/ OnVotes(v, m, s)}

Count(q, s) == Cardinality({k \in DOMAIN q : q[k] = s})
\* mutant: a stream that is named twice is not noticed
SameStreams(given, expected) == On(given) = On(expected)
IsPermutation(given, expected) == \A s \in Streams : Count(given, s) = Count(expected, s)

-----------------------------------------------------------------------------
(* A request passes csb_store_middleware, which loads the main stream.      *)

FirstStep == [op \in Ops |-> CASE op = "order" -> "check" [] op = "delete" -> "find"
                                [] OTHER -> "number"]
Arrive(r, op, s) ==
    /\ req[r].op = "none" /\ op \in scene.ops[r]
    /\ (op = "delete") = (s # NoStream)
    /\ known' = [known EXCEPT ![InstanceOf[r]] = main]
    /\ req' = [req EXCEPT ![r] = Opened(op, FirstStep[op], s)]
    /\ UNCHANGED <<scene, main, groups, cached, changes>>

(* The handler returns early, fails, or its client is gone.                 *)
Ended(r) == [req EXCEPT ![r] = NoReq]
Fail(r) ==
    /\ req[r].pc # "idle"
    /\ req' = Ended(r)
    /\ UNCHANGED <<scene, main, known, groups, cached, changes>>

(* update_order: the page's order must name the groups numbered now, ...    *)
CheckOrder(r, given) ==
    LET i == InstanceOf[r] IN
    /\ req[r].pc = "check"
    /\ LookUp(i, Listed)
    /\ \E q \in Numberings(View(i), known[i]) :
         req' = IF IsPermutation(given, q)
                THEN [req EXCEPT ![r].pc = "write", ![r].order = given] ELSE Ended(r)
    /\ UNCHANGED <<scene, main, known, groups, changes>>
(* ... and is recorded, whatever was recorded meanwhile.                    *)
WriteOrder(r) ==
    /\ req[r].pc = "write"
    /\ AppendMain(InstanceOf[r], [order |-> req[r].order, votes |-> main.votes])
    /\ req' = Disturb(Ended(r), Requests \ {r})
    /\ UNCHANGED <<scene, groups, cached, changes>>

-----------------------------------------------------------------------------
(* final_files: five documents, one after the other, each numbered anew.    *)
(* The draft of the I 4 is one, and records nothing.                        *)

NumberDocument(r) ==
    LET i == InstanceOf[r] IN
    /\ req[r].pc = "number"
    /\ LookUp(i, Listed)
    /\ \E q \in Numberings(View(i), known[i]) :
         req' = [req EXCEPT ![r].order = q, ![r].numbered = Numbered(q, View(i), known[i]),
                     ![r].pc = IF Numbered(q, View(i), known[i]) = On(q) \/ req[r].op = "draft"
                               THEN "render" ELSE "record"]
    /\ UNCHANGED <<scene, main, known, groups, changes>>

(* record_if_incomplete.                                                    *)
\* mutant: the positions of this document are left blank
RecordUnnumbered(r) ==
    /\ req[r].pc = "record"
    /\ AppendMain(InstanceOf[r], [order |-> req[r].order, votes |-> main.votes])
    /\ req' = Disturb([req EXCEPT ![r].pc = "render"], Requests \ {r})
    /\ UNCHANGED <<scene, groups, cached, changes>>
RecordOrder(r) ==
    /\ req[r].pc = "record"
    /\ AppendMain(InstanceOf[r], [order |-> req[r].order, votes |-> main.votes])
    /\ req' = Disturb([req EXCEPT ![r].pc = "render", ![r].numbered = On(req[r].order)],
                      Requests \ {r})
    /\ UNCHANGED <<scene, groups, cached, changes>>

(* The lists are collected in this order from the projections as they are   *)
(* by now.  The EML files and the overview leave out a group that has no    *)
(* list with a candidate, the publications one that has no valid list; such *)
(* a group keeps its number.  The I 4 names all in its tables.              *)
Shown(n, q, v) == {s \in On(q) : /\ n \in {1, 4} => v[s].manned > 0
                                 /\ n \in {2, 3} => v[s].districts > 0}
(* The second to fourth document refuse (Conflict) a numbered group that is *)
(* deleted; the EML files keep the streams they numbered.                   *)
Refuses(r, v) == /\ Len(req[r].docs) \in 1..3
                 /\ \E s \in On(req[r].order) : v[s].status # "live"
Render(r) ==
    LET i == InstanceOf[r]
        n == IF req[r].op = "draft" THEN Documents ELSE Len(req[r].docs) + 1
        docs == Append(req[r].docs, [order |-> req[r].order, numbered |-> req[r].numbered,
                                     shown |-> Shown(n, req[r].order, View(i))])
    IN
    /\ req[r].pc = "render"
    /\ LookUp(i, IF req[r].op = "zip" /\ req[r].docs = << >> THEN {} ELSE Listed)
    /\ req' = IF Refuses(r, View(i)) THEN Ended(r)
              ELSE [req EXCEPT ![r].docs = docs,
                        ![r].pc = IF req[r].op = "draft" \/ Len(docs) = Documents
                                  THEN "idle" ELSE "number"]
    /\ UNCHANGED <<scene, main, known, groups, changes>>

-----------------------------------------------------------------------------
(* delete_submit: the group's stream first, then the recorded order.        *)

(* CsbStore::from_registry: a deleted stream is not found.                  *)
FindGroup(r) ==
    LET i == InstanceOf[r] s == req[r].target IN
    /\ req[r].pc = "find"
    /\ LookUp(i, {s} \cap Listed)
    /\ req' = IF View(i)[s].status = "live" THEN [req EXCEPT ![r].pc = "delete"] ELSE Ended(r)
    /\ UNCHANGED <<scene, main, known, groups, changes>>
AtInstance(i) == {x \in Requests : InstanceOf[x] = i}
DeleteGroup(r) ==
    LET i == InstanceOf[r] s == req[r].target IN
    /\ req[r].pc = "delete"
    /\ AppendGroup(i, s, [groups[s] EXCEPT !.status = "deleted"])
    /\ req' = Disturb([req EXCEPT ![r].pc = "decide"], AtInstance(i))
    /\ UNCHANGED <<scene, main, known>>

(* remove_from_list_order is an update_when: decided on the projection, ... *)
Without(q, s) ==
    IF s \notin On(q) THEN q
    ELSE LET k == PlaceOf(q, s)
         IN  [j \in 1..(Len(q) - 1) |-> IF j < k THEN q[j] ELSE q[j + 1]]
DecideRemoval(r) ==
    LET k == known[InstanceOf[r]] s == req[r].target IN
    /\ req[r].pc = "decide"
    /\ req' = IF s \notin On(k.order) THEN Ended(r)
              ELSE [req EXCEPT ![r].pc = "remove", ![r].order = Without(k.order, s),
                        ![r].expected = k.events]
    /\ UNCHANGED <<scene, main, known, groups, cached, changes>>
(* ... and appended when the stream is still there; or else decided again.  *)
\* mutant: appended whatever was recorded since
RemoveAnyway(r) ==
    /\ req[r].pc = "remove"
    /\ AppendMain(InstanceOf[r], [order |-> req[r].order, votes |-> main.votes])
    /\ req' = Disturb(Ended(r), Requests \ {r})
    /\ UNCHANGED <<scene, groups, cached, changes>>
RemoveFromOrder(r) ==
    LET i == InstanceOf[r] IN
    /\ req[r].pc = "remove"
    /\ \/ /\ req[r].expected = main.events
          /\ AppendMain(i, [order |-> req[r].order, votes |-> main.votes])
          /\ req' = Disturb(Ended(r), Requests \ {r})
       \/ /\ req[r].expected # main.events
          /\ known' = [known EXCEPT ![i] = main]
          /\ req' = IF req[r].attempts + 1 = Attempts THEN Ended(r)
                    ELSE [req EXCEPT ![r].pc = "decide", ![r].attempts = @ + 1]
          /\ UNCHANGED main
    /\ UNCHANGED <<scene, groups, cached, changes>>

-----------------------------------------------------------------------------
(* The rest of the committee's work that the numbering depends on.          *)

(* do_import and create_empty: a fresh stream.                              *)
ImportGroup(i, s, g) ==
    /\ groups[s].status = "none" /\ g.status = "live"
    /\ AppendGroup(i, s, g)
    /\ req' = Disturb(req, Requests)
    /\ UNCHANGED <<scene, main, known>>
(* A decision on an omission or a correction scraps or restores lists,      *)
(* candidates or the appellation; see Omissions.                            *)
DecideGroup(i, s, g) ==
    /\ s \in Listed /\ View(i)[s].status = "live"
    /\ g.status = groups[s].status /\ g # groups[s]
    /\ AppendGroup(i, s, g)
    /\ req' = Disturb(req, AtInstance(i))
    /\ UNCHANGED <<scene, main, known>>
(* A registered group is added, edited or removed: the result of the groups *)
(* that go by its appellation changes.                                      *)
RegisterResult(i, a, n) ==
    /\ n # main.votes[a]
    /\ AppendMain(i, [order |-> main.order, votes |-> [main.votes EXCEPT ![a] = n]])
    /\ req' = Disturb(req, Requests)
    /\ UNCHANGED <<scene, groups, cached, changes>>
(* A projection is caught up while this process changes nothing: any page   *)
(* of the paper corrections loads the group's stream (inject_loaded_store), *)
(* and so does an update_when that is refused.                              *)
CatchUp(i, s) ==
    /\ s \in Listed /\ cached[i][s] # groups[s]
    /\ cached' = [cached EXCEPT ![i][s] = groups[s]]
    /\ req' = Disturb(req, {x \in AtInstance(i) : cached[i][s] # NotCached})
    /\ UNCHANGED <<scene, main, known, groups, changes>>

Next ==
    \/ \E r \in Requests, op \in Ops,
          s \in Streams \cup {NoStream} : Arrive(r, op, s)
    \/ \E r \in Requests : \/ \E given \in Payloads : CheckOrder(r, given)
                           \/ WriteOrder(r) \/ NumberDocument(r) \/ RecordOrder(r) \/ Render(r)
                           \/ FindGroup(r) \/ DeleteGroup(r) \/ DecideRemoval(r)
                           \/ RemoveFromOrder(r) \/ Fail(r)
    \/ \E i \in Instances, s \in Streams :
          \/ \E g \in scene.makes : ImportGroup(i, s, g) \/ DecideGroup(i, s, g)
          \/ CatchUp(i, s)
    \/ \E i \in Instances, a \in Names, n \in 0..MaxVotes : RegisterResult(i, a, n)

Spec == Init /\ [][Next]_vars

-----------------------------------------------------------------------------
TypeOK ==
    /\ scene \in Scenes
    /\ main \in MainRecords
    /\ known \in [Instances -> MainRecords]
    /\ groups \in [Streams -> GroupRecords]
    /\ cached \in [Instances -> [Streams -> GroupRecords \cup {NotCached}]]
    /\ changes \in Nat
    /\ req \in [Requests -> ReqRecords]

(* The recorded order never names a group twice (one group, one list        *)
(* number), whatever is posted, recorded by a download and removed by       *)
(* deletions at once, and from whatever projections.                        *)
OrderNamesEachOnce == Distinct(main.order)

(* Neither precedes the other.                                              *)
Tied(i, a, b) == ~Precedes(View(i), main, a, b) /\ ~Precedes(View(i), main, b, a)

(* The documents of one download agree, although each is numbered anew and  *)
(* the first one may record the order.  No number is left blank; a group    *)
(* has the same number in any two documents that show it; what is in the    *)
(* EML files is in every document, and the overview shows just that.  With  *)
(* two exceptions.  Groups that tie in everything, and that no recorded     *)
(* order tells apart, may change places from one document to the next.  And *)
(* somebody else may disturb the download, since final_files takes no       *)
(* snapshot: by recording an order or a result, by an import, by a change   *)
(* to a group in this process, or by having this process catch up with one  *)
(* that another process made.                                               *)
UndisturbedZipAgrees ==
    \A r \in Requests :
        req[r].op = "zip" /\ ~req[r].disturbed =>
            LET docs == req[r].docs IN
            \A j, k \in DOMAIN docs :
                /\ docs[j].numbered = On(docs[j].order)
                /\ docs[1].shown \subseteq docs[j].shown
                /\ j = 4 => docs[j].shown = docs[1].shown
                /\ \A s \in docs[j].shown \cap docs[k].shown :
                      \/ PlaceOf(docs[j].order, s) = PlaceOf(docs[k].order, s)
                      \/ \E t \in On(docs[j].order) \ {s} : Tied(InstanceOf[r], s, t)

(* Deleting a group takes only that group out of the order that is recorded *)
(* at that moment: an order that another member posted after the deletion   *)
(* was decided on is never undone (remove_from_list_order).                 *)
DeletionKeepsDrawnOrder ==
    [][\A r \in Requests :
         req[r].pc = "remove" /\ req'[r].pc # "remove" /\ main'.order # main.order =>
             main'.order = Without(main.order, req[r].target)]_vars

(* record_if_incomplete: "Record the current order on main_store if it has  *)
(* not been recorded before" (src/csb/finalise/numbering.rs).               *)
RecordedOrderKept ==
    [][\A r \in Requests :
         req[r].pc = "record" /\ req'[r].pc = "render" => main.order = << >>]_vars

=============================================================================
