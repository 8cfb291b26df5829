------------------------ MODULE CandidateListsProofs ------------------------
(***************************************************************************)
(* Proofs about CandidateLists, for every set of persons, lists and        *)
(* requests and every limit, and about Submission, which builds on it.     *)
(*                                                                         *)
(* The positions on a list are distinct for both kinds of sessions: the    *)
(* events see to it.  That candidates exist and identities are unique      *)
(* rests on what the handler looked up, and holds on the own stream only,  *)
(* because what a writing request has looked at is the state it writes on. *)
(***************************************************************************)
EXTENDS Submission, FiniteSetTheorems, TLAPS

(* What one event needs to know of its arguments to keep a projection's     *)
(* types and distinct positions.                                            *)
Well(d) == d \in Projections /\ DistinctIn(d)

LEMMA WithoutShorter ==
    ASSUME NEW s \in Seq(Persons), Injective(s), NEW p \in Persons
    PROVE  /\ Without(s, p) \in Seq(Persons)
           /\ Injective(Without(s, p))
           /\ On(Without(s, p)) = On(s) \ {p}
<1>1. CASE p \notin On(s)
    BY <1>1 DEF Without
<1>2. CASE p \in On(s)
    <2> DEFINE i == CHOOSE i \in DOMAIN s : s[i] = p
               t == [j \in 1..(Len(s) - 1) |-> IF j < i THEN s[j] ELSE s[j + 1]]
    <2>1. i \in 1..Len(s) /\ s[i] = p
        BY <1>2 DEF On
    <2>2. Without(s, p) = t
        BY <1>2 DEF Without
    <2> HIDE DEF i
    <2>3. \A j \in 1..Len(s) : s[j] \in Persons
        OBVIOUS
    <2>4. t \in Seq(Persons) /\ DOMAIN t = 1..(Len(s) - 1)
        BY <2>1, <2>3
    <2>5. \A j \in DOMAIN t : t[j] = IF j < i THEN s[j] ELSE s[j + 1]
        OBVIOUS
    <2>6. Injective(t)
        BY <2>1, <2>4, <2>5 DEF Injective
    <2>7. On(t) \subseteq On(s) \ {p}
        BY <2>1, <2>4, <2>5 DEF Injective, On
    <2>8. ASSUME NEW n \in DOMAIN s, s[n] # p
          PROVE  \E j \in DOMAIN t : t[j] = s[n]
        <3>1. n \in 1..Len(s) /\ n # i
            BY <2>1, <2>8
        <3>2. CASE n < i
            BY <3>1, <3>2, <2>1, <2>4, <2>5
        <3>3. CASE n > i
            <4>1. n - 1 \in DOMAIN t /\ ~(n - 1 < i) /\ (n - 1) + 1 = n
                BY <3>1, <3>3, <2>1, <2>4
            <4> QED
                BY <4>1, <2>5
        <3> QED
            BY <3>1, <3>2, <3>3, <2>1
    <2>9. On(s) \ {p} \subseteq On(t)
        BY <2>8 DEF On
    <2> QED
        BY <2>2, <2>4, <2>6, <2>7, <2>9
<1> QED
    BY <1>1, <1>2

LEMMA AppendDistinct ==
    ASSUME NEW s \in Seq(Persons), Injective(s), NEW p \in Persons, p \notin On(s)
    PROVE  /\ Append(s, p) \in Seq(Persons)
           /\ Injective(Append(s, p))
           /\ On(Append(s, p)) = On(s) \cup {p}
<1> DEFINE t == Append(s, p)
<1>1. t \in Seq(Persons) /\ DOMAIN t = 1..(Len(s) + 1) /\ DOMAIN s = 1..Len(s)
    OBVIOUS
<1>2. \A i \in 1..Len(s) : t[i] = s[i]
    OBVIOUS
<1>3. t[Len(s) + 1] = p /\ Len(s) \in Nat
    OBVIOUS
<1> HIDE DEF t
<1>4. Injective(t)
    BY <1>1, <1>2, <1>3 DEF Injective, On
<1>5. On(t) = On(s) \cup {p}
    BY <1>1, <1>2, <1>3 DEF On
<1> QED
    BY <1>1, <1>4, <1>5 DEF t

LEMMA MovedPermutes ==
    ASSUME NEW s \in Seq(Persons), NEW i \in DOMAIN s, NEW j \in DOMAIN s
    PROVE  /\ Moved(s, i, j) \in Seq(Persons)
           /\ On(Moved(s, i, j)) \subseteq On(s)
<1> DEFINE t == Moved(s, i, j)
<1>1. DOMAIN s = 1..Len(s) /\ Len(s) \in Nat /\ \A n \in DOMAIN s : s[n] \in Persons
    OBVIOUS
<1>2. DOMAIN t = 1..Len(s) /\ \A n \in DOMAIN t : t[n] \in On(s)
    BY <1>1 DEF Moved, On
<1>3. On(s) \subseteq Persons
    BY <1>1 DEF On
<1>4. t = [n \in 1..Len(s) |-> t[n]]
    BY <1>1 DEF Moved
<1>5. t \in Seq(Persons)
    BY <1>1, <1>2, <1>3, <1>4
<1> QED
    BY <1>2, <1>5 DEF On

(* The lists of a well-formed projection.                                   *)
LEMMA WellLists ==
    ASSUME NEW d, Well(d)
    PROVE  /\ d.persons \in [Persons -> Identities \cup Gone]
           /\ d.lists \in [Lists -> ListRecords \cup {NoList}]
           /\ d = [persons |-> d.persons, lists |-> d.lists]
           /\ Kept(d) \subseteq Lists
           /\ \A l \in Kept(d) : /\ d.lists[l] \in ListRecords
                                /\ Candidates(d, l) \in Seq(Persons)
                                /\ Injective(Candidates(d, l))
BY DEF Well, Projections, Kept, Candidates, ListRecords, DistinctIn

(* A projection put together from its two parts.                            *)
LEMMA WellMade ==
    ASSUME NEW f \in [Persons -> Identities \cup Gone],
           NEW g \in [Lists -> ListRecords \cup {NoList}],
           \A l \in Lists : g[l] # NoList => Injective(g[l].candidates)
    PROVE  Well([persons |-> f, lists |-> g])
BY DEF Well, Projections, Kept, Candidates, DistinctIn

-----------------------------------------------------------------------------
(* Each event keeps a projection well-formed.                               *)

LEMMA PersonSavedWell ==
    ASSUME NEW d, Well(d), NEW p \in Persons, NEW k \in Identities
    PROVE  /\ Well(PersonSaved(d, p, k))
           /\ PersonSaved(d, p, k) = [persons |-> [d.persons EXCEPT ![p] = k], lists |-> d.lists]
<1>1. PersonSaved(d, p, k) = [persons |-> [d.persons EXCEPT ![p] = k], lists |-> d.lists]
    BY WellLists DEF PersonSaved
<1>2. [d.persons EXCEPT ![p] = k] \in [Persons -> Identities \cup Gone]
    BY WellLists
<1>3. \A l \in Lists : d.lists[l] # NoList => Injective(d.lists[l].candidates)
    BY WellLists DEF Kept, Candidates
<1> QED
    BY <1>1, <1>2, <1>3, WellLists, WellMade

LEMMA PersonUpdatedWell ==
    ASSUME NEW d, Well(d), NEW p \in Persons, NEW k \in Identities
    PROVE  Well(PersonUpdated(d, p, k))
BY PersonSavedWell DEF PersonUpdated

LEMMA PersonDeletedWell ==
    ASSUME NEW d, Well(d), NEW p \in Persons
    PROVE  Well(PersonDeleted(d, p))
<1> DEFINE f == [d.persons EXCEPT ![p] = Deleted]
           g == [l \in Lists |-> IF l \notin Kept(d) THEN NoList
                                 ELSE [d.lists[l] EXCEPT !.candidates = Without(@, p)]]
<1>1. f \in [Persons -> Identities \cup Gone]
    BY WellLists DEF Gone
<1>2. ASSUME NEW l \in Kept(d)
      PROVE  /\ g[l] = [at |-> d.lists[l].at, candidates |-> Without(Candidates(d, l), p)]
             /\ g[l] \in ListRecords /\ Injective(g[l].candidates)
    <2>1. l \in Lists /\ d.lists[l] \in ListRecords
        BY WellLists
    <2>2. g[l] = [at |-> d.lists[l].at, candidates |-> Without(Candidates(d, l), p)]
        BY <2>1 DEF ListRecords, Candidates
    <2>3. Without(Candidates(d, l), p) \in Seq(Persons) /\ Injective(Without(Candidates(d, l), p))
        BY WellLists, WithoutShorter
    <2> QED
        BY <2>1, <2>2, <2>3 DEF ListRecords
<1>3. g \in [Lists -> ListRecords \cup {NoList}]
    BY <1>2
<1>4. \A l \in Lists : g[l] # NoList => Injective(g[l].candidates)
    BY <1>2
<1> QED
    BY <1>1, <1>3, <1>4, WellMade DEF PersonDeleted

LEMMA ListCreatedWell ==
    ASSUME NEW d, Well(d), NEW l \in Lists, NEW s \in Seq(Persons), Injective(s), NEW n \in Nat
    PROVE  Well(ListCreated(d, l, s, n))
<1> DEFINE g == [d.lists EXCEPT ![l] = [at |-> n, candidates |-> s]]
<1>1. ListCreated(d, l, s, n) = [persons |-> d.persons, lists |-> g]
    BY WellLists DEF ListCreated
<1>2. g \in [Lists -> ListRecords \cup {NoList}]
    BY WellLists DEF ListRecords
<1>3. \A k \in Lists : g[k] # NoList => Injective(g[k].candidates)
    BY WellLists DEF Kept, Candidates
<1> QED
    BY <1>1, <1>2, <1>3, WellLists, WellMade

LEMMA ListDeletedWell ==
    ASSUME NEW d, Well(d), NEW l \in Lists
    PROVE  Well(ListDeleted(d, l))
<1> DEFINE g == [d.lists EXCEPT ![l] = NoList]
<1>1. ListDeleted(d, l) = [persons |-> d.persons, lists |-> g]
    BY WellLists DEF ListDeleted
<1>2. g \in [Lists -> ListRecords \cup {NoList}]
    BY WellLists
<1>3. \A k \in Lists : g[k] # NoList => Injective(g[k].candidates)
    BY WellLists DEF Kept, Candidates
<1> QED
    BY <1>1, <1>2, <1>3, WellLists, WellMade

(* A list that is there gets other candidates.                              *)
LEMMA OrderUpdatedIs ==
    ASSUME NEW d, Well(d), NEW l \in Kept(d), NEW s
    PROVE  [d EXCEPT !.lists[l].candidates = s] =
               [persons |-> d.persons,
                lists |-> [d.lists EXCEPT ![l] = [at |-> d.lists[l].at, candidates |-> s]]]
<1>1. d = [persons |-> d.persons, lists |-> d.lists] /\ l \in Lists /\ d.lists[l] \in ListRecords
    BY WellLists
<1>2. [d.lists[l] EXCEPT !.candidates = s] = [at |-> d.lists[l].at, candidates |-> s]
    BY <1>1 DEF ListRecords
<1>3. [d.lists EXCEPT ![l].candidates = s] =
          [d.lists EXCEPT ![l] = [at |-> d.lists[l].at, candidates |-> s]]
    BY <1>1, <1>2
<1> QED
    BY <1>1, <1>3

LEMMA OrderUpdatedWell ==
    ASSUME NEW d, Well(d), NEW l \in Lists, NEW s \in Seq(Persons), Injective(s)
    PROVE  Well(OrderUpdated(d, l, s))
<1>1. CASE l \notin Kept(d)
    BY <1>1 DEF OrderUpdated
<1>2. CASE l \in Kept(d)
    <2> DEFINE g == [d.lists EXCEPT ![l] = [at |-> d.lists[l].at, candidates |-> s]]
    <2>1. OrderUpdated(d, l, s) = [persons |-> d.persons, lists |-> g]
        BY <1>2, OrderUpdatedIs DEF OrderUpdated
    <2>2. g \in [Lists -> ListRecords \cup {NoList}]
        BY <1>2, WellLists DEF ListRecords
    <2>3. \A k \in Lists : g[k] # NoList => Injective(g[k].candidates)
        BY WellLists DEF Kept, Candidates
    <2> QED
        BY <2>1, <2>2, <2>3, WellLists, WellMade
<1> QED
    BY <1>1, <1>2

LEMMA CandidateAddedIs ==
    ASSUME NEW d, Well(d), NEW l, NEW p \in Persons
    PROVE  CandidateAdded(d, l, p) =
               IF l \in Kept(d) /\ p \notin On(Candidates(d, l))
               THEN OrderUpdated(d, l, Append(Candidates(d, l), p)) ELSE d
BY DEF CandidateAdded, OrderUpdated, Candidates

LEMMA CandidateAddedWell ==
    ASSUME NEW d, Well(d), NEW l, NEW p \in Persons
    PROVE  Well(CandidateAdded(d, l, p))
<1>1. CASE l \in Kept(d) /\ p \notin On(Candidates(d, l))
    <2>1. l \in Lists /\ Append(Candidates(d, l), p) \in Seq(Persons)
          /\ Injective(Append(Candidates(d, l), p))
        BY <1>1, WellLists, AppendDistinct
    <2>2. Well(OrderUpdated(d, l, Append(Candidates(d, l), p)))
        BY <2>1, OrderUpdatedWell
    <2> QED
        BY <1>1, <2>2, CandidateAddedIs
<1> QED
    BY <1>1, CandidateAddedIs

LEMMA CandidateRemovedIs ==
    ASSUME NEW d, Well(d), NEW l, NEW p \in Persons
    PROVE  CandidateRemoved(d, l, p) =
               IF l \in Kept(d) THEN OrderUpdated(d, l, Without(Candidates(d, l), p)) ELSE d
BY DEF CandidateRemoved, OrderUpdated, Candidates

LEMMA CandidateRemovedWell ==
    ASSUME NEW d, Well(d), NEW l, NEW p \in Persons
    PROVE  Well(CandidateRemoved(d, l, p))
<1>1. CASE l \in Kept(d)
    <2>1. l \in Lists /\ Without(Candidates(d, l), p) \in Seq(Persons)
          /\ Injective(Without(Candidates(d, l), p))
        BY <1>1, WellLists, WithoutShorter
    <2> QED
        BY <1>1, <2>1, CandidateRemovedIs, OrderUpdatedWell
<1> QED
    BY <1>1, CandidateRemovedIs

(* The persons after an import.                                             *)
ImportSaved(d, s, keys, new) ==
    [p \in Persons |->
        IF \E i \in {i \in DOMAIN s : s[i] \in new \cup Alive(d)} : s[i] = p
        THEN keys[CHOOSE i \in {i \in DOMAIN s : s[i] \in new \cup Alive(d)} : s[i] = p]
        ELSE d.persons[p]]

LEMMA ImportedIs ==
    ASSUME NEW d, Well(d), NEW l \in Lists, NEW s, NEW keys, NEW new,
           DOMAIN s = DOMAIN keys, \A i \in DOMAIN keys : keys[i] \in Identities
    PROVE  /\ Well([persons |-> ImportSaved(d, s, keys, new), lists |-> d.lists])
           /\ CandidatesImported(d, l, s, keys, new) =
                  OrderUpdated([persons |-> ImportSaved(d, s, keys, new), lists |-> d.lists], l, s)
<1> DEFINE known == {i \in DOMAIN s : s[i] \in new \cup Alive(d)}
<1>1. \A p \in Persons : (\E i \in known : s[i] = p) =>
          keys[CHOOSE i \in known : s[i] = p] \in Identities
    OBVIOUS
<1>2. ImportSaved(d, s, keys, new) \in [Persons -> Identities \cup Gone]
    BY <1>1, WellLists DEF ImportSaved
<1>3. \A k \in Lists : d.lists[k] # NoList => Injective(d.lists[k].candidates)
    BY WellLists DEF Kept, Candidates
<1>4. Well([persons |-> ImportSaved(d, s, keys, new), lists |-> d.lists])
    BY <1>2, <1>3, WellLists, WellMade
<1>5. [d EXCEPT !.persons = ImportSaved(d, s, keys, new)] =
          [persons |-> ImportSaved(d, s, keys, new), lists |-> d.lists]
    BY WellLists
<1>6. CandidatesImported(d, l, s, keys, new) =
          OrderUpdated([d EXCEPT !.persons = ImportSaved(d, s, keys, new)], l, s)
    BY DEF CandidatesImported, ImportSaved
<1> QED
    BY <1>4, <1>5, <1>6

LEMMA ImportedWell ==
    ASSUME NEW d, Well(d), NEW l \in Lists, NEW s \in Seq(Persons), Injective(s), NEW keys,
           NEW new, DOMAIN s = DOMAIN keys, \A i \in DOMAIN keys : keys[i] \in Identities
    PROVE  Well(CandidatesImported(d, l, s, keys, new))
<1> DEFINE e == [persons |-> ImportSaved(d, s, keys, new), lists |-> d.lists]
<1>1. Well(e) /\ CandidatesImported(d, l, s, keys, new) = OrderUpdated(e, l, s)
    BY ImportedIs
<1> HIDE DEF e
<1> QED
    BY <1>1, OrderUpdatedWell

-----------------------------------------------------------------------------
(* Types and positions, for both kinds of sessions.                         *)

PInv ==
    /\ setting \in Settings
    /\ version \in Nat
    /\ req \in [Requests -> ReqRecords]
    /\ wrote \in Wrote
    /\ Well(data)
    /\ \A r \in Requests : /\ Well(req[r].view)
                           /\ req[r].pc = "append" => req[r].person \in Persons

LEMMA NoReqWell == NoReq \in ReqRecords /\ Well(NoReq.view) /\ NoReq.pc = "idle" /\ Well(Start)
<1>1. Well(Start) /\ Start \in Projections
    BY StartAssumption DEF Well
<1> QED
    BY <1>1 DEF NoReq, ReqRecords

LEMMA PInvInit == Init => PInv
BY NoReqWell, StartAssumption DEF Init, PInv, Wrote, Kinds

(* Whoever persists an event that leaves the projection well-formed.        *)
LEMMA PersistKeeps ==
    ASSUME PInv, NEW r \in Requests, NEW kind \in Kinds, NEW d, Well(d),
           Persist(r, kind, d), NEW x \in ReqRecords, req' = [req EXCEPT ![r] = x],
           Well(x.view), x.pc = "append" => x.person \in Persons
    PROVE  PInv'
<1>1. setting' \in Settings /\ version' \in Nat /\ Well(data')
    BY DEF PInv, Persist
<1>2. wrote' \in Wrote
    BY DEF PInv, Persist, Wrote, Well
<1>3. req' \in [Requests -> ReqRecords]
    BY DEF PInv
<1>4. \A q \in Requests : Well(req'[q].view) /\ (req'[q].pc = "append" => req'[q].person \in Persons)
    BY DEF PInv
<1> QED
    BY <1>1, <1>2, <1>3, <1>4 DEF PInv

LEMMA UpdateKeeps ==
    ASSUME PInv, NEW r \in Requests, NEW kind \in Kinds, NEW d, Well(d), Update(r, kind, d)
    PROVE  PInv'
<1>1. NoReq \in ReqRecords /\ Well(NoReq.view) /\ NoReq.pc # "append"
    BY NoReqWell
<1> QED
    BY <1>1, PersistKeeps DEF Update

LEMMA UpdateOrderKeeps ==
    ASSUME PInv, NEW r \in Requests, NEW kind \in Kinds, NEW l \in Lists, NEW s \in Seq(Persons),
           UpdateOrder(r, kind, l, s)
    PROVE  PInv'
<1>1. Well(data)
    BY DEF PInv
<1>2. Injective(s) /\ Update(r, kind, OrderUpdated(data, l, s))
    BY DEF UpdateOrder, OrderAllowed
<1> QED
    BY <1>1, <1>2, OrderUpdatedWell, UpdateKeeps

LEMMA SeqRange ==
    ASSUME NEW S, NEW n \in Nat, NEW s \in SeqsUpTo(S, n)
    PROVE  s \in Seq(S)
BY DEF SeqsUpTo

LEMMA OnPersonsKeeps == ASSUME PInv, NEW r \in Requests, OnPersons(r) PROVE PInv'
<1>1. PICK p \in Persons : \/ \E k \in Identities : CreatePerson(r, p, k) \/ UpdatePerson(r, p, k)
                          \/ DeletePerson(r, p)
    BY DEF OnPersons
<1>2. Well(data) /\ "person" \in Kinds /\ "delete" \in Kinds
    BY DEF PInv, Kinds
<1>3. ASSUME NEW k \in Identities, CreatePerson(r, p, k) PROVE PInv'
    BY <1>2, <1>3, PersonSavedWell, UpdateKeeps DEF CreatePerson
<1>4. ASSUME NEW k \in Identities, UpdatePerson(r, p, k) PROVE PInv'
    BY <1>2, <1>4, PersonUpdatedWell, UpdateKeeps DEF UpdatePerson
<1>5. ASSUME DeletePerson(r, p) PROVE PInv'
    BY <1>2, <1>5, PersonDeletedWell, UpdateKeeps DEF DeletePerson
<1> QED
    BY <1>1, <1>3, <1>4, <1>5

LEMMA CreateListKeeps ==
    ASSUME PInv, NEW r \in Requests, NEW l \in Lists, NEW copy \in BOOLEAN, CreateList(r, l, copy)
    PROVE  PInv'
<1> DEFINE from == {k \in Lists : copy /\ LastList(req[r].view, k)}
<1>1. PICK s \in IF from = {} THEN {<< >>} ELSE {Candidates(req[r].view, k) : k \in from} :
          Update(r, "list", ListCreated(data, l, s, version))
    BY DEF CreateList
<1>2. Well(data) /\ Well(req[r].view) /\ version \in Nat /\ "list" \in Kinds
    BY DEF PInv, Kinds
<1>3. s \in Seq(Persons) /\ Injective(s)
    <2>1. CASE from = {}
        <3>1. s = << >>
            BY <1>1, <2>1
        <3>2. << >> \in Seq(Persons) /\ DOMAIN << >> = {}
            OBVIOUS
        <3> QED
            BY <3>1, <3>2 DEF Injective
    <2>2. CASE from # {}
        BY <1>1, <1>2, <2>2, WellLists DEF LastList
    <2> QED
        BY <2>1, <2>2
<1> QED
    BY <1>1, <1>2, <1>3, ListCreatedWell, UpdateKeeps

LEMMA PositionKeeps ==
    ASSUME PInv, NEW r \in Requests, NEW l \in Lists, NEW i, NEW j, UpdatePosition(r, l, i, j)
    PROVE  PInv'
<1> DEFINE s == Candidates(req[r].view, l)
<1>1. s \in Seq(Persons) /\ i \in DOMAIN s /\ j \in DOMAIN s
    BY WellLists DEF UpdatePosition, Readable, PInv
<1>2. UpdateOrder(r, "order", l, Moved(s, i, j)) /\ "order" \in Kinds
    BY DEF UpdatePosition, Kinds
<1> HIDE DEF s
<1> QED
    BY <1>1, <1>2, MovedPermutes, UpdateOrderKeeps

LEMMA AddAllKeeps ==
    ASSUME PInv, NEW r \in Requests, NEW l \in Lists, NEW others \in Seq(Persons), AddAll(r, l, others)
    PROVE  PInv'
<1> DEFINE s == Candidates(req[r].view, l)
<1>1. s \in Seq(Persons)
    BY WellLists DEF AddAll, Readable, PInv
<1>2. UpdateOrder(r, "order", l, Truncated(s \o others)) /\ "order" \in Kinds
    BY DEF AddAll, Kinds
<1>3. s \o others \in Seq(Persons)
    BY <1>1
<1>4. Truncated(s \o others) \in Seq(Persons)
    BY <1>3, BoundsAssumption DEF Truncated
<1> HIDE DEF s
<1> QED
    BY <1>2, <1>4, UpdateOrderKeeps

LEMMA RemoveAllKeeps ==
    ASSUME PInv, NEW r \in Requests, NEW l \in Lists, NEW n, RemoveAll(r, l, n)
    PROVE  PInv'
<1> DEFINE s == Candidates(req[r].view, l)
<1>1. s \in Seq(Persons) /\ n \in 0..Len(s)
    BY WellLists DEF RemoveAll, Readable, PInv
<1>2. UpdateOrder(r, "order", l, SubSeq(s, 1, n)) /\ "order" \in Kinds
    BY DEF RemoveAll, Kinds
<1>3. SubSeq(s, 1, n) \in Seq(Persons)
    BY <1>1
<1> HIDE DEF s
<1> QED
    BY <1>2, <1>3, UpdateOrderKeeps

LEMMA CreateCandidateKeeps ==
    ASSUME PInv, NEW r \in Requests, NEW l \in Lists, NEW p \in Persons, NEW k \in Identities,
           CreateCandidate(r, l, p, k)
    PROVE  PInv'
<1> DEFINE next == PersonSaved(data, p, k)
           x == [pc |-> "append", seen |-> version + 1, view |-> next, list |-> l, person |-> p]
<1>1. Well(next) /\ version \in Nat /\ "person" \in Kinds
    BY PersonSavedWell DEF PInv, Kinds
<1>2. Persist(r, "person", next) /\ req' = [req EXCEPT ![r] = x]
    BY DEF CreateCandidate
<1> HIDE DEF next
<1>3. x \in ReqRecords /\ Well(x.view) /\ x.person \in Persons
    BY <1>1 DEF ReqRecords, Well
<1> HIDE DEF x
<1> QED
    BY <1>1, <1>2, <1>3, PersistKeeps

LEMMA AppendCreatedKeeps == ASSUME PInv, NEW r \in Requests, AppendCreated(r) PROVE PInv'
<1>1. Well(data) /\ req[r].person \in Persons /\ "add" \in Kinds
    BY DEF PInv, AppendCreated, Kinds
<1>2. Well(CandidateAdded(data, req[r].list, req[r].person))
    BY <1>1, CandidateAddedWell
<1> QED
    BY <1>1, <1>2, NoReqWell, PersistKeeps DEF AppendCreated

LEMMA ImportKeeps ==
    ASSUME PInv, NEW r \in Requests, NEW l \in Lists, NEW keys \in SeqsUpTo(Identities, MaxRows),
           NEW s \in [DOMAIN keys -> Persons], ImportCandidates(r, l, keys, s)
    PROVE  PInv'
<1>1. PICK new : Update(r, "import", CandidatesImported(data, l, s, keys, new))
    BY DEF ImportCandidates
<1>2. keys \in Seq(Identities)
    BY SeqRange, BoundsAssumption
<1>3. s \in Seq(Persons) /\ Injective(s) /\ \A i \in DOMAIN keys : keys[i] \in Identities
    BY <1>2 DEF ImportCandidates
<1>4. Well(data) /\ "import" \in Kinds
    BY DEF PInv, Kinds
<1> QED
    BY <1>1, <1>3, <1>4, ImportedWell, UpdateKeeps

LEMMA OnListsKeeps == ASSUME PInv, NEW r \in Requests, OnLists(r) PROVE PInv'
<1>1. PICK l \in Lists :
        \/ \E copy \in BOOLEAN : CreateList(r, l, copy)
        \/ DeleteList(r, l)
        \/ \E s \in SeqsUpTo(Persons, Cardinality(Persons)) : Reorder(r, l, s) \/ AddAll(r, l, s)
        \/ \E i, j \in 1..Cardinality(Persons) : UpdatePosition(r, l, i, j)
        \/ \E n \in 0..Cardinality(Persons) : RemoveAll(r, l, n)
        \/ \E p \in Persons : AppendCandidate(r, l, p) \/ RemoveCandidate(r, l, p)
        \/ \E p \in Persons, k \in Identities : CreateCandidate(r, l, p, k)
        \/ \E keys \in SeqsUpTo(Identities, MaxRows) : \E s \in [DOMAIN keys -> Persons] :
               ImportCandidates(r, l, keys, s)
    BY DEF OnLists
<1>2. Well(data) /\ {"list", "add", "remove", "reorder"} \subseteq Kinds
    BY DEF PInv, Kinds
<1>3. ASSUME DeleteList(r, l) PROVE PInv'
    BY <1>2, <1>3, ListDeletedWell, UpdateKeeps DEF DeleteList
<1>4. ASSUME NEW s \in SeqsUpTo(Persons, Cardinality(Persons)), Reorder(r, l, s) \/ AddAll(r, l, s)
      PROVE  PInv'
    <2>1. s \in Seq(Persons)
        BY DEF SeqsUpTo
    <2> QED
        BY <1>2, <1>4, <2>1, UpdateOrderKeeps, AddAllKeeps DEF Reorder
<1>5. ASSUME NEW p \in Persons, AppendCandidate(r, l, p) PROVE PInv'
    BY <1>2, <1>5, CandidateAddedWell, UpdateKeeps DEF AppendCandidate
<1>6. ASSUME NEW p \in Persons, RemoveCandidate(r, l, p) PROVE PInv'
    BY <1>2, <1>6, CandidateRemovedWell, UpdateKeeps DEF RemoveCandidate
<1> QED
    BY <1>1, <1>3, <1>4, <1>5, <1>6, CreateListKeeps, PositionKeeps, RemoveAllKeeps,
       CreateCandidateKeeps, ImportKeeps

LEMMA PInvNext == PInv /\ [Next]_vars => PInv'
<1> SUFFICES ASSUME PInv, [Next]_vars PROVE PInv'
    OBVIOUS
<1>1. CASE UNCHANGED vars
    BY <1>1 DEF vars, PInv
<1>2. ASSUME NEW r \in Requests, Arrive(r) PROVE PInv'
    <2> DEFINE x == [pc |-> "in", seen |-> version, view |-> data,
                     list |-> NoList, person |-> NoPerson]
    <2>1. x \in ReqRecords /\ Well(x.view) /\ x.pc # "append"
        BY DEF PInv, ReqRecords, Well
    <2>2. req' = [req EXCEPT ![r] = x] /\ UNCHANGED <<setting, data, version, wrote>>
        BY <1>2 DEF Arrive
    <2> HIDE DEF x
    <2> QED
        BY <2>1, <2>2 DEF PInv
<1>3. ASSUME NEW r \in Requests, Leave(r) PROVE PInv'
    BY <1>3, NoReqWell DEF Leave, PInv
<1>4. ASSUME NEW r \in Requests, OtherEvent(r) PROVE PInv'
    BY <1>4, UpdateKeeps DEF OtherEvent, PInv, Kinds
<1> QED
    BY <1>1, <1>2, <1>3, <1>4, OnPersonsKeeps, OnListsKeeps, AppendCreatedKeeps DEF Next

(* The projection, the handles and the decisions keep their types, whatever *)
(* requests arrive and however their events interleave (PgStoreData).       *)
THEOREM TypeCorrect == Spec => []TypeOK
<1>1. PInv => TypeOK
    BY DEF PInv, TypeOK, Well
<1> QED
    BY <1>1, PInvInit, PInvNext, PTL DEF Spec

(* No list ever holds a person twice, for political groups and for paper    *)
(* corrections alike: the check of the handler may be outdated, that of the *)
(* event is not (AddCandidateToCandidateList).                              *)
THEOREM PositionsStayDistinct == Spec => []PositionsDistinct
<1>1. PInv => PositionsDistinct
    BY DEF PInv, PositionsDistinct, Well
<1> QED
    BY <1>1, PInvInit, PInvNext, PTL DEF Spec

-----------------------------------------------------------------------------
(* The own stream.  Each event, decided on the projection it is applied to, *)
(* keeps that projection sound.                                             *)
Sound(d) == Well(d) /\ ExistIn(d) /\ IdentifiedIn(d)

(* Candidates of the lists of a projection put together from its parts.     *)
LEMMA SoundMade ==
    ASSUME NEW f \in [Persons -> Identities \cup Gone],
           NEW g \in [Lists -> ListRecords \cup {NoList}],
           Well([persons |-> f, lists |-> g]),
           \A l \in Lists : g[l] # NoList =>
               \A p \in On(g[l].candidates) : p \in Persons /\ f[p] \notin Gone,
           \A p, q \in Persons : f[p] = f[q] /\ f[p] \notin Gone => p = q \/ f[p] = NoKey
    PROVE  Sound([persons |-> f, lists |-> g])
BY DEF Sound, ExistIn, IdentifiedIn, Kept, Candidates, Alive

LEMMA SoundParts ==
    ASSUME NEW d, Sound(d)
    PROVE  /\ Well(d)
           /\ \A l \in Lists : d.lists[l] # NoList =>
                  \A p \in On(d.lists[l].candidates) : p \in Persons /\ d.persons[p] \notin Gone
           /\ \A p, q \in Persons : d.persons[p] = d.persons[q] /\ d.persons[p] \notin Gone
                                     => p = q \/ d.persons[p] = NoKey
BY DEF Sound, ExistIn, IdentifiedIn, Kept, Candidates, Alive

(* A person is entered, or gets other data: nobody else has this identity.  *)
LEMMA PersonSavedSound ==
    ASSUME NEW d, Sound(d), NEW p \in Persons, NEW k \in Identities,
           \E except \in {{}, {p}} : Unique(d, k, except)
    PROVE  Sound(PersonSaved(d, p, k))
<1> DEFINE f == [d.persons EXCEPT ![p] = k]
<1>1. Well(d) /\ d.persons \in [Persons -> Identities \cup Gone]
      /\ d.lists \in [Lists -> ListRecords \cup {NoList}]
    BY SoundParts, WellLists
<1>2. PersonSaved(d, p, k) = [persons |-> f, lists |-> d.lists]
      /\ Well([persons |-> f, lists |-> d.lists])
    BY <1>1, PersonSavedWell, ZenonT(40)
<1>3. k \notin Gone /\ f \in [Persons -> Identities \cup Gone]
    BY <1>1, ValuesAssumption
<1>4. \A l \in Lists : d.lists[l] # NoList =>
          \A q \in On(d.lists[l].candidates) : q \in Persons /\ f[q] \notin Gone
    BY <1>1, <1>3, SoundParts
<1>5. k = NoKey \/ \A q \in Persons : q # p /\ d.persons[q] \notin Gone => d.persons[q] # k
    BY DEF Unique, Alive
<1>6. \A q, t \in Persons : f[q] = f[t] /\ f[q] \notin Gone => q = t \/ f[q] = NoKey
    BY <1>1, <1>3, <1>5, SoundParts
<1> HIDE DEF f
<1> QED
    BY <1>1, <1>2, <1>3, <1>4, <1>6, SoundMade

LEMMA PersonDeletedSound ==
    ASSUME NEW d, Sound(d), NEW p \in Persons
    PROVE  Sound(PersonDeleted(d, p))
<1> DEFINE f == [d.persons EXCEPT ![p] = Deleted]
           g == [l \in Lists |-> IF l \notin Kept(d) THEN NoList
                                 ELSE [d.lists[l] EXCEPT !.candidates = Without(@, p)]]
<1>1. Well(d) /\ d.persons \in [Persons -> Identities \cup Gone]
    BY SoundParts, WellLists
<1>2. Well([persons |-> f, lists |-> g]) /\ PersonDeleted(d, p) = [persons |-> f, lists |-> g]
    BY <1>1, PersonDeletedWell DEF PersonDeleted
<1>3. f \in [Persons -> Identities \cup Gone] /\ g \in [Lists -> ListRecords \cup {NoList}]
    BY <1>2 DEF Well, Projections
<1>4. ASSUME NEW l \in Lists, g[l] # NoList
      PROVE  \A q \in On(g[l].candidates) : q \in Persons /\ f[q] \notin Gone
    <2>1. l \in Kept(d) /\ d.lists[l] \in ListRecords
        BY <1>1, <1>4, WellLists
    <2>2. g[l].candidates = Without(Candidates(d, l), p)
        BY <2>1 DEF ListRecords, Candidates
    <2>3. On(g[l].candidates) = On(Candidates(d, l)) \ {p}
        BY <1>1, <2>1, <2>2, WellLists, WithoutShorter
    <2>4. \A q \in On(Candidates(d, l)) : q \in Persons /\ d.persons[q] \notin Gone
        BY <2>1, SoundParts DEF Kept, Candidates
    <2> QED
        BY <1>1, <2>3, <2>4
<1>5. \A q, t \in Persons : f[q] = f[t] /\ f[q] \notin Gone => q = t \/ f[q] = NoKey
    BY <1>1, SoundParts DEF Gone
<1> HIDE DEF f, g
<1> QED
    BY <1>2, <1>3, <1>4, <1>5, SoundMade

LEMMA ListCreatedSound ==
    ASSUME NEW d, Sound(d), NEW l \in Lists, NEW s \in Seq(Persons), Injective(s), NEW n \in Nat,
           On(s) \subseteq Alive(d)
    PROVE  Sound(ListCreated(d, l, s, n))
<1> DEFINE g == [d.lists EXCEPT ![l] = [at |-> n, candidates |-> s]]
<1>1. Well(d) /\ d.persons \in [Persons -> Identities \cup Gone]
      /\ d.lists \in [Lists -> ListRecords \cup {NoList}]
    BY SoundParts, WellLists
<1>2. ListCreated(d, l, s, n) = [persons |-> d.persons, lists |-> g]
    BY <1>1, WellLists DEF ListCreated
<1>3. Well([persons |-> d.persons, lists |-> g]) /\ g \in [Lists -> ListRecords \cup {NoList}]
    BY <1>1, <1>2, ListCreatedWell, SMTT(40) DEF ListRecords
<1>4. \A k \in Lists : g[k] # NoList =>
          \A q \in On(g[k].candidates) : q \in Persons /\ d.persons[q] \notin Gone
    BY <1>1, SoundParts DEF Alive
<1> HIDE DEF g
<1> QED
    BY <1>1, <1>2, <1>3, <1>4, SoundParts, SoundMade

LEMMA ListDeletedSound ==
    ASSUME NEW d, Sound(d), NEW l \in Lists
    PROVE  Sound(ListDeleted(d, l))
<1> DEFINE g == [d.lists EXCEPT ![l] = NoList]
<1>1. Well(d) /\ d.persons \in [Persons -> Identities \cup Gone]
      /\ d.lists \in [Lists -> ListRecords \cup {NoList}]
    BY SoundParts, WellLists
<1>2. ListDeleted(d, l) = [persons |-> d.persons, lists |-> g]
    BY <1>1, WellLists DEF ListDeleted
<1>3. Well([persons |-> d.persons, lists |-> g]) /\ g \in [Lists -> ListRecords \cup {NoList}]
    BY <1>1, <1>2, ListDeletedWell
<1>4. \A k \in Lists : g[k] # NoList =>
          \A q \in On(g[k].candidates) : q \in Persons /\ d.persons[q] \notin Gone
    BY <1>1, SoundParts
<1> HIDE DEF g
<1> QED
    BY <1>1, <1>2, <1>3, <1>4, SoundParts, SoundMade

LEMMA OrderUpdatedSound ==
    ASSUME NEW d, Sound(d), NEW l \in Lists, NEW s \in Seq(Persons), Injective(s),
           On(s) \subseteq Alive(d)
    PROVE  Sound(OrderUpdated(d, l, s))
<1>1. CASE l \notin Kept(d)
    BY <1>1 DEF OrderUpdated
<1>2. CASE l \in Kept(d)
    <2>1. Well(d) /\ d.lists[l].at \in Nat
        BY <1>2, SoundParts, WellLists DEF ListRecords
    <2>2. OrderUpdated(d, l, s) = ListCreated(d, l, s, d.lists[l].at)
        <3>1. ListCreated(d, l, s, d.lists[l].at) =
                  [persons |-> d.persons,
                   lists |-> [d.lists EXCEPT ![l] = [at |-> d.lists[l].at, candidates |-> s]]]
            BY <2>1, WellLists DEF ListCreated
        <3> QED
            BY <1>2, <2>1, <3>1, OrderUpdatedIs DEF OrderUpdated
    <2> QED
        BY <2>1, <2>2, ListCreatedSound
<1> QED
    BY <1>1, <1>2

LEMMA CandidateAddedSound ==
    ASSUME NEW d, Sound(d), NEW l, NEW p \in Alive(d)
    PROVE  Sound(CandidateAdded(d, l, p))
<1>1. Well(d) /\ p \in Persons
    BY SoundParts DEF Alive
<1>2. CASE l \in Kept(d) /\ p \notin On(Candidates(d, l))
    <2> DEFINE s == Append(Candidates(d, l), p)
    <2>1. l \in Lists /\ s \in Seq(Persons) /\ Injective(s) /\ On(s) = On(Candidates(d, l)) \cup {p}
        BY <1>1, <1>2, WellLists, AppendDistinct
    <2>2. On(s) \subseteq Alive(d)
        BY <1>2, <2>1 DEF Sound, ExistIn
    <2>3. CandidateAdded(d, l, p) = OrderUpdated(d, l, s)
        BY <1>1, <1>2, CandidateAddedIs
    <2> HIDE DEF s
    <2> QED
        BY <2>1, <2>2, <2>3, OrderUpdatedSound
<1> QED
    BY <1>1, <1>2, CandidateAddedIs

LEMMA CandidateRemovedSound ==
    ASSUME NEW d, Sound(d), NEW l, NEW p \in Persons
    PROVE  Sound(CandidateRemoved(d, l, p))
<1>1. Well(d)
    BY SoundParts
<1>2. CASE l \in Kept(d)
    <2> DEFINE s == Without(Candidates(d, l), p)
    <2>1. l \in Lists /\ s \in Seq(Persons) /\ Injective(s) /\ On(s) = On(Candidates(d, l)) \ {p}
        BY <1>1, <1>2, WellLists, WithoutShorter
    <2>2. On(s) \subseteq Alive(d)
        BY <1>2, <2>1 DEF Sound, ExistIn
    <2>3. CandidateRemoved(d, l, p) = OrderUpdated(d, l, s)
        BY <1>1, <1>2, CandidateRemovedIs
    <2> HIDE DEF s
    <2> QED
        BY <2>1, <2>2, <2>3, OrderUpdatedSound
<1> QED
    BY <1>1, <1>2, CandidateRemovedIs

(* An import: its rows have different identities, and each row goes to the  *)
(* one person known by its identity or to somebody new.                     *)
LEMMA ImportedSound ==
    ASSUME NEW d, Sound(d), NEW l \in Lists, NEW s \in Seq(Persons), Injective(s), NEW keys,
           NEW new, DOMAIN s = DOMAIN keys, \A i \in DOMAIN keys : keys[i] \in Identities,
           \A i, j \in DOMAIN keys : keys[i] = keys[j] => i = j \/ keys[i] = NoKey,
           \A i \in DOMAIN keys : IF SamePerson(d, keys[i]) = {} THEN s[i] \in new
                                  ELSE s[i] \in SamePerson(d, keys[i])
    PROVE  Sound(CandidatesImported(d, l, s, keys, new))
<1> DEFINE f == ImportSaved(d, s, keys, new)
           e == [persons |-> f, lists |-> d.lists]
           known == {i \in DOMAIN s : s[i] \in new \cup Alive(d)}
<1>1. Well(d) /\ d.persons \in [Persons -> Identities \cup Gone]
      /\ d.lists \in [Lists -> ListRecords \cup {NoList}]
    BY SoundParts, WellLists
<1>2. Well(e) /\ CandidatesImported(d, l, s, keys, new) = OrderUpdated(e, l, s)
    BY <1>1, ImportedIs
<1>3. f \in [Persons -> Identities \cup Gone]
    BY <1>2 DEF Well, Projections
<1>4. known = DOMAIN s
    BY DEF SamePerson
<1>5. \A i \in DOMAIN s : s[i] \in Persons
    OBVIOUS
<1>6. \A p \in Persons : f[p] = IF \E i \in known : s[i] = p
                                THEN keys[CHOOSE i \in known : s[i] = p] ELSE d.persons[p]
    BY DEF ImportSaved
<1>7. ASSUME NEW i \in DOMAIN s PROVE f[s[i]] = keys[i]
    <2> DEFINE c == CHOOSE j \in known : s[j] = s[i]
    <2>1. c \in DOMAIN s /\ s[c] = s[i]
        BY <1>4
    <2>2. c = i
        BY <2>1 DEF Injective
    <2>3. f[s[i]] = keys[c]
        BY <1>4, <1>5, <1>6
    <2> QED
        BY <2>2, <2>3
<1>8. \A p \in Persons : p \notin On(s) => f[p] = d.persons[p]
    BY <1>4, <1>6 DEF On
<1>9. \A p \in Persons : p \in On(s) => f[p] \in Identities /\ f[p] \notin Gone
    BY <1>7, ValuesAssumption DEF On
<1> HIDE DEF f
<1>10. \A k \in Lists : d.lists[k] # NoList =>
          \A p \in On(d.lists[k].candidates) : p \in Persons /\ f[p] \notin Gone
    BY <1>8, <1>9, SoundParts
<1>11. ASSUME NEW p \in On(s), NEW q \in Persons, f[p] = f[q], f[p] # NoKey
       PROVE  p = q
    <2>1. PICK i \in DOMAIN s : p = s[i]
        BY DEF On
    <2>2. f[p] = keys[i] /\ p \in Persons /\ keys[i] \notin Gone
        BY <1>5, <1>7, <2>1, ValuesAssumption
    <2>3. CASE q \in On(s)
        <3>1. PICK j \in DOMAIN s : q = s[j]
            BY <2>3 DEF On
        <3>2. keys[i] = keys[j] /\ keys[i] # NoKey
            BY <1>7, <1>11, <2>2, <3>1
        <3> QED
            BY <2>1, <3>1, <3>2
    <2>4. CASE q \notin On(s)
        <3>1. d.persons[q] = keys[i] /\ keys[i] # NoKey
            BY <1>8, <1>11, <2>2, <2>4
        <3>2. q \in SamePerson(d, keys[i])
            BY <2>2, <3>1 DEF SamePerson, Alive
        <3>3. p \in SamePerson(d, keys[i])
            BY <2>1, <3>2
        <3> QED
            BY <2>2, <3>1, <3>3, SoundParts DEF SamePerson
    <2> QED
        BY <2>3, <2>4
<1>12. \A p, q \in Persons : f[p] = f[q] /\ f[p] \notin Gone => p = q \/ f[p] = NoKey
    <2> SUFFICES ASSUME NEW p \in Persons, NEW q \in Persons, f[p] = f[q], f[p] \notin Gone,
                        f[p] # NoKey
                 PROVE  p = q
        OBVIOUS
    <2>1. CASE p \in On(s)
        BY <2>1, <1>11
    <2>2. CASE q \in On(s)
        BY <2>2, <1>11
    <2>3. CASE p \notin On(s) /\ q \notin On(s)
        BY <2>3, <1>8, SoundParts
    <2> QED
        BY <2>1, <2>2, <2>3
<1>13. Sound(e)
    BY <1>1, <1>2, <1>3, <1>10, <1>12, SoundMade
<1>14. On(s) \subseteq Alive(e)
    BY <1>5, <1>9 DEF Alive, On
<1> HIDE DEF e
<1> QED
    BY <1>2, <1>13, <1>14, OrderUpdatedSound

-----------------------------------------------------------------------------
(* On the own stream a request that is not behind has looked at the state   *)
(* that it writes on, and the person that it entered first is still there.  *)
Current(r) ==
    req[r].pc # "idle" => /\ req[r].seen <= version
                          /\ req[r].seen = version => req[r].view = data
                          /\ req[r].pc = "append" => req[r].person \in Alive(req[r].view)
OInv == PInv /\ Sound(data) /\ \A r \in Requests : Current(r)

(* What a step can be.                                                      *)
LEMMA Steps ==
    ASSUME Next
    PROVE  \E r \in Requests : \/ Arrive(r) \/ Leave(r)
                               \/ req[r].pc # "idle" /\ \E kind, d : Persist(r, kind, d)
<1> DEFINE Writes(r) == req[r].pc # "idle" /\ \E kind, d : Persist(r, kind, d)
<1>1. ASSUME NEW r, NEW kind, NEW d, Update(r, kind, d) PROVE Writes(r)
    BY <1>1 DEF Update
<1>2. ASSUME NEW r, NEW kind, NEW l, NEW s, UpdateOrder(r, kind, l, s) PROVE Writes(r)
    BY <1>1, <1>2 DEF UpdateOrder
<1>3. ASSUME NEW r, OnPersons(r) PROVE Writes(r)
    BY <1>1, <1>3 DEF OnPersons, CreatePerson, UpdatePerson, DeletePerson
<1>4. ASSUME NEW r, OnLists(r) PROVE Writes(r)
    <2>1. CASE \E l \in Lists, p \in Persons, k \in Identities : CreateCandidate(r, l, p, k)
        BY <2>1 DEF CreateCandidate
    <2>2. CASE \E l \in Lists, copy \in BOOLEAN : CreateList(r, l, copy)
        BY <1>1, <2>2 DEF CreateList
    <2>3. CASE \E l, keys, s : ImportCandidates(r, l, keys, s)
        BY <1>1, <2>3 DEF ImportCandidates
    <2>4. CASE \E l, s : Reorder(r, l, s) \/ AddAll(r, l, s)
        BY <1>2, <2>4 DEF Reorder, AddAll
    <2>5. CASE \E l, i, j : UpdatePosition(r, l, i, j) \/ RemoveAll(r, l, i)
        BY <1>2, <2>5 DEF UpdatePosition, RemoveAll
    <2>6. CASE \E l, p : \/ AppendCandidate(r, l, p) \/ RemoveCandidate(r, l, p)
                         \/ DeleteList(r, l)
        BY <1>1, <2>6 DEF AppendCandidate, RemoveCandidate, DeleteList
    <2> QED
        BY <1>4, <2>1, <2>2, <2>3, <2>4, <2>5, <2>6 DEF OnLists
<1>5. ASSUME NEW r, AppendCreated(r) \/ OtherEvent(r) PROVE Writes(r)
    BY <1>1, <1>5 DEF AppendCreated, OtherEvent
<1> QED
    BY <1>3, <1>4, <1>5 DEF Next

LEMMA SettingFixed == ASSUME [Next]_vars PROVE Own' = Own
<1>1. CASE Next
    BY <1>1, Steps DEF Arrive, Leave, Persist, Own
<1> QED
    BY <1>1 DEF vars, Own

LEMMA OInvInit == Init => OInv
<1> SUFFICES ASSUME Init PROVE OInv
    OBVIOUS
<1>1. PInv /\ data = Start
    BY PInvInit DEF Init
<1>2. Sound(data)
    BY <1>1, NoReqWell, StartAssumption DEF Sound
<1>3. \A r \in Requests : req[r].pc = "idle"
    BY NoReqWell DEF Init
<1> QED
    BY <1>1, <1>2, <1>3 DEF OInv, Current

LEMMA WritesOnWhatItSaw ==
    ASSUME Own, OInv, NEW r \in Requests, req[r].pc # "idle", MayWrite(r)
    PROVE  req[r].view = data
BY DEF OInv, Current, MayWrite

(* Whoever persists an event that leaves the projection sound: the others   *)
(* are behind from then on.                                                 *)
LEMMA PersistCurrent ==
    ASSUME OInv, PInv', NEW r \in Requests, NEW kind, NEW d, Sound(d), Persist(r, kind, d),
           NEW x, req' = [req EXCEPT ![r] = x],
           x.pc = "idle" \/ (x.seen = version + 1 /\ x.view = d /\ x.person \in Alive(d))
    PROVE  OInv'
<1>1. version \in Nat /\ version' = version + 1 /\ data' = d /\ req \in [Requests -> ReqRecords]
    BY DEF OInv, PInv, Persist
<1>2. ASSUME NEW q \in Requests, q # r PROVE Current(q)'
    <2>1. req'[q] = req[q] /\ req[q] \in ReqRecords /\ Current(q)
        BY <1>1, <1>2 DEF OInv
    <2>2. req[q].seen \in Nat
        BY <2>1 DEF ReqRecords
    <2> QED
        BY <1>1, <2>1, <2>2 DEF Current
<1>3. Current(r)'
    <2>1. req'[r] = x
        BY <1>1
    <2> QED
        BY <1>1, <2>1 DEF Current
<1> QED
    BY <1>1, <1>2, <1>3 DEF OInv

LEMMA UpdateCurrent ==
    ASSUME OInv, PInv', NEW r \in Requests, NEW kind, NEW d, Sound(d), Update(r, kind, d)
    PROVE  OInv'
<1>1. NoReq.pc = "idle"
    BY NoReqWell
<1> QED
    BY <1>1, PersistCurrent DEF Update

(* What an order was checked against is the state it is written on.         *)
LEMMA UpdateOrderCurrent ==
    ASSUME Own, OInv, PInv', NEW r \in Requests, NEW kind, NEW l \in Lists, NEW s \in Seq(Persons),
           UpdateOrder(r, kind, l, s)
    PROVE  OInv'
<1>1. req[r].view = data
    BY WritesOnWhatItSaw DEF UpdateOrder, Update, Persist
<1>2. Injective(s) /\ On(s) \subseteq Alive(data) /\ Update(r, kind, OrderUpdated(data, l, s))
    BY <1>1 DEF UpdateOrder, OrderAllowed
<1>3. Sound(OrderUpdated(data, l, s))
    BY <1>2, OrderUpdatedSound DEF OInv
<1> QED
    BY <1>2, <1>3, UpdateCurrent

LEMMA OnPersonsCurrent ==
    ASSUME Own, OInv, PInv', NEW r \in Requests, OnPersons(r)
    PROVE  OInv'
<1>1. PICK p \in Persons : \/ \E k \in Identities : CreatePerson(r, p, k) \/ UpdatePerson(r, p, k)
                          \/ DeletePerson(r, p)
    BY DEF OnPersons
<1>2. Sound(data) /\ req[r].view = data
    BY WritesOnWhatItSaw DEF OnPersons, OInv
<1>3. ASSUME NEW k \in Identities, CreatePerson(r, p, k) PROVE OInv'
    <2>1. Sound(PersonSaved(data, p, k))
        BY <1>2, <1>3, PersonSavedSound DEF CreatePerson
    <2> QED
        BY <1>3, <2>1, UpdateCurrent DEF CreatePerson
<1>4. ASSUME NEW k \in Identities, UpdatePerson(r, p, k) PROVE OInv'
    <2>1. Sound(PersonSaved(data, p, k))
        BY <1>2, <1>4, PersonSavedSound DEF UpdatePerson
    <2>2. Sound(PersonUpdated(data, p, k))
        BY <1>2, <2>1 DEF PersonUpdated
    <2> QED
        BY <1>4, <2>2, UpdateCurrent DEF UpdatePerson
<1>5. ASSUME DeletePerson(r, p) PROVE OInv'
    BY <1>2, <1>5, PersonDeletedSound, UpdateCurrent DEF DeletePerson
<1> QED
    BY <1>1, <1>3, <1>4, <1>5

LEMMA CreateListCurrent ==
    ASSUME Own, OInv, PInv', NEW r \in Requests, NEW l \in Lists, NEW copy \in BOOLEAN,
           CreateList(r, l, copy)
    PROVE  OInv'
<1> DEFINE from == {k \in Lists : copy /\ LastList(req[r].view, k)}
<1>1. PICK s \in IF from = {} THEN {<< >>} ELSE {Candidates(req[r].view, k) : k \in from} :
          Update(r, "list", ListCreated(data, l, s, version))
    BY DEF CreateList
<1>2. Sound(data) /\ Well(data) /\ req[r].view = data /\ version \in Nat
    BY <1>1, WritesOnWhatItSaw DEF OInv, PInv, Update, Persist
<1>3. s \in Seq(Persons) /\ Injective(s) /\ On(s) \subseteq Alive(data)
    <2>1. CASE from = {}
        <3>1. s = << >>
            BY <1>1, <2>1
        <3>2. << >> \in Seq(Persons) /\ DOMAIN << >> = {}
            OBVIOUS
        <3> QED
            BY <3>1, <3>2 DEF Injective, On
    <2>2. CASE from # {}
        <3>1. PICK k \in Kept(data) : s = Candidates(data, k)
            BY <1>1, <1>2, <2>2 DEF LastList
        <3> QED
            BY <1>2, <3>1, WellLists DEF Sound, ExistIn
    <2> QED
        BY <2>1, <2>2
<1>4. Sound(ListCreated(data, l, s, version))
    BY <1>2, <1>3, ListCreatedSound
<1> QED
    BY <1>1, <1>4, UpdateCurrent

LEMMA PositionCurrent ==
    ASSUME Own, OInv, PInv', NEW r \in Requests, NEW l \in Lists, NEW i, NEW j,
           UpdatePosition(r, l, i, j)
    PROVE  OInv'
<1> DEFINE s == Candidates(req[r].view, l)
<1>1. s \in Seq(Persons) /\ i \in DOMAIN s /\ j \in DOMAIN s
    BY WellLists DEF UpdatePosition, Readable, OInv, PInv
<1>2. UpdateOrder(r, "order", l, Moved(s, i, j))
    BY DEF UpdatePosition
<1> HIDE DEF s
<1> QED
    BY <1>1, <1>2, MovedPermutes, UpdateOrderCurrent

LEMMA AddAllCurrent ==
    ASSUME Own, OInv, PInv', NEW r \in Requests, NEW l \in Lists, NEW others \in Seq(Persons),
           AddAll(r, l, others)
    PROVE  OInv'
<1> DEFINE s == Candidates(req[r].view, l)
<1>1. s \in Seq(Persons)
    BY WellLists DEF AddAll, Readable, OInv, PInv
<1>2. UpdateOrder(r, "order", l, Truncated(s \o others))
    BY DEF AddAll
<1>3. s \o others \in Seq(Persons)
    BY <1>1
<1>4. Truncated(s \o others) \in Seq(Persons)
    BY <1>3, BoundsAssumption DEF Truncated
<1> HIDE DEF s
<1> QED
    BY <1>2, <1>4, UpdateOrderCurrent

LEMMA RemoveAllCurrent ==
    ASSUME Own, OInv, PInv', NEW r \in Requests, NEW l \in Lists, NEW n, RemoveAll(r, l, n)
    PROVE  OInv'
<1> DEFINE s == Candidates(req[r].view, l)
<1>1. s \in Seq(Persons) /\ n \in 0..Len(s)
    BY WellLists DEF RemoveAll, Readable, OInv, PInv
<1>2. UpdateOrder(r, "order", l, SubSeq(s, 1, n))
    BY DEF RemoveAll
<1>3. SubSeq(s, 1, n) \in Seq(Persons)
    BY <1>1
<1> HIDE DEF s
<1> QED
    BY <1>2, <1>3, UpdateOrderCurrent

LEMMA CreateCandidateCurrent ==
    ASSUME Own, OInv, PInv', NEW r \in Requests, NEW l \in Lists, NEW p \in Persons,
           NEW k \in Identities, CreateCandidate(r, l, p, k)
    PROVE  OInv'
<1> DEFINE next == PersonSaved(data, p, k)
           x == [pc |-> "append", seen |-> version + 1, view |-> next, list |-> l, person |-> p]
<1>1. Sound(data) /\ Well(data) /\ req[r].view = data
    BY WritesOnWhatItSaw DEF OInv, PInv, CreateCandidate, Persist
<1>2. Sound(next)
    BY <1>1, PersonSavedSound DEF CreateCandidate
<1>3. p \in Alive(next)
    <2>1. next.persons = [data.persons EXCEPT ![p] = k]
        BY <1>1, PersonSavedWell
    <2>2. next.persons[p] = k
        BY <1>1, <2>1, WellLists
    <2> QED
        BY <2>2, ValuesAssumption DEF Alive
<1>4. Persist(r, "person", next) /\ req' = [req EXCEPT ![r] = x]
    BY DEF CreateCandidate
<1> HIDE DEF next
<1>5. x.seen = version + 1 /\ x.view = next /\ x.person \in Alive(next)
    BY <1>3
<1> HIDE DEF x
<1> QED
    BY <1>2, <1>4, <1>5, PersistCurrent

LEMMA AppendCreatedCurrent ==
    ASSUME Own, OInv, PInv', NEW r \in Requests, AppendCreated(r)
    PROVE  OInv'
<1>1. req[r].pc = "append" /\ MayWrite(r)
    BY DEF AppendCreated, Persist
<1>2. Sound(data) /\ req[r].view = data /\ req[r].person \in Alive(data)
    BY <1>1, WritesOnWhatItSaw DEF OInv, Current
<1>3. Sound(CandidateAdded(data, req[r].list, req[r].person))
    BY <1>2, CandidateAddedSound
<1> QED
    BY <1>3, NoReqWell, PersistCurrent DEF AppendCreated

LEMMA ImportCurrent ==
    ASSUME Own, OInv, PInv', NEW r \in Requests, NEW l \in Lists,
           NEW keys \in SeqsUpTo(Identities, MaxRows), NEW s \in [DOMAIN keys -> Persons],
           ImportCandidates(r, l, keys, s)
    PROVE  OInv'
<1> DEFINE new == {s[i] : i \in {i \in DOMAIN keys : SamePerson(req[r].view, keys[i]) = {}}}
<1>1. Update(r, "import", CandidatesImported(data, l, s, keys, new))
    BY DEF ImportCandidates
<1>2. keys \in Seq(Identities)
    BY SeqRange, BoundsAssumption
<1>3. /\ s \in Seq(Persons) /\ Injective(s) /\ DOMAIN s = DOMAIN keys
      /\ \A i \in DOMAIN keys : keys[i] \in Identities
      /\ \A i, j \in DOMAIN keys : keys[i] = keys[j] => i = j \/ keys[i] = NoKey
    BY <1>2 DEF ImportCandidates
<1>4. Sound(data) /\ req[r].view = data
    BY <1>1, WritesOnWhatItSaw DEF OInv, Update, Persist
<1>5. \A i \in DOMAIN keys : IF SamePerson(data, keys[i]) = {} THEN s[i] \in new
                             ELSE s[i] \in SamePerson(data, keys[i])
    BY <1>4 DEF ImportCandidates
<1> HIDE DEF new
<1>6. Sound(CandidatesImported(data, l, s, keys, new))
    BY <1>3, <1>4, <1>5, ImportedSound
<1> QED
    BY <1>1, <1>6, UpdateCurrent

LEMMA OnListsCurrent ==
    ASSUME Own, OInv, PInv', NEW r \in Requests, OnLists(r)
    PROVE  OInv'
<1>1. PICK l \in Lists :
        \/ \E copy \in BOOLEAN : CreateList(r, l, copy)
        \/ DeleteList(r, l)
        \/ \E s \in SeqsUpTo(Persons, Cardinality(Persons)) : Reorder(r, l, s) \/ AddAll(r, l, s)
        \/ \E i, j \in 1..Cardinality(Persons) : UpdatePosition(r, l, i, j)
        \/ \E n \in 0..Cardinality(Persons) : RemoveAll(r, l, n)
        \/ \E p \in Persons : AppendCandidate(r, l, p) \/ RemoveCandidate(r, l, p)
        \/ \E p \in Persons, k \in Identities : CreateCandidate(r, l, p, k)
        \/ \E keys \in SeqsUpTo(Identities, MaxRows) : \E s \in [DOMAIN keys -> Persons] :
               ImportCandidates(r, l, keys, s)
    BY DEF OnLists
<1>2. Sound(data) /\ req[r].view = data
    BY WritesOnWhatItSaw DEF OnLists, OInv
<1>3. ASSUME DeleteList(r, l) PROVE OInv'
    BY <1>2, <1>3, ListDeletedSound, UpdateCurrent DEF DeleteList
<1>4. ASSUME NEW s \in SeqsUpTo(Persons, Cardinality(Persons)), Reorder(r, l, s) \/ AddAll(r, l, s)
      PROVE  OInv'
    <2>1. s \in Seq(Persons)
        BY DEF SeqsUpTo
    <2> QED
        BY <1>4, <2>1, UpdateOrderCurrent, AddAllCurrent DEF Reorder
<1>5. ASSUME NEW p \in Persons, AppendCandidate(r, l, p) PROVE OInv'
    <2>1. p \in Alive(data) /\ Update(r, "add", CandidateAdded(data, l, p))
        BY <1>2, <1>5 DEF AppendCandidate
    <2>2. Sound(CandidateAdded(data, l, p))
        BY <1>2, <2>1, CandidateAddedSound
    <2> QED
        BY <2>1, <2>2, UpdateCurrent
<1>6. ASSUME NEW p \in Persons, RemoveCandidate(r, l, p) PROVE OInv'
    BY <1>2, <1>6, CandidateRemovedSound, UpdateCurrent DEF RemoveCandidate
<1> QED
    BY <1>1, <1>3, <1>4, <1>5, <1>6, CreateListCurrent, PositionCurrent, RemoveAllCurrent,
       CreateCandidateCurrent, ImportCurrent

LEMMA OInvNext == ASSUME Own, OInv, [Next]_vars PROVE OInv'
<1>1. PInv'
    BY PInvNext DEF OInv
<1>2. CASE UNCHANGED vars
    BY <1>1, <1>2 DEF vars, OInv, Current
<1>3. ASSUME NEW r \in Requests, Arrive(r) PROVE OInv'
    <2> DEFINE x == [pc |-> "in", seen |-> version, view |-> data,
                     list |-> NoList, person |-> NoPerson]
    <2>1. x.pc = "in" /\ x.seen = version /\ x.view = data
        OBVIOUS
    <2>2. req' = [req EXCEPT ![r] = x] /\ UNCHANGED <<data, version>>
        BY <1>3 DEF Arrive
    <2> HIDE DEF x
    <2> QED
        BY <1>1, <2>1, <2>2 DEF OInv, PInv, Current
<1>4. ASSUME NEW r \in Requests, Leave(r) PROVE OInv'
    BY <1>1, <1>4, NoReqWell DEF Leave, OInv, PInv, Current
<1>5. ASSUME NEW r \in Requests, OtherEvent(r) PROVE OInv'
    BY <1>1, <1>5, UpdateCurrent DEF OtherEvent, OInv
<1> QED
    BY <1>1, <1>2, <1>3, <1>4, <1>5, OnPersonsCurrent, OnListsCurrent, AppendCreatedCurrent
       DEF Next

(* The inductive invariant, of both kinds of sessions.                      *)
SInv == PInv /\ (Own => OInv)

LEMMA SInvInit == Init => SInv
BY PInvInit, OInvInit DEF SInv

LEMMA SInvNext == SInv /\ [Next]_vars => SInv'
<1> SUFFICES ASSUME SInv, [Next]_vars PROVE SInv'
    OBVIOUS
<1>1. PInv'
    BY PInvNext DEF SInv
<1>2. Own' => OInv'
    BY SettingFixed, OInvNext DEF SInv
<1> QED
    BY <1>1, <1>2 DEF SInv

(* On a political group's own stream every candidate on a list is a person  *)
(* of the group, however requests interleave: nobody can be taken from the  *)
(* group between the check of update_order and its event.                   *)
THEOREM OwnCandidatesExist == Spec => []CandidatesExist
<1>1. SInv => CandidatesExist
    BY DEF SInv, OInv, Sound, CandidatesExist
<1> QED
    BY <1>1, SInvInit, SInvNext, PTL DEF Spec

(* On a political group's own stream no identity is entered twice, by form  *)
(* or by import: uniqueness_errors and find_matching_person look at the     *)
(* state that their event is applied to.                                    *)
THEOREM OwnIdentitiesDistinct == Spec => []IdentitiesDistinct
<1>1. SInv => IdentitiesDistinct
    BY DEF SInv, OInv, Sound, IdentitiesDistinct
<1> QED
    BY <1>1, SInvInit, SInvNext, PTL DEF Spec

-----------------------------------------------------------------------------
(* Every event of the own stream is decided on the state that it changes.   *)
LEMMA DecidedOnData ==
    ASSUME Own, OInv, [Next]_vars, version' # version
    PROVE  wrote'.by = data
<1>1. PICK r \in Requests : req[r].pc # "idle" /\ \E kind, d : Persist(r, kind, d)
    BY Steps DEF vars, Arrive, Leave
<1> QED
    BY <1>1, WritesOnWhatItSaw DEF Persist

(* On a political group's own stream a candidate leaves a list only by the  *)
(* decision of someone who saw them on it, or with their person: a write    *)
(* decided on an older page is refused (seen_event_id).                     *)
THEOREM OwnNothingLostUnseen == Spec => NothingLostUnseen
<1>1. SInv /\ [Next]_vars =>
        [Own /\ version' # version =>
           \A l \in Kept(data) \cap Kept(data') :
               (On(Candidates(data, l)) \ On(Candidates(data', l))) \cap Alive(data') \subseteq
                   IF l \in Kept(wrote'.by) THEN On(Candidates(wrote'.by, l)) ELSE {}]_vars
    BY DecidedOnData DEF SInv
<1> QED
    BY <1>1, SInvInit, SInvNext, PTL DEF Spec, NothingLostUnseen

(* Only a reorder is recorded as one.                                       *)
LEMMA ReorderOnly ==
    ASSUME [Next]_vars, version' # version, wrote'.kind = "reorder", PInv
    PROVE  \E r \in Requests, l \in Lists, s \in Seq(Persons) : Reorder(r, l, s)
<1>1. ASSUME NEW r, NEW kind, NEW d, Persist(r, kind, d) PROVE kind = "reorder"
    BY <1>1 DEF Persist
<1>2. ASSUME NEW r \in Requests, OnPersons(r) PROVE FALSE
    BY <1>1, <1>2 DEF OnPersons, CreatePerson, UpdatePerson, DeletePerson, Update
<1>3. ASSUME NEW r \in Requests, OnLists(r)
      PROVE  \E l \in Lists, s \in Seq(Persons) : Reorder(r, l, s)
    <2>1. ASSUME NEW l, NEW p, NEW k, CreateCandidate(r, l, p, k) PROVE FALSE
        BY <1>1, <2>1 DEF CreateCandidate
    <2>2. ASSUME NEW l, NEW copy, CreateList(r, l, copy) PROVE FALSE
        BY <1>1, <2>2 DEF CreateList, Update
    <2>3. ASSUME NEW l, NEW keys, NEW s, ImportCandidates(r, l, keys, s) PROVE FALSE
        BY <1>1, <2>3 DEF ImportCandidates, Update
    <2>4. ASSUME NEW l, NEW s, AddAll(r, l, s) PROVE FALSE
        BY <1>1, <2>4 DEF AddAll, UpdateOrder, Update
    <2>5. ASSUME NEW l, NEW i, NEW j, UpdatePosition(r, l, i, j) \/ RemoveAll(r, l, i) PROVE FALSE
        BY <1>1, <2>5 DEF UpdatePosition, RemoveAll, UpdateOrder, Update
    <2>6. ASSUME NEW l, NEW p, AppendCandidate(r, l, p) \/ RemoveCandidate(r, l, p) \/ DeleteList(r, l)
          PROVE  FALSE
        BY <1>1, <2>6 DEF AppendCandidate, RemoveCandidate, DeleteList, Update
    <2>7. ASSUME NEW s \in SeqsUpTo(Persons, Cardinality(Persons)) PROVE s \in Seq(Persons)
        BY <2>7 DEF SeqsUpTo
    <2> QED
        BY <1>3, <2>1, <2>2, <2>3, <2>4, <2>5, <2>6, <2>7 DEF OnLists
<1>4. ASSUME NEW r \in Requests, AppendCreated(r) \/ OtherEvent(r) PROVE FALSE
    BY <1>1, <1>4 DEF AppendCreated, OtherEvent, Update
<1> QED
    BY <1>2, <1>3, <1>4 DEF Next, vars, Arrive, Leave

(* On a political group's own stream a reorder gives the list the           *)
(* candidates that it has, in another order, and touches no other list      *)
(* (reorder_candidate_list: "Only permutes the current candidates").        *)
THEOREM OwnReorderPermutes == Spec => ReorderPermutes
<1>1. ASSUME Own, OInv, [Next]_vars, version' # version, wrote'.kind = "reorder", NEW k \in Kept(data)
      PROVE  k \in Kept(data') /\ On(Candidates(data', k)) = On(Candidates(data, k))
    <2>1. PICK r \in Requests, l \in Lists, s \in Seq(Persons) : Reorder(r, l, s)
        BY <1>1, ReorderOnly DEF OInv
    <2>2. req[r].view = data
        BY <1>1, <2>1, WritesOnWhatItSaw DEF Reorder, UpdateOrder, Update, Persist
    <2>3. l \in Kept(data) /\ On(s) = On(Candidates(data, l)) /\ data' = OrderUpdated(data, l, s)
        BY <2>1, <2>2 DEF Reorder, UpdateOrder, Update, Persist
    <2>4. Well(data) /\ data.lists[l] \in ListRecords /\ data.lists \in [Lists -> ListRecords \cup {NoList}]
        BY <1>1, <2>3, WellLists DEF OInv, PInv
    <2>5. data'.lists = [data.lists EXCEPT ![l] = [at |-> data.lists[l].at, candidates |-> s]]
        <3>1. data' = [data EXCEPT !.lists[l].candidates = s]
            BY <2>3 DEF OrderUpdated
        <3>2. data' = [persons |-> data.persons,
                       lists |-> [data.lists EXCEPT ![l] = [at |-> data.lists[l].at, candidates |-> s]]]
            BY <2>3, <2>4, <3>1, OrderUpdatedIs
        <3> QED
            BY <3>2
    <2>6. [at |-> data.lists[l].at, candidates |-> s] \in ListRecords
        BY <2>4 DEF ListRecords
    <2>7. [at |-> data.lists[l].at, candidates |-> s] # NoList
        BY <2>6, ValuesAssumption
    <2>8. k \in Lists /\ data.lists[k] # NoList
        BY <1>1 DEF Kept
    <2>9. data'.lists[k] = IF k = l THEN [at |-> data.lists[l].at, candidates |-> s] ELSE data.lists[k]
        BY <2>4, <2>5, <2>8
    <2>10. k \in Kept(data')
        BY <2>7, <2>8, <2>9 DEF Kept
    <2>11. Candidates(data', k) = IF k = l THEN s ELSE Candidates(data, k)
        BY <2>9 DEF Candidates
    <2> QED
        BY <2>3, <2>10, <2>11
<1>2. SInv /\ [Next]_vars =>
        [Own /\ version' # version /\ wrote'.kind = "reorder" =>
           \A l \in Kept(data) : l \in Kept(data') /\ On(Candidates(data', l)) = On(Candidates(data, l))]_vars
    BY <1>1 DEF SInv
<1> QED
    BY <1>2, SInvInit, SInvNext, PTL DEF Spec, ReorderPermutes

-----------------------------------------------------------------------------
(* Submission.  Its steps are steps of CandidateLists, or leave its         *)
(* variables alone.                                                         *)
LEMMA UpdateIsWrite ==
    ASSUME NEW r, NEW kind, NEW d, Update(r, kind, d)
    PROVE  req[r].pc = "in" /\ MayWrite(r)
BY DEF Update, Persist

LEMMA ChangeSteps ==
    ASSUME NEW r \in Requests, NEW kind, NEW f, Change(r, kind, f)
    PROVE  Next
BY DEF Change, Next, OtherEvent

LEMMA FormSteps ==
    ASSUME NEW r \in Requests, OnName(r) \/ OnGroup(r) \/ Aside(r)
    PROVE  Next
<1>1. CASE OnName(r)
    BY <1>1, ChangeSteps DEF OnName, UpdateListDesignation, UpdatePoliticalGroup
<1>2. CASE OnGroup(r)
    <2>1. CASE GenDocuments(r) \/ \E e \in open : GenPastDocuments(r, e)
        BY <2>1 DEF GenDocuments, GenPastDocuments, Next, OtherEvent
    <2>2. CASE ~(GenDocuments(r) \/ \E e \in open : GenPastDocuments(r, e))
        BY <1>2, <2>2, ChangeSteps DEF OnGroup, CreateNameAuthorisation, DeleteNameAuthorisation,
           UpdateListSubmitter, CreateSubstituteSubmitter, DeleteSubstituteSubmitter, UpdateDistricts
    <2> QED
        BY <2>1, <2>2
<1>3. CASE Aside(r)
    BY <1>3 DEF Aside, Next
<1> QED
    BY <1>1, <1>2, <1>3

LEMMA EntrySteps ==
    ASSUME NEW r \in Requests, req[r].pc # "idle", MayWrite(r), OnBoth(r) \/ OnEntries(r)
    PROVE  Next
<1>1. ASSUME NEW p \in Persons, NEW k \in Identities, CreatePerson(r, p, k) \/ UpdatePerson(r, p, k)
      PROVE  Next
    <2>1. req[r].pc = "in"
        BY <1>1, UpdateIsWrite DEF CreatePerson, UpdatePerson
    <2> QED
        BY <1>1, <2>1 DEF Next, OnPersons
<1>2. ASSUME NEW p \in Persons, DeletePerson(r, p)
      PROVE  Next
    <2>1. req[r].pc = "in"
        BY <1>2, UpdateIsWrite DEF DeletePerson
    <2> QED
        BY <1>2, <2>1 DEF Next, OnPersons
<1>3. ASSUME NEW l \in Lists, (\E copy \in BOOLEAN : CreateList(r, l, copy)) \/ DeleteList(r, l)
      PROVE  Next
    <2>1. req[r].pc = "in"
        BY <1>3, UpdateIsWrite DEF CreateList, DeleteList
    <2> QED
        BY <1>3, <2>1 DEF Next, OnLists
<1>4. ASSUME NEW l \in Lists, NEW p \in Persons, NEW k \in Identities, CreateCandidate(r, l, p, k)
      PROVE  Next
    <2>1. req[r].pc = "in"
        BY <1>4 DEF CreateCandidate
    <2> QED
        BY <1>4, <2>1 DEF Next, OnLists
<1>5. ASSUME NEW l \in Lists, NEW keys \in SeqsUpTo(Identities, MaxRows),
             NEW s \in [DOMAIN keys -> Persons], ImportCandidates(r, l, keys, s)
      PROVE  Next
    <2>1. req[r].pc = "in"
        BY <1>5, UpdateIsWrite DEF ImportCandidates
    <2> QED
        BY <1>5, <2>1 DEF Next, OnLists
<1>6. CASE Arrange(r)
    <2>1. CASE AppendCreated(r)
        BY <2>1 DEF Next
    <2>2. ASSUME NEW l \in Lists,
                 \/ \E s \in SeqsUpTo(Persons, Cardinality(Persons)) : Reorder(r, l, s) \/ AddAll(r, l, s)
                 \/ \E i, j \in 1..Cardinality(Persons) : UpdatePosition(r, l, i, j)
                 \/ \E n \in 0..Cardinality(Persons) : RemoveAll(r, l, n)
                 \/ \E p \in Persons : AppendCandidate(r, l, p) \/ RemoveCandidate(r, l, p)
          PROVE  Next
        <3>1. req[r].pc = "in"
            BY <2>2, UpdateIsWrite DEF Reorder, AddAll, UpdatePosition, RemoveAll, UpdateOrder,
               AppendCandidate, RemoveCandidate
        <3> QED
            BY <2>2, <3>1 DEF Next, OnLists
    <2> QED
        BY <1>6, <2>1, <2>2 DEF Arrange
<1>7. CASE OnBoth(r)
    BY <1>1, <1>2, <1>3, <1>7 DEF OnBoth, SavePerson, RemovePerson, NewList, DropList
<1>8. CASE OnEntries(r)
    BY <1>4, <1>5, <1>6, <1>8 DEF OnEntries, EnterCandidate, EnterCandidates
<1> QED
    BY <1>7, <1>8

LEMMA SubmissionSteps ==
    ASSUME [SubmissionNext]_<<vars, extras>>
    PROVE  [Next]_vars
<1>1. ASSUME NEW r \in Requests, Come(r) \/ Go(r)
      PROVE  Next
    BY <1>1 DEF Come, Go, Next
<1>2. ASSUME NEW g, NEW name, ChangeRegistration(g, name)
      PROVE  UNCHANGED vars
    BY <1>2 DEF ChangeRegistration
<1> QED
    BY <1>1, <1>2, FormSteps, EntrySteps DEF SubmissionNext

(* The pages of a political group taken together do to its persons and      *)
(* lists what CandidateLists does.                                          *)
THEOREM SubmissionImplements == SubmissionSpec => Spec
<1>1. SubmissionInit => Init
    BY DEF SubmissionInit
<1>2. [SubmissionNext]_<<vars, extras>> => [Next]_vars
    BY SubmissionSteps
<1> QED
    BY <1>1, <1>2, PTL DEF SubmissionSpec, Spec

(* So the results above hold of the whole submission.                       *)
THEOREM SubmissionKeepsTheLists ==
    SubmissionSpec => /\ []CandidatesExist /\ []PositionsDistinct /\ []IdentitiesDistinct
                      /\ NothingLostUnseen
BY SubmissionImplements, OwnCandidatesExist, PositionsStayDistinct, OwnIdentitiesDistinct,
   OwnNothingLostUnseen, PTL

-----------------------------------------------------------------------------
(* The gate and the generator.                                              *)
LEMMA LeastExists ==
    ASSUME NEW D, D \subseteq Nat, D # {}
    PROVE  \E x \in D : \A y \in D : x <= y
<1>1. PICK R : R = OpToRel(<, Nat)
    OBVIOUS
<1>2. IsWellFoundedOn(R, Nat)
    BY <1>1, NatLessThanWellFounded
<1>3. PICK x \in D : \A y \in D : ~(<<y, x>> \in R)
    BY <1>2, WFMin
<1>4. R = {ss \in Nat \X Nat : ss[1] < ss[2]}
    BY <1>1 DEF OpToRel
<1>5. \A y \in D : ~(y < x)
    BY <1>3, <1>4
<1> QED
    BY <1>3, <1>5

LEMMA ElectionIsDistricts == ElectionDistricts \subseteq Districts
<1>1. PICK x \in Districts : \A y \in Districts : x <= y
    BY SubmissionAssumption, LeastExists
<1> QED
    BY <1>1 DEF ElectionDistricts

(* The first district of a list is one of its districts.                    *)
LEMMA ContestIs ==
    ASSUME NEW f, NEW l, f.districts[l] \subseteq Districts, f.districts[l] # {}
    PROVE  \/ f.districts[l] = ElectionDistricts /\ Contest(f, l) = {0}
           \/ \E x \in f.districts[l] : x # 0 /\ Contest(f, l) = {x}
<1>1. PICK D : D = f.districts[l]
    OBVIOUS
<1>2. PICK x \in D : \A y \in D : x <= y
    BY <1>1, SubmissionAssumption, LeastExists
<1>3. PICK z : z = CHOOSE w \in D : \A y \in D : w <= y
    OBVIOUS
<1>4. z \in D
    BY <1>2, <1>3
<1>5. z # 0
    BY <1>1, <1>4, SubmissionAssumption
<1>6. Contest(f, l) = IF D = ElectionDistricts THEN {0} ELSE {z}
    BY <1>1, <1>3 DEF Contest
<1> QED
    BY <1>1, <1>4, <1>5, <1>6

LEMMA SeveralLists ==
    ASSUME NEW d, NEW k \in Kept(d), NEW l \in Kept(d), k # l
    PROVE  Cardinality(Kept(d)) # 1
<1>1. PICK K : K = Kept(d)
    OBVIOUS
<1>2. IsFiniteSet(K)
    BY <1>1, SubmissionAssumption, FS_Subset DEF Kept
<1>3. PICK T : T = {k} \cup {l}
    OBVIOUS
<1>4. IsFiniteSet({k}) /\ Cardinality({k}) = 1
    BY FS_Singleton
<1>5. Cardinality({k} \cup {l}) = Cardinality({k}) + 1
    BY <1>4, FS_AddElement
<1>6. T \subseteq K /\ Cardinality(T) = 2
    BY <1>1, <1>3, <1>4, <1>5
<1>7. Cardinality(T) <= Cardinality(K) /\ Cardinality(K) \in Nat
    BY <1>2, <1>6, FS_Subset, FS_CardinalityType
<1> QED
    BY <1>1, <1>6, <1>7

(* When no problem is an error and every candidate is a person, nothing     *)
(* that is needed to make the documents is missing.                         *)
LEMMA GateCollects ==
    ASSUME NEW d, ExistIn(d), NEW f \in Forms, Downloadable(d, f)
    PROVE  Collected(d, f)
<1>1. ~GeneralProblems(f) /\ ~CandidateProblems(d, f) /\ ~ListProblems(d, f)
    BY DEF Downloadable
<1>2. ~NoAppellation(f) /\ ~SizeProblem(f) /\ f.submitter = "complete"
    BY <1>1 DEF GeneralProblems
<1>3. Kept(d) # {}
    BY <1>1 DEF ListProblems
<1>4. ASSUME NEW l \in Kept(d)
      PROVE  /\ f.districts[l] # {} /\ f.districts[l] \subseteq Districts
             /\ \A k \in Kept(d) \ {l} : f.districts[k] \cap f.districts[l] = {}
    <2>1. ~DuplicateDistricts(d, f, l) /\ f.districts[l] # {}
        BY <1>1, <1>4 DEF ListProblems
    <2>2. f.districts \in [Lists -> SUBSET Districts] /\ l \in Lists
        BY <1>4 DEF Forms, Kept
    <2> QED
        BY <2>1, <2>2 DEF DuplicateDistricts
<1>5. ASSUME NEW l \in Kept(d)
      PROVE  Collects(d, f, l)
    <2>1. Readable(d, l)
        BY <1>5 DEF ExistIn, Readable
    <2>2. On(Candidates(d, l)) \subseteq OnSomeList(d) \cap Alive(d)
        BY <1>5 DEF ExistIn, OnSomeList
    <2>3. On(Candidates(d, l)) \subseteq f.complete
        BY <1>1, <2>2 DEF CandidateProblems
    <2>4. Printed(f) # {}
        BY <1>2 DEF Printed, SizeProblem
    <2> QED
        BY <1>2, <1>4, <1>5, <2>1, <2>3, <2>4 DEF Collects
<1>6. ASSUME NEW k \in Kept(d), NEW l \in Kept(d), k # l
      PROVE  Folder(d, f, k) # Folder(d, f, l) /\ Contest(f, k) # Contest(f, l)
    <2>1. /\ f.districts[k] # {} /\ f.districts[k] \subseteq Districts
          /\ f.districts[l] # {} /\ f.districts[l] \subseteq Districts
          /\ f.districts[k] \cap f.districts[l] = {}
        BY <1>4, <1>6
    <2>2. Folder(d, f, k) # Folder(d, f, l)
        BY <1>6, <2>1, SeveralLists DEF Folder
    <2>3. \/ f.districts[k] = ElectionDistricts /\ Contest(f, k) = {0}
          \/ \E x \in f.districts[k] : x # 0 /\ Contest(f, k) = {x}
        BY <2>1, ContestIs
    <2>4. \/ f.districts[l] = ElectionDistricts /\ Contest(f, l) = {0}
          \/ \E x \in f.districts[l] : x # 0 /\ Contest(f, l) = {x}
        BY <2>1, ContestIs
    <2> QED
        BY <2>1, <2>2, <2>3, <2>4
<1> QED
    BY <1>3, <1>5, <1>6 DEF Collected

(* The steps on the pages and the gate agree on what is an error.           *)
LEMMA StepsAgree ==
    ASSUME NEW f
    PROVE  GeneralProblems(f) <=>
               "error" \in {BasicState(f), AgentsState(f), SubmittersState(f)}
<1>1. SizeProblem(f) => f.agents # {}
    BY FS_EmptySet DEF SizeProblem
<1>2. BasicState(f) = "error" <=> NoAppellation(f)
    BY DEF BasicState
<1>3. AgentsState(f) = "error" <=> SizeProblem(f)
    BY <1>1 DEF AgentsState
<1>4. SubmittersState(f) = "error" <=> f.submitter # "complete"
    BY DEF SubmittersState
<1> QED
    BY <1>2, <1>3, <1>4 DEF GeneralProblems

-----------------------------------------------------------------------------
(* On the own stream a request that may write shows the form that is        *)
(* recorded, and only a list of a party by itself is bound.                 *)
FormCurrent(r) == req[r].pc # "idle" /\ req[r].seen = version => shown[r] = form
FInv ==
    /\ SInv
    /\ form \in Forms /\ shown \in [Requests -> Forms]
    /\ Own => BoundIn(form.group) /\ \A r \in Requests : FormCurrent(r)

(* A write by request r: nobody else is up to date after it.                *)
Advances(r) ==
    /\ req[r].pc # "idle" /\ MayWrite(r) /\ version' = version + 1
    /\ \/ req' = [req EXCEPT ![r] = NoReq]
       \/ \E x : req' = [req EXCEPT ![r] = x] /\ x.seen = version + 1 /\ x.pc = "append"

(* What a write makes of the political group.                               *)
GroupStep(r, kind, printed, f) ==
    \/ kind = "designation" /\ \E k \in {"standalone", "combined", "blank"} :
                                   f.group = Designated(shown[r].group, k)
    \/ /\ kind = "information" /\ req[r].pc = "in"
       /\ \E name \in Names \cup {NoName}, pick \in Registrations \cup {Unbound} :
             /\ pick # Unbound => name = offered[r][pick]
             /\ f.group = BindRegistration([shown[r].group EXCEPT !.appellation = name], pick)
    \/ kind = "download" /\ printed = req[r].seen /\ f.group = form.group
    \/ kind \in {"other", "past"} /\ f.group = form.group
FormStep(r) == \E kind, printed, f : /\ f \in Forms /\ GroupStep(r, kind, printed, f)
                                     /\ Saved(r, kind, printed, f)

LEMMA UpdateAdvances ==
    ASSUME NEW r, NEW kind, NEW d, Update(r, kind, d)
    PROVE  Advances(r)
BY DEF Update, Persist, Advances

LEMMA GroupsMade ==
    ASSUME NEW g \in Groups, NEW f \in Forms
    PROVE  [f EXCEPT !.group = g] \in Forms /\ [f EXCEPT !.group = g].group = g
BY DEF Forms

LEMMA NameStep ==
    ASSUME FInv, NEW r \in Requests, OnName(r)
    PROVE  Advances(r) /\ FormStep(r)
<1>0. form \in Forms /\ shown[r] \in Forms /\ shown[r].group \in Groups
    BY DEF FInv, Forms
<1>1. ASSUME NEW kind \in {"standalone", "combined", "blank"}, UpdateListDesignation(r, kind)
      PROVE  Advances(r) /\ FormStep(r)
    <2>1. PICK g : g = Designated(shown[r].group, kind)
        OBVIOUS
    <2>2. g \in Groups
        BY <1>0, <2>1 DEF Designated, Groups
    <2>3. PICK f : f = [form EXCEPT !.group = g]
        OBVIOUS
    <2>4. f \in Forms /\ f.group = g
        BY <1>0, <2>2, <2>3, GroupsMade
    <2>5. Change(r, "designation", f)
        BY <1>1, <2>1, <2>3 DEF UpdateListDesignation
    <2>6. GroupStep(r, "designation", version, f)
        BY <2>1, <2>4 DEF GroupStep
    <2> QED
        BY <2>4, <2>5, <2>6, UpdateAdvances DEF Change, FormStep
<1>2. ASSUME NEW name \in Names \cup {NoName}, NEW pick \in Registrations \cup {Unbound},
             UpdatePoliticalGroup(r, pick, name)
      PROVE  Advances(r) /\ FormStep(r)
    <2>1. PICK g : g = BindRegistration([shown[r].group EXCEPT !.appellation = name], pick)
        OBVIOUS
    <2>2. g \in Groups
        BY <1>0, <2>1 DEF BindRegistration, Groups
    <2>3. PICK f : f = [form EXCEPT !.group = g]
        OBVIOUS
    <2>4. f \in Forms /\ f.group = g
        BY <1>0, <2>2, <2>3, GroupsMade
    <2>5. Change(r, "information", f) /\ (pick # Unbound => name = offered[r][pick])
        BY <1>2, <2>1, <2>3 DEF UpdatePoliticalGroup
    <2>6. req[r].pc = "in"
        BY <2>5, UpdateIsWrite DEF Change
    <2>7. GroupStep(r, "information", version, f)
        BY <2>1, <2>4, <2>5, <2>6 DEF GroupStep
    <2> QED
        BY <2>4, <2>5, <2>7, UpdateAdvances DEF Change, FormStep
<1> QED
    BY <1>1, <1>2 DEF OnName

(* Every other change leaves the political group alone.                     *)
LEMMA OtherStep ==
    ASSUME NEW r, NEW printed, NEW f \in Forms, f.group = form.group, Saved(r, "other", printed, f)
    PROVE  FormStep(r)
BY DEF FormStep, GroupStep

LEMMA FormParts ==
    ASSUME FInv
    PROVE  /\ \A a \in SUBSET Agents : /\ [form EXCEPT !.agents = a] \in Forms
                                       /\ [form EXCEPT !.agents = a].group = form.group
           /\ \A s \in {"incomplete", "complete"} :
                  /\ [form EXCEPT !.submitter = s] \in Forms
                  /\ [form EXCEPT !.submitter = s].group = form.group
           /\ \A s \in SUBSET Substitutes : /\ [form EXCEPT !.substitutes = s] \in Forms
                                            /\ [form EXCEPT !.substitutes = s].group = form.group
           /\ \A c \in SUBSET Persons : /\ [form EXCEPT !.complete = c] \in Forms
                                        /\ [form EXCEPT !.complete = c].group = form.group
           /\ \A l \in Lists, D \in SUBSET Districts :
                  /\ [form EXCEPT !.districts[l] = D] \in Forms
                  /\ [form EXCEPT !.districts[l] = D].group = form.group
           /\ form.agents \subseteq Agents /\ form.substitutes \subseteq Substitutes
           /\ form.complete \subseteq Persons
<1>1. form \in Forms
    BY DEF FInv
<1> QED
    BY <1>1 DEF Forms

LEMMA GroupPagesStep ==
    ASSUME FInv, NEW r \in Requests, OnGroup(r) \/ Aside(r)
    PROVE  Advances(r) /\ FormStep(r)
<1>0. form \in Forms
    BY DEF FInv
<1>1. ASSUME NEW f \in Forms, f.group = form.group, Change(r, "other", f)
      PROVE  Advances(r) /\ FormStep(r)
    BY <1>1, UpdateAdvances, OtherStep DEF Change
<1>2. ASSUME NEW a \in Agents, CreateNameAuthorisation(r, a) \/ DeleteNameAuthorisation(r, a)
      PROVE  Advances(r) /\ FormStep(r)
    <2>1. PICK A \in SUBSET Agents : Change(r, "other", [form EXCEPT !.agents = A])
        BY <1>2, FormParts DEF CreateNameAuthorisation, DeleteNameAuthorisation
    <2>2. PICK f : f = [form EXCEPT !.agents = A]
        OBVIOUS
    <2>3. f \in Forms /\ f.group = form.group
        BY <2>2, FormParts
    <2> QED
        BY <1>1, <2>1, <2>2, <2>3
<1>3. ASSUME NEW s \in {"incomplete", "complete"}, UpdateListSubmitter(r, s)
      PROVE  Advances(r) /\ FormStep(r)
    <2>2. PICK f : f = [form EXCEPT !.submitter = s]
        OBVIOUS
    <2>3. f \in Forms /\ f.group = form.group
        BY <2>2, FormParts
    <2> QED
        BY <1>1, <1>3, <2>2, <2>3 DEF UpdateListSubmitter
<1>4. ASSUME NEW s \in Substitutes, CreateSubstituteSubmitter(r, s) \/ DeleteSubstituteSubmitter(r, s)
      PROVE  Advances(r) /\ FormStep(r)
    <2>1. PICK A \in SUBSET Substitutes : Change(r, "other", [form EXCEPT !.substitutes = A])
        BY <1>4, FormParts DEF CreateSubstituteSubmitter, DeleteSubstituteSubmitter
    <2>2. PICK f : f = [form EXCEPT !.substitutes = A]
        OBVIOUS
    <2>3. f \in Forms /\ f.group = form.group
        BY <2>2, FormParts
    <2> QED
        BY <1>1, <2>1, <2>2, <2>3
<1>5. ASSUME NEW l \in Lists, NEW D \in SUBSET ElectionDistricts, UpdateDistricts(r, l, D)
      PROVE  Advances(r) /\ FormStep(r)
    <2>1. PICK f : f = IF l \in Kept(data) THEN [form EXCEPT !.districts[l] = D] ELSE form
        OBVIOUS
    <2>2. D \in SUBSET Districts
        BY ElectionIsDistricts
    <2>3. f \in Forms /\ f.group = form.group
        BY <1>0, <2>1, <2>2, FormParts
    <2> QED
        BY <1>1, <1>5, <2>1, <2>3 DEF UpdateDistricts
<1>6. CASE GenDocuments(r)
    <2>1. GroupStep(r, "download", req[r].seen, form)
        BY DEF GroupStep
    <2> QED
        BY <1>0, <1>6, <2>1, UpdateAdvances DEF GenDocuments, FormStep
<1>7. ASSUME NEW e \in open, GenPastDocuments(r, e)
      PROVE  Advances(r) /\ FormStep(r)
    <2>1. GroupStep(r, "past", e, form)
        BY DEF GroupStep
    <2> QED
        BY <1>0, <1>7, <2>1, UpdateAdvances DEF GenPastDocuments, FormStep
<1>8. CASE Aside(r)
    BY <1>0, <1>8, UpdateAdvances, OtherStep DEF Aside, OtherEvent
<1> QED
    BY <1>2, <1>3, <1>4, <1>5, <1>6, <1>7, <1>8 DEF OnGroup

(* The pages of the persons and lists.                                      *)
LEMMA EntryStep ==
    ASSUME FInv, NEW r \in Requests, req[r].pc # "idle", MayWrite(r), OnBoth(r) \/ OnEntries(r)
    PROVE  Advances(r) /\ FormStep(r)
<1>0. form \in Forms
    BY DEF FInv
<1>1. ASSUME NEW C \in SUBSET Persons, Saved(r, "other", version, [form EXCEPT !.complete = C])
      PROVE  FormStep(r)
    <2>1. PICK f : f = [form EXCEPT !.complete = C]
        OBVIOUS
    <2>2. f \in Forms /\ f.group = form.group
        BY <2>1, FormParts
    <2> QED
        BY <1>1, <2>1, <2>2, OtherStep
<1>2. ASSUME NEW l \in Lists, NEW D \in SUBSET Districts,
             Saved(r, "other", version, [form EXCEPT !.districts[l] = D])
      PROVE  FormStep(r)
    <2>1. PICK f : f = [form EXCEPT !.districts[l] = D]
        OBVIOUS
    <2>2. f \in Forms /\ f.group = form.group
        BY <2>1, FormParts
    <2> QED
        BY <1>2, <2>1, <2>2, OtherStep
<1>3. Saved(r, "other", version, form) => FormStep(r)
    BY <1>0, OtherStep
<1>4. ASSUME NEW p \in Persons, NEW c
      PROVE  Enough(p, c, form) \in SUBSET Persons
    BY <1>4, FormParts DEF Enough
<1>5. ASSUME NEW p \in Persons, NEW k \in Identities, NEW c \in BOOLEAN, SavePerson(r, p, k, c)
      PROVE  Advances(r) /\ FormStep(r)
    <2>1. Advances(r)
        BY <1>5, UpdateAdvances DEF SavePerson, CreatePerson, UpdatePerson
    <2>2. PICK C : C = Enough(p, c, form)
        OBVIOUS
    <2>3. \/ Saved(r, "other", version, [form EXCEPT !.complete = C])
          \/ Saved(r, "other", version, form)
        BY <1>5, <2>2 DEF SavePerson
    <2> QED
        BY <1>1, <1>3, <1>4, <2>1, <2>2, <2>3
<1>6. ASSUME NEW p \in Persons, RemovePerson(r, p)
      PROVE  Advances(r) /\ FormStep(r)
    <2>1. Advances(r)
        BY <1>6, UpdateAdvances DEF RemovePerson, DeletePerson
    <2>2. form.complete \ {p} \in SUBSET Persons
        BY FormParts
    <2> QED
        BY <1>1, <1>6, <2>1, <2>2 DEF RemovePerson
<1>7. ASSUME NEW l \in Lists, NEW D \in SUBSET ElectionDistricts, NEW copy \in BOOLEAN,
             NewList(r, l, copy, D)
      PROVE  Advances(r) /\ FormStep(r)
    <2>1. Advances(r)
        BY <1>7, UpdateAdvances DEF NewList, CreateList
    <2>2. D \in SUBSET Districts
        BY ElectionIsDistricts
    <2> QED
        BY <1>2, <1>7, <2>1, <2>2 DEF NewList
<1>8. ASSUME NEW l \in Lists, DropList(r, l)
      PROVE  Advances(r) /\ FormStep(r)
    <2>1. Advances(r)
        BY <1>8, UpdateAdvances DEF DropList, DeleteList
    <2> QED
        BY <1>2, <1>8, <2>1 DEF DropList
<1>9. ASSUME NEW l \in Lists, NEW p \in Persons, NEW k \in Identities, NEW c \in BOOLEAN,
             EnterCandidate(r, l, p, k, c)
      PROVE  Advances(r) /\ FormStep(r)
    <2>1. PICK x : x = [pc |-> "append", seen |-> version + 1, view |-> PersonSaved(data, p, k),
                        list |-> l, person |-> p]
        OBVIOUS
    <2>2. /\ req[r].pc = "in" /\ MayWrite(r) /\ version' = version + 1
          /\ req' = [req EXCEPT ![r] = x]
        BY <1>9, <2>1 DEF EnterCandidate, CreateCandidate, Persist
    <2>3. x.seen = version + 1 /\ x.pc = "append"
        BY <2>1
    <2>4. Advances(r)
        BY <2>2, <2>3 DEF Advances
    <2> QED
        BY <1>1, <1>4, <1>9, <2>4 DEF EnterCandidate
<1>10. ASSUME NEW l \in Lists, NEW keys, NEW s \in [DOMAIN keys -> Persons],
              NEW complete \in SUBSET On(s), EnterCandidates(r, l, keys, s, complete)
       PROVE  Advances(r) /\ FormStep(r)
    <2>1. Advances(r)
        BY <1>10, UpdateAdvances DEF EnterCandidates, ImportCandidates
    <2>2. PICK C : C = (form.complete \ On(s)) \cup (complete \cap Alive(data'))
        OBVIOUS
    <2>3. C \in SUBSET Persons
        BY <2>2, FormParts DEF Alive
    <2>4. Saved(r, "other", version, [form EXCEPT !.complete = C])
        BY <1>10, <2>2 DEF EnterCandidates
    <2> QED
        BY <1>1, <2>1, <2>3, <2>4
<1>11. CASE Arrange(r)
    <2>1. ASSUME AppendCreated(r) PROVE Advances(r)
        BY <2>1 DEF AppendCreated, Persist, Advances
    <2>2. ASSUME NEW kind, NEW l, NEW s, UpdateOrder(r, kind, l, s) PROVE Advances(r)
        BY <2>2, UpdateAdvances DEF UpdateOrder
    <2>3. ASSUME NEW l, NEW s, Reorder(r, l, s) \/ AddAll(r, l, s) PROVE Advances(r)
        BY <2>2, <2>3 DEF Reorder, AddAll
    <2>4. ASSUME NEW l, NEW i, NEW j, UpdatePosition(r, l, i, j) \/ RemoveAll(r, l, i)
          PROVE  Advances(r)
        BY <2>2, <2>4 DEF UpdatePosition, RemoveAll
    <2>5. ASSUME NEW l, NEW p, AppendCandidate(r, l, p) \/ RemoveCandidate(r, l, p)
          PROVE  Advances(r)
        BY <2>5, UpdateAdvances DEF AppendCandidate, RemoveCandidate
    <2> QED
        BY <1>3, <1>11, <2>1, <2>3, <2>4, <2>5 DEF Arrange
<1>12. CASE OnBoth(r)
    BY <1>5, <1>6, <1>7, <1>8, <1>12 DEF OnBoth
<1>13. CASE OnEntries(r)
    BY <1>9, <1>10, <1>11, <1>13 DEF OnEntries
<1> QED
    BY <1>12, <1>13

LEMMA WhatHappens ==
    ASSUME FInv, SubmissionNext
    PROVE  \/ \E r \in Requests : Come(r) \/ Go(r) \/ (Advances(r) /\ FormStep(r))
           \/ \E g, name : ChangeRegistration(g, name)
BY NameStep, GroupPagesStep, EntryStep DEF SubmissionNext

(* What a write of the own stream does, given that it shows what is there.  *)
LEMMA OwnGroupStep ==
    ASSUME Own, FInv, NEW r \in Requests, Advances(r), NEW kind, NEW printed, NEW f \in Forms,
           GroupStep(r, kind, printed, f)
    PROVE  /\ BoundIn(f.group)
           /\ kind = "designation" => f.group.appellation = form.group.appellation
           /\ kind = "information" => \/ f.group.designation = form.group.designation
                                      \/ form.group.designation = "none"
           /\ kind = "download" => printed = version
           /\ kind \notin {"designation", "information"} => f.group = form.group
           /\ f.group.registration # Unbound /\ f.group # form.group =>
                  /\ f.group.designation = "standalone" /\ req[r].pc = "in"
                  /\ f.group.appellation = offered[r][f.group.registration]
<1>1. req[r].seen = version /\ shown[r] = form
    BY DEF FInv, FormCurrent, Advances, MayWrite
<1>2. PICK g : g = form.group
    OBVIOUS
<1>3. PICK h : h = f.group
    OBVIOUS
<1>4. g \in Groups /\ h \in Groups /\ BoundIn(g)
    BY <1>2, <1>3 DEF FInv, Forms
<1>5. ASSUME NEW k \in {"standalone", "combined", "blank"}, h = Designated(g, k)
      PROVE  /\ BoundIn(h) /\ h.appellation = g.appellation
             /\ h = g \/ h.registration = Unbound
    BY <1>4, <1>5 DEF Designated, Groups, BoundIn
<1>6. ASSUME NEW name \in Names \cup {NoName}, NEW pick \in Registrations \cup {Unbound},
             pick # Unbound => name = offered[r][pick],
             h = BindRegistration([g EXCEPT !.appellation = name], pick)
      PROVE  /\ BoundIn(h)
             /\ h.designation = g.designation \/ g.designation = "none"
             /\ h.registration # Unbound =>
                    h.designation = "standalone" /\ h.appellation = offered[r][h.registration]
    <2>1. PICK e : e = [g EXCEPT !.appellation = name]
        OBVIOUS
    <2>2. /\ e.designation = g.designation /\ e.registration = g.registration
          /\ e.appellation = name /\ e \in Groups
        BY <1>4, <2>1 DEF Groups
    <2>3. h = BindRegistration(e, pick)
        BY <1>6, <2>1
    <2> QED
        BY <1>4, <1>6, <2>2, <2>3 DEF BindRegistration, BoundIn, Groups
<1>7. CASE kind = "designation"
    BY <1>1, <1>2, <1>3, <1>5, <1>7 DEF GroupStep
<1>8. CASE kind = "information"
    BY <1>1, <1>2, <1>3, <1>6, <1>8 DEF GroupStep
<1>9. CASE kind \notin {"designation", "information"}
    BY <1>1, <1>2, <1>3, <1>4, <1>9 DEF GroupStep
<1> QED
    BY <1>7, <1>8, <1>9

LEMMA FInvInit == ASSUME SubmissionInit PROVE FInv
<1>1. Init /\ form = StartForm /\ shown = [r \in Requests |-> StartForm]
    BY DEF SubmissionInit
<1>2. SInv
    BY <1>1, SInvInit
<1>3. \A r \in Requests : shown[r] = form
    BY <1>1
<1> QED
    BY <1>1, <1>2, <1>3, SubmissionAssumption DEF FInv, FormCurrent

LEMMA FInvStep ==
    ASSUME FInv, [SubmissionNext]_<<vars, extras>>
    PROVE  FInv'
<1>0. [Next]_vars /\ SInv
    BY SubmissionSteps DEF FInv
<1>1. SInv' /\ Own' = Own
    BY <1>0, SInvNext, SettingFixed
<1>2. StartForm \in Forms /\ version \in Nat /\ req \in [Requests -> ReqRecords]
    BY SubmissionAssumption DEF FInv, SInv, PInv
<1>a. NoReq.pc = "idle"
    BY NoReqWell
<1>3. CASE UNCHANGED <<vars, extras>>
    BY <1>1, <1>3 DEF FInv, FormCurrent, vars, extras
<1>4. ASSUME NEW g, NEW name, ChangeRegistration(g, name)
      PROVE  FInv'
    BY <1>1, <1>4 DEF FInv, FormCurrent, ChangeRegistration, vars
<1>5. ASSUME NEW r \in Requests, Come(r)
      PROVE  FInv'
    <2>1. /\ shown' = [shown EXCEPT ![r] = form] /\ form' = form /\ version' = version
          /\ \A x \in Requests : x # r => req'[x] = req[x]
        BY <1>2, <1>5 DEF Come, Arrive
    <2>2. shown' \in [Requests -> Forms]
        BY <2>1 DEF FInv
    <2>3. ASSUME Own, NEW x \in Requests
          PROVE  FormCurrent(x)'
        BY <2>1, <2>3 DEF FInv, FormCurrent
    <2> QED
        BY <1>1, <2>1, <2>2, <2>3 DEF FInv
<1>6. ASSUME NEW r \in Requests, Go(r)
      PROVE  FInv'
    <2>1. /\ shown' = [shown EXCEPT ![r] = StartForm] /\ form' = form /\ version' = version
          /\ req'[r] = NoReq /\ \A x \in Requests : x # r => req'[x] = req[x]
        BY <1>2, <1>6 DEF Go, Leave
    <2>2. shown' \in [Requests -> Forms]
        BY <1>2, <2>1 DEF FInv
    <2>3. ASSUME Own, NEW x \in Requests
          PROVE  FormCurrent(x)'
        BY <1>a, <2>1, <2>3 DEF FInv, FormCurrent
    <2> QED
        BY <1>1, <2>1, <2>2, <2>3 DEF FInv
<1>7. ASSUME NEW r \in Requests, Advances(r), FormStep(r)
      PROVE  FInv'
    <2>1. PICK kind, printed, f : /\ f \in Forms /\ GroupStep(r, kind, printed, f)
                                  /\ Saved(r, kind, printed, f)
        BY <1>7 DEF FormStep
    <2>2. /\ form' = f
          /\ shown' = [shown EXCEPT ![r] = IF req'[r].pc = "idle" THEN StartForm ELSE f]
        BY <2>1 DEF Saved
    <2>3. shown' \in [Requests -> Forms]
        BY <1>2, <2>1, <2>2 DEF FInv
    <2>4. Own => BoundIn(f.group)
        BY <1>7, <2>1, OwnGroupStep
    <2>5. version' = version + 1 /\ \A x \in Requests : x # r => req'[x] = req[x]
        BY <1>2, <1>7 DEF Advances
    <2>6. ASSUME Own, NEW x \in Requests
          PROVE  FormCurrent(x)'
        <3>1. CASE x = r
            <4>1. req'[r].pc # "idle" => shown'[r] = f
                BY <2>2 DEF FInv
            <4> QED
                BY <2>2, <3>1, <4>1 DEF FormCurrent
        <3>2. CASE x # r
            <4>1. OInv /\ Current(x)
                BY <2>6 DEF FInv, SInv, OInv
            <4>2. req[x].seen \in Nat
                BY <1>2 DEF ReqRecords
            <4>3. req[x].pc # "idle" => req[x].seen <= version
                BY <4>1 DEF Current
            <4> QED
                BY <1>2, <2>5, <3>2, <4>2, <4>3 DEF FormCurrent
        <3> QED
            BY <3>1, <3>2
    <2> QED
        BY <1>1, <2>1, <2>2, <2>3, <2>4, <2>6 DEF FInv
<1> QED
    BY <1>3, <1>4, <1>5, <1>6, <1>7, WhatHappens

LEMMA FInvAlways == SubmissionSpec => []FInv
BY FInvInit, FInvStep, PTL DEF SubmissionSpec

(* When the gate of the finalise page is open, the documents of every list  *)
(* of a political group can be made, each in a folder and a contest of its  *)
(* own; and the steps on the pages show an error exactly when the general   *)
(* part of the gate is closed (AllProblems, PoliticalGroupSteps,            *)
(* DocumentData::new).                                                      *)
THEOREM GateHolds == SubmissionSpec => []GateAgrees
<1>1. FInv => GateAgrees
    <2> SUFFICES ASSUME FInv PROVE GateAgrees
        OBVIOUS
    <2>1. form \in Forms /\ (Own => ExistIn(data))
        BY DEF FInv, SInv, OInv, Sound
    <2>2. Own /\ Downloadable(data, form) => Collected(data, form)
        BY <2>1, GateCollects
    <2> QED
        BY <2>2, StepsAgree DEF GateAgrees
<1> QED
    BY <1>1, FInvAlways, PTL

(* No form of a political group undoes what another request saved in the    *)
(* fields that it does not show, and a download prints everything that was  *)
(* recorded before it.                                                      *)
THEOREM FormsKeep == SubmissionSpec => FormsKeepTheRest
<1>1. FInv /\ [SubmissionNext]_<<vars, extras>> =>
        [Own /\ version' # version =>
           LET g == form.group
               h == form'.group
           IN  CASE done'.kind = "designation" -> h.appellation = g.appellation
                 [] done'.kind = "information" -> h.designation = g.designation \/ g.designation = "none"
                 [] done'.kind = "download" -> done'.version = version
                 [] OTHER -> h = g]_<<vars, extras>>
    <2> SUFFICES ASSUME FInv, SubmissionNext, Own, version' # version
                 PROVE  LET g == form.group
                            h == form'.group
                        IN  CASE done'.kind = "designation" -> h.appellation = g.appellation
                              [] done'.kind = "information" ->
                                    h.designation = g.designation \/ g.designation = "none"
                              [] done'.kind = "download" -> done'.version = version
                              [] OTHER -> h = g
        OBVIOUS
    <2>1. PICK r \in Requests : Advances(r) /\ FormStep(r)
        BY WhatHappens DEF Come, Go, Arrive, Leave, ChangeRegistration, vars
    <2>2. PICK kind, printed, f : /\ f \in Forms /\ GroupStep(r, kind, printed, f)
                                  /\ Saved(r, kind, printed, f)
        BY <2>1 DEF FormStep
    <2>3. form' = f /\ done'.kind = kind /\ done'.version = printed
        BY <2>2 DEF Saved
    <2>4. /\ kind = "designation" => f.group.appellation = form.group.appellation
          /\ kind = "information" => \/ f.group.designation = form.group.designation
                                     \/ form.group.designation = "none"
          /\ kind = "download" => printed = version
          /\ kind \notin {"designation", "information"} => f.group = form.group
        BY <2>1, <2>2, OwnGroupStep
    <2> QED
        BY <2>3, <2>4
<1> QED
    BY <1>1, FInvAlways, PTL DEF SubmissionSpec, FormsKeepTheRest

(* While a group is bound to a registration, its name is the one that a     *)
(* request took over from the registration, and its list type standalone.   *)
THEOREM BoundStays == SubmissionSpec => BoundIsTakenOver
<1>1. FInv /\ [SubmissionNext]_<<vars, extras>> =>
        [Own => LET g == form.group
                    h == form'.group
                IN  h.registration # Unbound /\ h # g =>
                        /\ h.designation = "standalone"
                        /\ \E r \in Requests :
                              req[r].pc = "in" /\ h.appellation = offered[r][h.registration]]_<<vars, extras>>
    <2> SUFFICES ASSUME FInv, SubmissionNext, Own,
                        form'.group.registration # Unbound, form'.group # form.group
                 PROVE  /\ form'.group.designation = "standalone"
                        /\ \E r \in Requests : /\ req[r].pc = "in"
                                               /\ form'.group.appellation
                                                    = offered[r][form'.group.registration]
        OBVIOUS
    <2>1. PICK r \in Requests : Advances(r) /\ FormStep(r)
        BY WhatHappens DEF Come, Go, ChangeRegistration
    <2>2. PICK kind, printed, f : /\ f \in Forms /\ GroupStep(r, kind, printed, f)
                                  /\ Saved(r, kind, printed, f)
        BY <2>1 DEF FormStep
    <2>3. form' = f
        BY <2>2 DEF Saved
    <2>4. /\ f.group.designation = "standalone" /\ req[r].pc = "in"
          /\ f.group.appellation = offered[r][f.group.registration]
        BY <2>1, <2>2, <2>3, OwnGroupStep
    <2> QED
        BY <2>3, <2>4
<1> QED
    BY <1>1, FInvAlways, PTL DEF SubmissionSpec, BoundIsTakenOver
=============================================================================
