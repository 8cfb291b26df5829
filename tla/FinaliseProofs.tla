--------------------------- MODULE FinaliseProofs ---------------------------
(***************************************************************************)
(* Proofs about Finalise, for every number of groups, requests and         *)
(* instances, any names, orders and results.                               *)
(***************************************************************************)
EXTENDS Finalise, FiniteSetTheorems, TLAPS

(* What ListNumbering::new returns names each of its groups once.           *)
LEMMA NumberingDistinct ==
    ASSUME NEW v, NEW m, NEW q \in Numberings(v, m)
    PROVE  q \in Seq(Streams) /\ Distinct(q) /\ On(q) \subseteq Streams
<1> DEFINE E == Eligible(v)
<1>1. E \subseteq Streams
    BY DEF Eligible
<1>2. IsFiniteSet(E) /\ Cardinality(E) \in Nat
    BY <1>1, StreamsAssumption, FS_Subset, FS_CardinalityType
<1>3. q \in [1..Cardinality(E) -> E] /\ Distinct(q)
    BY DEF Numberings
<1> HIDE DEF E
<1>4. q \in Seq(Streams)
    BY <1>1, <1>2, <1>3
<1>5. \A i \in DOMAIN q : q[i] \in Streams
    BY <1>4
<1> QED
    BY <1>3, <1>4, <1>5 DEF On

(* is_permutation: an order with the same counts as one that names each     *)
(* group once does so too.                                                  *)
LEMMA PermutationDistinct ==
    ASSUME NEW p \in Seq(Streams), NEW q \in Seq(Streams), Distinct(q), IsPermutation(p, q)
    PROVE  Distinct(p)
<1> SUFFICES ASSUME NEW i \in DOMAIN p, NEW j \in DOMAIN p, p[i] = p[j], i # j
             PROVE  FALSE
    BY DEF Distinct
<1> DEFINE s == p[i]
           P == {k \in DOMAIN p : p[k] = s}
           Q == {k \in DOMAIN q : q[k] = s}
<1>1. s \in Streams
    OBVIOUS
<1>2. Cardinality(P) = Cardinality(Q)
    BY <1>1 DEF IsPermutation, Count
<1>3. IsFiniteSet(P) /\ IsFiniteSet(Q)
    <2>1. P \subseteq 1..Len(p) /\ Q \subseteq 1..Len(q) /\ Len(p) \in Nat /\ Len(q) \in Nat
        OBVIOUS
    <2>2. IsFiniteSet(1..Len(p)) /\ IsFiniteSet(1..Len(q))
        BY <2>1, FS_Interval
    <2> QED
        BY <2>1, <2>2, FS_Subset
<1>4. Cardinality(P) >= 2
    <2>1. {i, j} \subseteq P
        OBVIOUS
    <2>2. Cardinality({i, j}) = 2
        <3>1. IsFiniteSet({i}) /\ Cardinality({i}) = 1
            BY FS_Singleton
        <3>2. Cardinality({i} \cup {j}) = Cardinality({i}) + 1
            BY <3>1, FS_AddElement
        <3>3. {i} \cup {j} = {i, j}
            OBVIOUS
        <3> QED
            BY <3>1, <3>2, <3>3
    <2>3. Cardinality({i, j}) <= Cardinality(P)
        BY <1>3, <2>1, FS_Subset
    <2> QED
        BY <2>2, <2>3
<1>5. Cardinality(Q) <= 1
    <2>1. CASE Q = {}
        <3>1. Cardinality({}) = 0
            BY FS_EmptySet
        <3> HIDE DEF Q
        <3> QED
            BY <2>1, <3>1
    <2>2. ASSUME NEW k \in Q
          PROVE  Cardinality(Q) = 1
        <3>1. Q = {k}
            BY <2>2 DEF Distinct
        <3> QED
            BY <3>1, FS_Singleton
    <2> HIDE DEF Q
    <2> QED
        BY <2>1, <2>2
<1>6. Cardinality(P) \in Nat /\ Cardinality(Q) \in Nat
    BY <1>3, FS_CardinalityType
<1> QED
    BY <1>2, <1>4, <1>5, <1>6

(* What remove_from_list_order records.                                     *)
LEMMA WithoutDistinct ==
    ASSUME NEW q \in Seq(Streams), Distinct(q), NEW s
    PROVE  Without(q, s) \in Seq(Streams) /\ Distinct(Without(q, s))
<1>1. CASE s \notin On(q)
    BY <1>1 DEF Without
<1>2. CASE s \in On(q)
    <2> DEFINE k == PlaceOf(q, s)
               t == [j \in 1..(Len(q) - 1) |-> IF j < k THEN q[j] ELSE q[j + 1]]
    <2>1. PICK n \in DOMAIN q : q[n] = s
        BY <1>2 DEF On
    <2>2. n \in 1..Len(q) /\ \A j \in DOMAIN q : q[j] = s => n <= j
        BY <2>1 DEF Distinct
    <2>3. k \in 1..Len(q)
        BY <2>1, <2>2 DEF PlaceOf
    <2>4. Without(q, s) = t
        BY <1>2 DEF Without
    <2> HIDE DEF k
    <2>5. \A j \in 1..Len(q) : q[j] \in Streams
        OBVIOUS
    <2>6. t \in Seq(Streams) /\ DOMAIN t = 1..(Len(q) - 1)
        BY <2>3, <2>5
    <2>7. \A j \in DOMAIN t : t[j] = IF j < k THEN q[j] ELSE q[j + 1]
        OBVIOUS
    <2>8. Distinct(t)
        BY <2>3, <2>6, <2>7 DEF Distinct
    <2> QED
        BY <2>4, <2>6, <2>8
<1> QED
    BY <1>1, <1>2

-----------------------------------------------------------------------------
(* Every order anywhere, recorded, projected, or in the hands of a request, *)
(* names a group at most once: a projection is what was recorded, and a     *)
(* request records what it read or what it compared with that.              *)
WellMains == {m \in MainRecords : Distinct(m.order)}
WellReqs == {x \in ReqRecords : Distinct(x.order)}
OInv ==
    /\ scene \in Scenes
    /\ main \in WellMains
    /\ known \in [Instances -> WellMains]
    /\ groups \in [Streams -> GroupRecords]
    /\ cached \in [Instances -> [Streams -> GroupRecords \cup {NotCached}]]
    /\ changes \in Nat
    /\ req \in [Requests -> WellReqs]

LEMMA EmptyDistinct == Distinct(<< >>) /\ << >> \in Seq(Streams) /\ << >> \in Seq(DocumentRecords)
<1>1. DOMAIN << >> = {}
    OBVIOUS
<1> QED
    BY <1>1 DEF Distinct

LEMMA OpenedWell ==
    ASSUME NEW op \in Ops \cup {"none"}, NEW s \in Streams \cup {NoStream},
           NEW pc \in {"idle", "number", "record", "render", "check", "write",
                       "find", "delete", "decide", "remove"}
    PROVE  Opened(op, pc, s) \in WellReqs
BY EmptyDistinct DEF Opened, WellReqs, ReqRecords, Attempts

LEMMA EndedWell ==
    ASSUME req \in [Requests -> WellReqs], NEW r \in Requests
    PROVE  Ended(r) \in [Requests -> WellReqs]
BY OpenedWell DEF Ended, NoReq, Ops

LEMMA DisturbWell ==
    ASSUME NEW q \in [Requests -> WellReqs], NEW R
    PROVE  Disturb(q, R) \in [Requests -> WellReqs]
<1>1. ASSUME NEW x \in WellReqs
      PROVE  [x EXCEPT !.disturbed = TRUE] \in WellReqs
    BY <1>1 DEF WellReqs, ReqRecords
<1> QED
    BY <1>1 DEF Disturb

LEMMA AppendMainWell ==
    ASSUME OInv, NEW i \in Instances, NEW o \in Seq(Streams), Distinct(o),
           NEW n \in [Names -> 0..MaxVotes], AppendMain(i, [order |-> o, votes |-> n])
    PROVE  main' \in WellMains /\ known' \in [Instances -> WellMains]
<1>1. main' = [order |-> o, votes |-> n, events |-> main.events + 1]
    BY DEF AppendMain
<1>2. main' \in WellMains
    BY <1>1 DEF OInv, WellMains, MainRecords
<1> QED
    BY <1>2 DEF AppendMain, OInv

LEMMA ViewType ==
    ASSUME OInv, NEW i \in Instances
    PROVE  View(i) \in [Streams -> GroupRecords]
BY BoundsAssumption DEF OInv, View

LEMMA LookUpType ==
    ASSUME OInv, NEW i \in Instances, NEW S, LookUp(i, S)
    PROVE  cached' \in [Instances -> [Streams -> GroupRecords \cup {NotCached}]]
<1>1. [s \in Streams |-> IF s \in S THEN View(i)[s] ELSE cached[i][s]]
          \in [Streams -> GroupRecords \cup {NotCached}]
    BY ViewType DEF OInv
<1> QED
    BY <1>1 DEF LookUp, OInv

LEMMA AppendGroupType ==
    ASSUME OInv, NEW i \in Instances, NEW s, NEW g,
           s \in Streams => g \in GroupRecords, AppendGroup(i, s, g)
    PROVE  /\ groups' \in [Streams -> GroupRecords]
           /\ cached' \in [Instances -> [Streams -> GroupRecords \cup {NotCached}]]
           /\ changes' \in Nat
<1>0. groups \in [Streams -> GroupRecords] /\ changes \in Nat
    BY DEF OInv
<1>a. changes' = changes + 1 /\ groups' = [groups EXCEPT ![s] = g]
    BY DEF AppendGroup
<1>b. groups' \in [Streams -> GroupRecords]
    BY <1>0, <1>a
<1>1. groups' \in [Streams -> GroupRecords] /\ changes' \in Nat
    BY <1>0, <1>a, <1>b
<1>2. [cached[i] EXCEPT ![s] = g] \in [Streams -> GroupRecords \cup {NotCached}]
    BY ZenonT(40) DEF OInv
<1>3. cached' = [cached EXCEPT ![i] = [cached[i] EXCEPT ![s] = g]]
    BY DEF AppendGroup, OInv
<1> QED
    BY <1>1, <1>2, <1>3 DEF OInv

-----------------------------------------------------------------------------
LEMMA OInvInit == ASSUME Init PROVE OInv
<1>1. scene \in Scenes /\ main \in WellMains
    BY ScenesAssumption DEF Init, WellMains, MainRecords
<1>2. known \in [Instances -> WellMains]
    BY <1>1 DEF Init
<1>3. groups \in [Streams -> GroupRecords] /\ changes \in Nat
    BY ScenesAssumption DEF Init
<1>4. cached \in [Instances -> [Streams -> GroupRecords \cup {NotCached}]]
    BY DEF Init
<1>5. req \in [Requests -> WellReqs]
    BY OpenedWell DEF Init, NoReq
<1> QED
    BY <1>1, <1>2, <1>3, <1>4, <1>5 DEF OInv

LEMMA ArriveWell ==
    ASSUME OInv, NEW r \in Requests, NEW op \in Ops, NEW s \in Streams \cup {NoStream},
           Arrive(r, op, s)
    PROVE  OInv'
<1>1. InstanceOf[r] \in Instances
    BY StreamsAssumption
<1>2. known' \in [Instances -> WellMains]
    BY <1>1 DEF Arrive, OInv
<1>3. FirstStep[op] \in {"check", "find", "number"}
    BY DEF FirstStep, Ops
<1>4. Opened(op, FirstStep[op], s) \in WellReqs
    BY <1>3, OpenedWell
<1>5. req' \in [Requests -> WellReqs]
    BY <1>4 DEF Arrive, OInv
<1> QED
    BY <1>2, <1>5 DEF Arrive, OInv

LEMMA OrderWell ==
    ASSUME OInv, NEW r \in Requests,
           (\E given \in Payloads : CheckOrder(r, given)) \/ WriteOrder(r) \/ Fail(r)
    PROVE  OInv'
<1>0. InstanceOf[r] \in Instances
    BY StreamsAssumption
<1>1. ASSUME NEW given \in Payloads, CheckOrder(r, given)
      PROVE  OInv'
    <2>1. PICK q \in Numberings(View(InstanceOf[r]), known[InstanceOf[r]]) :
              req' = IF IsPermutation(given, q)
                     THEN [req EXCEPT ![r].pc = "write", ![r].order = given] ELSE Ended(r)
        BY <1>1 DEF CheckOrder
    <2>2. given \in Seq(Streams)
        BY StreamsAssumption
    <2>3. CASE IsPermutation(given, q)
        <3>1. Distinct(given)
            BY <2>2, <2>3, NumberingDistinct, PermutationDistinct
        <3>2. [req[r] EXCEPT !.pc = "write", !.order = given] \in WellReqs
            BY <2>2, <3>1, ZenonT(40) DEF OInv, WellReqs, ReqRecords
        <3>3. req' = [req EXCEPT ![r] = [req[r] EXCEPT !.pc = "write", !.order = given]]
            BY <2>1, <2>3 DEF OInv
        <3> QED
            BY <1>0, <1>1, <3>2, <3>3, LookUpType DEF CheckOrder, OInv
    <2>4. CASE ~IsPermutation(given, q)
        BY <1>0, <1>1, <2>1, <2>4, LookUpType, EndedWell DEF CheckOrder, OInv
    <2> QED
        BY <2>3, <2>4
<1>2. CASE WriteOrder(r)
    <2>1. req[r].order \in Seq(Streams) /\ Distinct(req[r].order)
        BY DEF OInv, WellReqs, ReqRecords
    <2>2. main.votes \in [Names -> 0..MaxVotes]
        BY DEF OInv, WellMains, MainRecords
    <2>3. main' \in WellMains /\ known' \in [Instances -> WellMains]
        BY <1>0, <1>2, <2>1, <2>2, AppendMainWell DEF WriteOrder
    <2>4. req' \in [Requests -> WellReqs]
        BY <1>2, EndedWell, DisturbWell DEF WriteOrder, OInv
    <2> QED
        BY <1>2, <2>3, <2>4 DEF WriteOrder, OInv
<1>3. CASE Fail(r)
    BY <1>3, EndedWell DEF Fail, OInv
<1> QED
    BY <1>1, <1>2, <1>3

LEMMA DocumentWell ==
    ASSUME OInv, NEW r \in Requests, NumberDocument(r) \/ RecordOrder(r) \/ Render(r)
    PROVE  OInv'
<1>0. InstanceOf[r] \in Instances /\ req[r] \in WellReqs
    BY StreamsAssumption DEF OInv
<1>a. /\ req[r].order \in Seq(Streams) /\ Distinct(req[r].order)
      /\ req[r].docs \in Seq(DocumentRecords) /\ req[r].numbered \in SUBSET Streams
    BY <1>0 DEF WellReqs, ReqRecords
<1>b. On(req[r].order) \in SUBSET Streams
    <2>1. \A k \in DOMAIN req[r].order : req[r].order[k] \in Streams
        BY <1>a
    <2> QED
        BY <2>1 DEF On
<1>1. CASE NumberDocument(r)
    <2> DEFINE m == known[InstanceOf[r]]
               v == View(InstanceOf[r])
    <2>1. PICK q \in Numberings(v, m) :
              req' = [req EXCEPT ![r].order = q, ![r].numbered = Numbered(q, v, m),
                          ![r].pc = IF Numbered(q, v, m) = On(q) \/ req[r].op = "draft"
                                    THEN "render" ELSE "record"]
        BY <1>1 DEF NumberDocument
    <2> DEFINE pc == IF Numbered(q, v, m) = On(q) \/ req[r].op = "draft"
                     THEN "render" ELSE "record"
               n == Numbered(q, v, m)
    <2>2. q \in Seq(Streams) /\ Distinct(q) /\ n \in SUBSET Streams
        BY NumberingDistinct DEF Numbered
    <2>3. pc \in {"render", "record"}
        OBVIOUS
    <2>4. req' = [req EXCEPT ![r] = [req[r] EXCEPT !.order = q, !.numbered = n, !.pc = pc]]
        BY <2>1 DEF OInv
    <2> HIDE DEF n, pc
    <2>5. [req[r] EXCEPT !.order = q, !.numbered = n, !.pc = pc] \in WellReqs
        BY <1>0, <2>2, <2>3 DEF WellReqs, ReqRecords
    <2> QED
        BY <1>0, <1>1, <2>4, <2>5, LookUpType DEF NumberDocument, OInv
<1>2. CASE RecordOrder(r)
    <2>2. main.votes \in [Names -> 0..MaxVotes]
        BY DEF OInv, WellMains, MainRecords
    <2>3. main' \in WellMains /\ known' \in [Instances -> WellMains]
        BY <1>0, <1>2, <1>a, <2>2, AppendMainWell DEF RecordOrder
    <2> DEFINE x == [req[r] EXCEPT !.pc = "render", !.numbered = On(req[r].order)]
    <2>4. x \in WellReqs
        BY <1>0, <1>b DEF WellReqs, ReqRecords
    <2>5. req' = Disturb([req EXCEPT ![r] = x], Requests \ {r})
        BY <1>2 DEF RecordOrder, OInv
    <2> HIDE DEF x
    <2>6. [req EXCEPT ![r] = x] \in [Requests -> WellReqs]
        BY <2>4 DEF OInv
    <2>7. req' \in [Requests -> WellReqs]
        BY <2>5, <2>6, DisturbWell
    <2> QED
        BY <1>2, <2>3, <2>7 DEF RecordOrder, OInv
<1>3. CASE Render(r)
    <2> DEFINE n == IF req[r].op = "draft" THEN Documents ELSE Len(req[r].docs) + 1
               u == Shown(n, req[r].order, View(InstanceOf[r]))
               d == [order |-> req[r].order, numbered |-> req[r].numbered, shown |-> u]
               docs == Append(req[r].docs, d)
               pc == IF req[r].op = "draft" \/ Len(docs) = Documents THEN "idle" ELSE "number"
               x == [req[r] EXCEPT !.docs = docs, !.pc = pc]
    <2>a. u \in SUBSET Streams
        BY <1>b DEF Shown
    <2> HIDE DEF n, u
    <2>1. d \in DocumentRecords
        BY <1>a, <2>a DEF DocumentRecords
    <2> HIDE DEF d
    <2>2. docs \in Seq(DocumentRecords) /\ pc \in {"idle", "number"}
        BY <1>a, <2>1
    <2>3. req' = Ended(r) \/ req' = [req EXCEPT ![r] = x]
        BY <1>3 DEF Render, OInv, d, n, u
    <2> HIDE DEF docs, pc
    <2>4. x \in WellReqs
        BY <1>0, <2>2 DEF WellReqs, ReqRecords
    <2> HIDE DEF x
    <2>5. req' \in [Requests -> WellReqs]
        BY <2>3, <2>4, EndedWell DEF OInv
    <2>6. cached' \in [Instances -> [Streams -> GroupRecords \cup {NotCached}]]
        BY <1>0, <1>3, LookUpType DEF Render
    <2> QED
        BY <1>3, <2>5, <2>6 DEF Render, OInv
<1> QED
    BY <1>1, <1>2, <1>3

LEMMA DeletionWell ==
    ASSUME OInv, NEW r \in Requests,
           FindGroup(r) \/ DeleteGroup(r) \/ DecideRemoval(r) \/ RemoveFromOrder(r)
    PROVE  OInv'
<1>0. InstanceOf[r] \in Instances /\ req[r] \in WellReqs
    BY StreamsAssumption DEF OInv
<1>1. CASE FindGroup(r)
    <2> DEFINE x == [req[r] EXCEPT !.pc = "delete"]
    <2>1. x \in WellReqs
        BY <1>0 DEF WellReqs, ReqRecords
    <2>2. req' = Ended(r) \/ req' = [req EXCEPT ![r] = x]
        BY <1>1 DEF FindGroup, OInv
    <2> HIDE DEF x
    <2>3. req' \in [Requests -> WellReqs]
        BY <2>1, <2>2, EndedWell DEF OInv
    <2>4. cached' \in [Instances -> [Streams -> GroupRecords \cup {NotCached}]]
        BY <1>0, <1>1, LookUpType DEF FindGroup
    <2> QED
        BY <1>1, <2>3, <2>4 DEF FindGroup, OInv
<1>2. CASE DeleteGroup(r)
    <2> DEFINE x == [req[r] EXCEPT !.pc = "decide"]
               s == req[r].target
               g == [groups[s] EXCEPT !.status = "deleted"]
    <2>1. x \in WellReqs
        BY <1>0 DEF WellReqs, ReqRecords
    <2>2. s \in Streams => g \in GroupRecords
        BY DEF OInv, GroupRecords, Statuses
    <2>3. AppendGroup(InstanceOf[r], s, g)
        BY <1>2 DEF DeleteGroup
    <2>4. req' = Disturb([req EXCEPT ![r] = x], AtInstance(InstanceOf[r]))
        BY <1>2 DEF DeleteGroup, OInv
    <2> HIDE DEF x, g, s
    <2>5. [req EXCEPT ![r] = x] \in [Requests -> WellReqs]
        BY <2>1 DEF OInv
    <2>6. req' \in [Requests -> WellReqs]
        BY <2>4, <2>5, DisturbWell
    <2>7. /\ groups' \in [Streams -> GroupRecords]
          /\ cached' \in [Instances -> [Streams -> GroupRecords \cup {NotCached}]]
          /\ changes' \in Nat
        BY <1>0, <2>2, <2>3, AppendGroupType
    <2> QED
        BY <1>2, <2>6, <2>7 DEF DeleteGroup, OInv
<1>3. CASE DecideRemoval(r)
    <2> DEFINE k == known[InstanceOf[r]]
               o == Without(k.order, req[r].target)
               x == [req[r] EXCEPT !.pc = "remove", !.order = o, !.expected = k.events]
    <2>1. k.order \in Seq(Streams) /\ Distinct(k.order) /\ k.events \in Nat
        BY <1>0 DEF OInv, WellMains, MainRecords
    <2>2. o \in Seq(Streams) /\ Distinct(o)
        BY <2>1, WithoutDistinct
    <2>3. req' = Ended(r) \/ req' = [req EXCEPT ![r] = x]
        BY <1>3 DEF DecideRemoval, OInv
    <2> HIDE DEF o, k
    <2>4. x \in WellReqs
        BY <1>0, <2>1, <2>2 DEF WellReqs, ReqRecords
    <2> HIDE DEF x
    <2>5. req' \in [Requests -> WellReqs]
        BY <2>3, <2>4, EndedWell DEF OInv
    <2> QED
        BY <1>3, <2>5 DEF DecideRemoval, OInv
<1>4. CASE RemoveFromOrder(r)
    <2>1. CASE req[r].expected = main.events
        <3>1. /\ AppendMain(InstanceOf[r], [order |-> req[r].order, votes |-> main.votes])
              /\ req' = Disturb(Ended(r), Requests \ {r})
            BY <1>4, <2>1 DEF RemoveFromOrder
        <3>2. /\ req[r].order \in Seq(Streams) /\ Distinct(req[r].order)
              /\ main.votes \in [Names -> 0..MaxVotes]
            BY <1>0 DEF OInv, WellReqs, ReqRecords, WellMains, MainRecords
        <3>3. main' \in WellMains /\ known' \in [Instances -> WellMains]
            BY <1>0, <3>1, <3>2, AppendMainWell
        <3>4. req' \in [Requests -> WellReqs]
            BY <3>1, EndedWell, DisturbWell DEF OInv
        <3> QED
            BY <1>4, <3>3, <3>4 DEF RemoveFromOrder, OInv
    <2>2. CASE req[r].expected # main.events
        <3> DEFINE a == req[r].attempts + 1
                   x == [req[r] EXCEPT !.pc = "decide", !.attempts = a]
        <3>1. /\ known' = [known EXCEPT ![InstanceOf[r]] = main] /\ main' = main
              /\ req' = Ended(r) \/ (a # Attempts /\ req' = [req EXCEPT ![r] = x])
            BY <1>4, <2>2 DEF RemoveFromOrder, OInv
        <3>a. a # Attempts => a \in 0..(Attempts - 1)
            BY <1>0 DEF WellReqs, ReqRecords, Attempts
        <3> HIDE DEF a
        <3>2. a # Attempts => x \in WellReqs
            BY <1>0, <3>a DEF WellReqs, ReqRecords
        <3> HIDE DEF x
        <3>3. req' \in [Requests -> WellReqs]
            BY <3>1, <3>2, EndedWell DEF OInv
        <3>4. known' \in [Instances -> WellMains]
            BY <3>1 DEF OInv
        <3> QED
            BY <1>4, <3>1, <3>3, <3>4 DEF RemoveFromOrder, OInv
    <2> QED
        BY <2>1, <2>2
<1> QED
    BY <1>1, <1>2, <1>3, <1>4

LEMMA WorkWell ==
    ASSUME OInv, NEW i \in Instances, NEW s \in Streams,
           \/ \E g \in scene.makes : ImportGroup(i, s, g) \/ DecideGroup(i, s, g)
           \/ CatchUp(i, s)
    PROVE  OInv'
<1>1. ASSUME NEW g \in scene.makes, ImportGroup(i, s, g) \/ DecideGroup(i, s, g)
      PROVE  OInv'
    <2>1. PICK R : /\ AppendGroup(i, s, g)
                   /\ req' = Disturb(req, R)
                   /\ UNCHANGED <<scene, main, known>>
        BY <1>1 DEF ImportGroup, DecideGroup
    <2>2. g \in GroupRecords
        BY ScenesAssumption DEF OInv
    <2>3. /\ groups' \in [Streams -> GroupRecords]
          /\ cached' \in [Instances -> [Streams -> GroupRecords \cup {NotCached}]]
          /\ changes' \in Nat
        BY <2>1, <2>2, AppendGroupType
    <2>4. req' \in [Requests -> WellReqs]
        BY <2>1, DisturbWell DEF OInv
    <2> QED
        BY <2>1, <2>3, <2>4 DEF OInv
<1>2. CASE CatchUp(i, s)
    <2>0. groups[s] \in GroupRecords
        BY DEF OInv
    <2>1. cached' = [cached EXCEPT ![i] = [cached[i] EXCEPT ![s] = groups[s]]]
        BY <1>2 DEF CatchUp, OInv
    <2>2. [cached[i] EXCEPT ![s] = groups[s]] \in [Streams -> GroupRecords \cup {NotCached}]
        BY <2>0 DEF OInv
    <2>3. cached' \in [Instances -> [Streams -> GroupRecords \cup {NotCached}]]
        BY <2>1, <2>2 DEF OInv
    <2>4. req' \in [Requests -> WellReqs]
        BY <1>2, DisturbWell DEF CatchUp, OInv
    <2> QED
        BY <1>2, <2>3, <2>4 DEF CatchUp, OInv
<1> QED
    BY <1>1, <1>2

LEMMA RegisterWell ==
    ASSUME OInv, NEW i \in Instances, NEW a \in Names, NEW n \in 0..MaxVotes,
           RegisterResult(i, a, n)
    PROVE  OInv'
<1> DEFINE votes == [main.votes EXCEPT ![a] = n]
<1>1. votes \in [Names -> 0..MaxVotes] /\ main.order \in Seq(Streams) /\ Distinct(main.order)
    BY DEF OInv, WellMains, MainRecords
<1>2. AppendMain(i, [order |-> main.order, votes |-> votes])
    BY DEF RegisterResult
<1> HIDE DEF votes
<1>3. main' \in WellMains /\ known' \in [Instances -> WellMains]
    BY <1>1, <1>2, AppendMainWell
<1>4. req' \in [Requests -> WellReqs]
    BY DisturbWell DEF RegisterResult, OInv
<1> QED
    BY <1>3, <1>4 DEF RegisterResult, OInv

LEMMA OInvStep ==
    ASSUME OInv, [Next]_vars
    PROVE  OInv'
<1>1. CASE Next
    BY <1>1, ArriveWell, OrderWell, DocumentWell, DeletionWell, WorkWell, RegisterWell DEF Next
<1>2. CASE UNCHANGED vars
    BY <1>2 DEF OInv, vars
<1> QED
    BY <1>1, <1>2

LEMMA OInvAlways == Spec => []OInv
BY OInvInit, OInvStep, PTL DEF Spec

(* Streams, projections and requests keep their types, in every instance.   *)
THEOREM TypeCorrect == Spec => []TypeOK
<1>1. OInv => TypeOK
    BY DEF OInv, TypeOK, WellMains, WellReqs
<1> QED
    BY <1>1, OInvAlways, PTL

(* The recorded list order never names a group twice, whatever pages post,  *)
(* downloads record and deletions remove at once.                           *)
THEOREM OrderStaysDistinct == Spec => []OrderNamesEachOnce
<1>1. OInv => OrderNamesEachOnce
    BY DEF OInv, OrderNamesEachOnce, WellMains
<1> QED
    BY <1>1, OInvAlways, PTL

-----------------------------------------------------------------------------
(* A removal that finds the stream where it was decided on, removes from    *)
(* the order that is recorded: a projection that is not behind shows what   *)
(* is recorded, and an event moves the stream on.                           *)
KInv ==
    /\ \A i \in Instances : /\ known[i].events <= main.events
                            /\ known[i].events = main.events => known[i].order = main.order
    /\ \A r \in Requests : req[r].pc = "remove" =>
          /\ req[r].expected <= main.events
          /\ req[r].expected = main.events => req[r].order = Without(main.order, req[r].target)

(* What a step does to the main stream, its projections, ...                *)
MainMoves ==
    /\ main' = main \/ main'.events = main.events + 1
    /\ \A i \in Instances : known'[i] = known[i] \/ known'[i] = main'
(* ... and the requests that are removing a group from the order.           *)
Same(x, y) == x.pc = y.pc /\ x.order = y.order /\ x.expected = y.expected /\ x.target = y.target
Decided(x) == \E i \in Instances : /\ x.expected = known[i].events
                                   /\ x.order = Without(known[i].order, x.target)
RemovalMoves ==
    \A x \in Requests :
        /\ req'[x].pc = "remove" => \/ Same(req'[x], req[x])
                                    \/ main' = main /\ Decided(req'[x])
        /\ req[x].pc = "remove" /\ req'[x].pc # "remove" =>
              \/ main'.order = main.order
              \/ req[x].expected = main.events /\ main'.order = req[x].order

LEMMA DisturbSame ==
    ASSUME NEW q \in [Requests -> WellReqs], NEW R, NEW x \in Requests
    PROVE  Same(Disturb(q, R)[x], q[x])
<1>1. q[x] \in ReqRecords
    BY DEF WellReqs
<1>2. Disturb(q, R)[x] = q[x] \/ Disturb(q, R)[x] = [q[x] EXCEPT !.disturbed = TRUE]
    BY DEF Disturb
<1> QED
    BY <1>1, <1>2 DEF Same, ReqRecords

(* Steps that leave the removals alone: the request r, if any, is not at    *)
(* one before and after, and the others keep what they have.                *)
LEMMA NotRemoving ==
    ASSUME OInv, NEW r,
           \A x \in Requests : x # r => Same(req'[x], req[x]),
           r \in Requests => req[r].pc # "remove" /\ req'[r].pc # "remove"
    PROVE  RemovalMoves
BY DEF RemovalMoves, Same

LEMMA AppendMoves ==
    ASSUME OInv, NEW i \in Instances, NEW o, NEW n, AppendMain(i, [order |-> o, votes |-> n])
    PROVE  MainMoves /\ main'.order = o
BY DEF AppendMain, MainMoves, OInv

(* The requests a step changes: at most r, apart from being disturbed.      *)
LEMMA OneChanges ==
    ASSUME OInv, NEW r \in Requests, NEW v \in WellReqs, NEW R,
           req' = [req EXCEPT ![r] = v] \/ req' = Disturb([req EXCEPT ![r] = v], R)
    PROVE  /\ \A x \in Requests : x # r => Same(req'[x], req[x])
           /\ Same(req'[r], v)
<1> DEFINE q == [req EXCEPT ![r] = v]
<1>1. q \in [Requests -> WellReqs]
    BY DEF OInv
<1>2. \A x \in Requests : q[x] = IF x = r THEN v ELSE req[x]
    BY DEF OInv
<1> HIDE DEF q
<1>3. \A x \in Requests : Same(req'[x], q[x])
    <2>1. CASE req' = q
        BY <2>1 DEF Same
    <2>2. CASE req' = Disturb(q, R)
        BY <1>1, <2>2, DisturbSame
    <2> QED
        BY <2>1, <2>2 DEF q
<1> QED
    BY <1>2, <1>3

(* A step of request r that is not at a removal before or after.            *)
LEMMA StepElsewhere ==
    ASSUME OInv, NEW r \in Requests, NEW v \in WellReqs, NEW R, v.pc # "remove",
           req[r].pc # "remove",
           req' = [req EXCEPT ![r] = v] \/ req' = Disturb([req EXCEPT ![r] = v], R)
    PROVE  RemovalMoves
<1>1. /\ \A x \in Requests : x # r => Same(req'[x], req[x])
      /\ Same(req'[r], v)
    BY OneChanges
<1> QED
    BY <1>1, NotRemoving DEF Same

LEMMA ReqWell == ASSUME OInv, NEW r \in Requests
                 PROVE  /\ req[r] \in WellReqs /\ InstanceOf[r] \in Instances
                        /\ NoReq \in WellReqs /\ NoReq.pc = "idle"
<1>1. NoReq \in WellReqs
    BY OpenedWell DEF NoReq
<1> QED
    BY <1>1, StreamsAssumption DEF OInv, NoReq, Opened

LEMMA ArriveMoves ==
    ASSUME OInv, OInv', NEW r \in Requests, NEW op \in Ops, NEW s \in Streams \cup {NoStream},
           Arrive(r, op, s)
    PROVE  MainMoves /\ RemovalMoves
<1>1. MainMoves
    BY ReqWell DEF Arrive, MainMoves, OInv
<1>2. FirstStep[op] \in {"check", "find", "number"}
    BY DEF FirstStep, Ops
<1> DEFINE v == Opened(op, FirstStep[op], s)
<1>3. v \in WellReqs /\ v.pc # "remove"
    BY <1>2, OpenedWell DEF Opened
<1>4. req' = [req EXCEPT ![r] = v]
    BY DEF Arrive
<1> HIDE DEF v
<1>5. /\ \A x \in Requests : x # r => Same(req'[x], req[x])
      /\ Same(req'[r], v)
    BY <1>3, <1>4, OneChanges
<1>6. req'[r].pc # "remove" /\ main' = main
    BY <1>3, <1>5 DEF Same, Arrive
<1>7. RemovalMoves
    BY <1>5, <1>6 DEF RemovalMoves, Same
<1> QED
    BY <1>1, <1>7

LEMMA OrderMoves ==
    ASSUME OInv, NEW r \in Requests,
           (\E given \in Payloads : CheckOrder(r, given)) \/ WriteOrder(r) \/ Fail(r)
    PROVE  MainMoves /\ RemovalMoves
<1>1. ASSUME NEW given \in Payloads, CheckOrder(r, given)
      PROVE  MainMoves /\ RemovalMoves
    <2>1. MainMoves /\ req[r].pc # "remove"
        BY <1>1 DEF CheckOrder, MainMoves
    <2> DEFINE v == [req[r] EXCEPT !.pc = "write", !.order = given]
    <2>2. req' = [req EXCEPT ![r] = v] \/ req' = [req EXCEPT ![r] = NoReq]
        BY <1>1 DEF CheckOrder, Ended, OInv
    <2>3. v.pc = "write"
        BY ReqWell DEF WellReqs, ReqRecords
    <2>4. OInv'
        BY <1>1, OrderWell
    <2> HIDE DEF v
    <2>5. CASE req' = [req EXCEPT ![r] = v]
        <3>1. v \in WellReqs
            BY <2>4, <2>5 DEF OInv
        <3> QED
            BY <2>1, <2>3, <2>5, <3>1, StepElsewhere
    <2>6. CASE req' = [req EXCEPT ![r] = NoReq]
        BY <2>1, <2>6, ReqWell, StepElsewhere
    <2> QED
        BY <2>2, <2>5, <2>6
<1>2. CASE WriteOrder(r)
    <2>1. MainMoves
        BY <1>2, ReqWell, AppendMoves DEF WriteOrder
    <2>2. RemovalMoves
        BY <1>2, ReqWell, StepElsewhere DEF WriteOrder, Ended
    <2> QED
        BY <2>1, <2>2
<1>3. CASE Fail(r)
    <2>1. MainMoves /\ req' = [req EXCEPT ![r] = NoReq] /\ main' = main
        BY <1>3 DEF Fail, MainMoves, Ended
    <2>2. \A x \in Requests : x # r => Same(req'[x], req[x])
        BY <2>1, ReqWell, OneChanges, ZenonT(40)
    <2>3. req'[r].pc = "idle"
        BY <2>1, ReqWell DEF OInv
    <2> QED
        BY <2>1, <2>2, <2>3 DEF RemovalMoves, Same
<1> QED
    BY <1>1, <1>2, <1>3

LEMMA DocumentMoves ==
    ASSUME OInv, NEW r \in Requests, NumberDocument(r) \/ RecordOrder(r) \/ Render(r)
    PROVE  MainMoves /\ RemovalMoves
<1>0. OInv'
    BY DocumentWell
<1>1. CASE NumberDocument(r) \/ Render(r)
    <2>1. MainMoves /\ req[r].pc # "remove"
        BY <1>1 DEF NumberDocument, Render, MainMoves
    <2>2. \A x \in Requests : x # r => Same(req'[x], req[x])
        BY <1>1 DEF NumberDocument, Render, Ended, Same, OInv
    <2>3. req'[r].pc # "remove"
        <3>1. CASE NumberDocument(r)
            <4>1. PICK q : req' = [req EXCEPT ![r].order = q,
                                       ![r].numbered = Numbered(q, View(InstanceOf[r]),
                                                                known[InstanceOf[r]]),
                                       ![r].pc = IF \/ Numbered(q, View(InstanceOf[r]),
                                                                known[InstanceOf[r]]) = On(q)
                                                    \/ req[r].op = "draft"
                                                 THEN "render" ELSE "record"]
                BY <3>1 DEF NumberDocument
            <4> DEFINE n == Numbered(q, View(InstanceOf[r]), known[InstanceOf[r]])
                       p == IF n = On(q) \/ req[r].op = "draft" THEN "render" ELSE "record"
            <4>2. p \in {"render", "record"}
                OBVIOUS
            <4>3. req' = [req EXCEPT ![r].order = q, ![r].numbered = n, ![r].pc = p]
                BY <4>1
            <4> HIDE DEF n, p
            <4>4. req \in [Requests -> ReqRecords]
                BY DEF OInv, WellReqs
            <4>5. req'[r].pc = p
                BY <4>3, <4>4 DEF ReqRecords
            <4> QED
                BY <4>2, <4>5
        <3>2. CASE Render(r)
            BY <3>2, ReqWell DEF Render, Ended, OInv, WellReqs, ReqRecords
        <3> QED
            BY <1>1, <3>1, <3>2
    <2> QED
        BY <2>1, <2>2, <2>3, NotRemoving, SMTT(40)
<1>2. CASE RecordOrder(r)
    <2>1. MainMoves
        BY <1>2, ReqWell, AppendMoves DEF RecordOrder
    <2> DEFINE v == [req[r] EXCEPT !.pc = "render", !.numbered = On(req[r].order)]
    <2>2. v.pc = "render"
        BY ReqWell DEF WellReqs, ReqRecords
    <2>3. req' = Disturb([req EXCEPT ![r] = v], Requests \ {r}) /\ req[r].pc # "remove"
        BY <1>2 DEF RecordOrder, OInv
    <2>a. On(req[r].order) \in SUBSET Streams
        <3>1. req[r].order \in Seq(Streams)
            BY ReqWell DEF WellReqs, ReqRecords
        <3>2. \A k \in DOMAIN req[r].order : req[r].order[k] \in Streams
            BY <3>1
        <3> QED
            BY <3>2 DEF On
    <2>4. v \in WellReqs
        BY <2>a, ReqWell, ZenonT(40) DEF WellReqs, ReqRecords
    <2> HIDE DEF v
    <2> QED
        BY <2>1, <2>2, <2>3, <2>4, StepElsewhere
<1> QED
    BY <1>1, <1>2

LEMMA DeletionMoves ==
    ASSUME OInv, NEW r \in Requests,
           FindGroup(r) \/ DeleteGroup(r) \/ DecideRemoval(r) \/ RemoveFromOrder(r)
    PROVE  MainMoves /\ RemovalMoves
<1>0. req[r] \in ReqRecords /\ InstanceOf[r] \in Instances /\ NoReq.pc = "idle"
    BY ReqWell DEF WellReqs
<1>1. CASE FindGroup(r)
    <2>1. MainMoves /\ req[r].pc # "remove"
        BY <1>1 DEF FindGroup, MainMoves
    <2>2. \A x \in Requests : x # r => Same(req'[x], req[x])
        BY <1>1 DEF FindGroup, Ended, Same, OInv
    <2>3. req'[r].pc # "remove"
        BY <1>0, <1>1 DEF FindGroup, Ended, OInv, ReqRecords
    <2> QED
        BY <2>1, <2>2, <2>3, NotRemoving
<1>2. CASE DeleteGroup(r)
    <2> DEFINE v == [req[r] EXCEPT !.pc = "decide"]
    <2>1. MainMoves /\ req[r].pc # "remove"
        BY <1>2 DEF DeleteGroup, MainMoves
    <2>2. v \in WellReqs /\ v.pc = "decide"
        BY ReqWell, ZenonT(40) DEF WellReqs, ReqRecords
    <2>3. req' = Disturb([req EXCEPT ![r] = v], AtInstance(InstanceOf[r]))
        BY <1>2 DEF DeleteGroup, OInv
    <2> HIDE DEF v
    <2> QED
        BY <2>1, <2>2, <2>3, StepElsewhere
<1>3. CASE DecideRemoval(r)
    <2> DEFINE k == known[InstanceOf[r]]
               v == [req[r] EXCEPT !.pc = "remove", !.order = Without(k.order, req[r].target),
                         !.expected = k.events]
    <2>1. MainMoves /\ req[r].pc # "remove" /\ main' = main
        BY <1>3 DEF DecideRemoval, MainMoves
    <2>2. \A x \in Requests : x # r => Same(req'[x], req[x])
        BY <1>3 DEF DecideRemoval, Ended, Same, OInv
    <2>3. req'[r] = NoReq \/ req'[r] = v
        BY <1>3 DEF DecideRemoval, Ended, OInv
    <2>4. /\ v.expected = known[InstanceOf[r]].events
          /\ v.order = Without(known[InstanceOf[r]].order, v.target)
        BY <1>0 DEF ReqRecords
    <2> HIDE DEF v
    <2>5. req'[r].pc = "remove" => Decided(req'[r])
        BY <1>0, <2>3, <2>4 DEF Decided
    <2> QED
        BY <2>1, <2>2, <2>5 DEF RemovalMoves, Same
<1>4. CASE RemoveFromOrder(r)
    <2>1. CASE req[r].expected = main.events
        <3>1. /\ AppendMain(InstanceOf[r], [order |-> req[r].order, votes |-> main.votes])
              /\ req' = Disturb([req EXCEPT ![r] = NoReq], Requests \ {r})
            BY <1>4, <2>1 DEF RemoveFromOrder, Ended
        <3>2. MainMoves /\ main'.order = req[r].order
            BY <1>0, <3>1, AppendMoves
        <3>3. (\A x \in Requests : x # r => Same(req'[x], req[x])) /\ Same(req'[r], NoReq)
            BY <3>1, ReqWell, OneChanges
        <3> QED
            BY <1>0, <2>1, <3>2, <3>3 DEF RemovalMoves, Same
    <2>2. CASE req[r].expected # main.events
        <3>1. main' = main /\ MainMoves
            BY <1>0, <1>4, <2>2 DEF RemoveFromOrder, MainMoves, OInv
        <3>2. \A x \in Requests : x # r => Same(req'[x], req[x])
            BY <1>4, <2>2 DEF RemoveFromOrder, Ended, Same, OInv
        <3>3. req'[r].pc # "remove"
            BY <1>0, <1>4, <2>2 DEF RemoveFromOrder, Ended, OInv, ReqRecords
        <3> QED
            BY <3>1, <3>2, <3>3 DEF RemovalMoves, Same
    <2> QED
        BY <2>1, <2>2
<1> QED
    BY <1>1, <1>2, <1>3, <1>4

LEMMA WorkMoves ==
    ASSUME OInv, NEW i \in Instances, NEW s \in Streams,
           \/ \E g \in scene.makes : ImportGroup(i, s, g) \/ DecideGroup(i, s, g)
           \/ CatchUp(i, s)
    PROVE  MainMoves /\ RemovalMoves
<1>1. MainMoves
    BY DEF ImportGroup, DecideGroup, CatchUp, MainMoves
<1>2. PICK R : req' = Disturb(req, R)
    BY DEF ImportGroup, DecideGroup, CatchUp
<1>3. \A x \in Requests : Same(req'[x], req[x])
    BY <1>2, DisturbSame DEF OInv
<1> QED
    BY <1>1, <1>3 DEF RemovalMoves, Same

LEMMA RegisterMoves ==
    ASSUME OInv, NEW i \in Instances, NEW a \in Names, NEW n \in 0..MaxVotes,
           RegisterResult(i, a, n)
    PROVE  MainMoves /\ RemovalMoves
<1>1. MainMoves
    BY AppendMoves DEF RegisterResult
<1>2. \A x \in Requests : Same(req'[x], req[x])
    BY DisturbSame DEF RegisterResult, OInv
<1> QED
    BY <1>1, <1>2 DEF RemovalMoves, Same

LEMMA NextMoves == ASSUME OInv, OInv', Next PROVE MainMoves /\ RemovalMoves
BY ArriveMoves, OrderMoves, DocumentMoves, DeletionMoves, WorkMoves, RegisterMoves DEF Next

LEMMA KInvInit == ASSUME Init PROVE KInv
<1>1. \A r \in Requests : req[r].pc = "idle"
    BY DEF Init, NoReq, Opened
<1>2. \A i \in Instances : known[i] = main
    BY DEF Init
<1>3. main.events = 0
    BY DEF Init
<1> QED
    BY <1>1, <1>2, <1>3 DEF KInv

LEMMA KInvStep == ASSUME OInv, OInv', KInv, MainMoves, RemovalMoves PROVE KInv'
<1>0. main.events \in Nat /\ main'.events \in Nat
    BY DEF OInv, WellMains, MainRecords
<1>1. \A i \in Instances : known[i].events \in Nat
    BY DEF OInv, WellMains, MainRecords
<1>2. ASSUME NEW i \in Instances
      PROVE  /\ known'[i].events <= main'.events
             /\ known'[i].events = main'.events => known'[i].order = main'.order
    BY <1>0, <1>1, <1>2 DEF KInv, MainMoves
<1>3. ASSUME NEW r \in Requests, req'[r].pc = "remove"
      PROVE  /\ req'[r].expected <= main'.events
             /\ req'[r].expected = main'.events =>
                    req'[r].order = Without(main'.order, req'[r].target)
    <2>0. req[r].expected \in Nat
        BY DEF OInv, WellReqs, ReqRecords
    <2>1. CASE Same(req'[r], req[r])
        <3>1. /\ req[r].expected <= main.events
              /\ req[r].expected = main.events => req[r].order = Without(main.order, req[r].target)
            BY <1>3, <2>1 DEF KInv, Same
        <3>2. main' = main \/ main'.events = main.events + 1
            BY DEF MainMoves
        <3> QED
            BY <1>0, <2>0, <2>1, <3>1, <3>2 DEF Same
    <2>2. CASE main' = main /\ Decided(req'[r])
        BY <2>2 DEF Decided, KInv
    <2> QED
        BY <1>3, <2>1, <2>2 DEF RemovalMoves
<1> QED
    BY <1>2, <1>3 DEF KInv

(* Deleting a group takes that group, and nothing else, out of the list     *)
(* order that is recorded at that moment, whoever records orders meanwhile. *)
THEOREM RemovalsKeepTheRest == Spec => DeletionKeepsDrawnOrder
<1>1. OInv /\ OInv' /\ KInv /\ [Next]_vars => KInv'
    <2>1. ASSUME OInv, OInv', KInv, Next PROVE KInv'
        BY <2>1, NextMoves, KInvStep
    <2>2. ASSUME KInv, UNCHANGED vars PROVE KInv'
        BY <2>2 DEF KInv, vars
    <2> QED
        BY <2>1, <2>2
<1>2. OInv /\ OInv' /\ KInv /\ [Next]_vars =>
          [\A r \in Requests :
             req[r].pc = "remove" /\ req'[r].pc # "remove" /\ main'.order # main.order =>
                 main'.order = Without(main.order, req[r].target)]_vars
    <2> SUFFICES ASSUME OInv, OInv', KInv, Next, NEW r \in Requests,
                        req[r].pc = "remove", req'[r].pc # "remove", main'.order # main.order
                 PROVE  main'.order = Without(main.order, req[r].target)
        OBVIOUS
    <2>1. RemovalMoves
        BY NextMoves
    <2>2. req[r].expected = main.events /\ main'.order = req[r].order
        BY <2>1 DEF RemovalMoves
    <2> QED
        BY <2>2 DEF KInv
<1> QED
    BY <1>1, <1>2, OInvAlways, KInvInit, PTL DEF Spec, DeletionKeepsDrawnOrder

-----------------------------------------------------------------------------
(* The documents of a download.  A group that ties with no other has one    *)
(* number in every numbering, and a numbering that is recorded is the       *)
(* numbering from then on.                                                  *)
LEMMA PlaceIs ==
    ASSUME NEW q \in Seq(Streams), Distinct(q), NEW k \in DOMAIN q
    PROVE  PlaceOf(q, q[k]) = k
<1>1. \A j \in DOMAIN q : q[j] = q[k] => j = k
    BY DEF Distinct
<1>2. k \in Nat
    OBVIOUS
<1>3. k \in DOMAIN q /\ q[k] = q[k] /\ \A j \in DOMAIN q : q[j] = q[k] => k <= j
    BY <1>1, <1>2
<1> QED
    BY <1>1, <1>3 DEF PlaceOf

(* Every group that is numbered has a number, ...                           *)
LEMMA NumberingOnto ==
    ASSUME NEW v, NEW m, NEW q \in Numberings(v, m)
    PROVE  /\ Cardinality(Eligible(v)) \in Nat
           /\ q \in [1..Cardinality(Eligible(v)) -> Eligible(v)] /\ Distinct(q)
           /\ \A s \in Eligible(v) : \E k \in 1..Cardinality(Eligible(v)) : q[k] = s
<1>1. PICK E : E = Eligible(v)
    OBVIOUS
<1>2. IsFiniteSet(E) /\ Cardinality(E) \in Nat
    BY <1>1, StreamsAssumption, FS_Subset, FS_CardinalityType DEF Eligible
<1>3. PICK n : n = Cardinality(E)
    OBVIOUS
<1>4. q \in [1..n -> E] /\ Distinct(q)
    BY <1>1, <1>3 DEF Numberings
<1>5. IsFiniteSet(1..n) /\ Cardinality(1..n) = n
    BY <1>2, <1>3, FS_Interval
<1>6. q \in Injection(1..n, E)
    BY <1>4 DEF Distinct, Injection, IsInjective
<1>7. q \in Surjection(1..n, E)
    BY <1>2, <1>3, <1>5, <1>6, FS_Injection
<1>8. \A s \in E : \E k \in 1..n : q[k] = s
    BY <1>7 DEF Surjection
<1> QED
    BY <1>1, <1>2, <1>3, <1>4, <1>8

(* ... which is, for a group that does not tie, one more than the number of *)
(* groups that precede it.                                                  *)
Untied(v, m, s) == \A t \in Eligible(v) \ {s} : Precedes(v, m, t, s) \/ Precedes(v, m, s, t)

LEMMA NumberCounts ==
    ASSUME NEW v, NEW m, NEW q \in Numberings(v, m), NEW k \in 1..Cardinality(Eligible(v)),
           Untied(v, m, q[k])
    PROVE  k - 1 = Cardinality({b \in Eligible(v) : b # q[k] /\ Precedes(v, m, b, q[k])})
<1>1. PICK E : E = Eligible(v)
    OBVIOUS
<1>2. PICK n : n = Cardinality(E)
    OBVIOUS
<1>3. /\ n \in Nat /\ q \in [1..n -> E] /\ Distinct(q)
      /\ \A s \in E : \E j \in 1..n : q[j] = s
    BY <1>1, <1>2, NumberingOnto
<1>4. \A j, l \in 1..n : j < l => ~Precedes(v, m, q[l], q[j])
    BY <1>1, <1>2 DEF Numberings
<1>5. k \in 1..n /\ E \subseteq Streams
    BY <1>1, <1>2 DEF Eligible
<1>6. PICK a : a = q[k]
    OBVIOUS
<1>7. PICK B : B = {b \in E : b # a /\ Precedes(v, m, b, a)}
    OBVIOUS
<1>8. \A j \in 1..n : q[j] \in B <=> j < k
    <2> SUFFICES ASSUME NEW j \in 1..n
                 PROVE  q[j] \in B <=> j < k
        OBVIOUS
    <2>1. q[j] \in Streams /\ a \in Streams /\ q[j] \in E
        BY <1>3, <1>5, <1>6
    <2>2. CASE j < k
        <3>1. q[j] # a
            BY <1>3, <1>5, <1>6, <2>2 DEF Distinct
        <3>2. Precedes(v, m, q[j], a)
            <4>1. Precedes(v, m, q[j], a) \/ Precedes(v, m, a, q[j])
                BY <1>1, <1>6, <2>1, <3>1 DEF Untied
            <4> QED
                BY <1>4, <1>5, <1>6, <2>2, <4>1
        <3> QED
            BY <1>7, <2>1, <2>2, <3>1, <3>2
    <2>3. CASE ~(j < k)
        <3>1. j = k \/ k < j
            BY <1>3, <1>5, <2>3
        <3> QED
            BY <1>4, <1>5, <1>6, <1>7, <2>3, <3>1
    <2> QED
        BY <2>2, <2>3
<1>9. PICK f : f = [j \in 1..(k - 1) |-> q[j]]
    OBVIOUS
<1>10. /\ \A j \in 1..(k - 1) : j \in 1..n /\ j < k
       /\ \A j \in 1..n : j < k => j \in 1..(k - 1)
       /\ k - 1 \in Nat
    BY <1>3, <1>5
<1>11. f \in [1..(k - 1) -> B]
    BY <1>8, <1>9, <1>10
<1>12. \A b \in B : \E j \in 1..(k - 1) : f[j] = b
    <2> SUFFICES ASSUME NEW b \in B
                 PROVE  \E j \in 1..(k - 1) : f[j] = b
        OBVIOUS
    <2>1. PICK j \in 1..n : q[j] = b
        BY <1>3, <1>7
    <2> QED
        BY <1>8, <1>9, <1>10, <2>1
<1>13. \A i, j \in 1..(k - 1) : f[i] = f[j] => i = j
    BY <1>3, <1>9, <1>10 DEF Distinct
<1>14. f \in Bijection(1..(k - 1), B)
    BY <1>11, <1>12, <1>13 DEF Bijection, Injection, Surjection, IsInjective
<1>15. IsFiniteSet(1..(k - 1)) /\ Cardinality(1..(k - 1)) = k - 1
    BY <1>10, FS_Interval
<1>16. Cardinality(B) = k - 1
    BY <1>14, <1>15, FS_Bijection DEF ExistsBijection
<1> QED
    BY <1>1, <1>6, <1>7, <1>16

LEMMA NumberingRange ==
    ASSUME NEW v, NEW m, NEW q \in Numberings(v, m)
    PROVE  On(q) = Eligible(v)
<1>1. PICK E, n : E = Eligible(v) /\ n = Cardinality(Eligible(v))
    OBVIOUS
<1>2. q \in [1..n -> E] /\ \A s \in E : \E k \in 1..n : q[k] = s
    BY <1>1, NumberingOnto
<1> QED
    BY <1>1, <1>2 DEF On

(* So such a group is in one place.                                         *)
LEMMA SameNumber ==
    ASSUME NEW v, NEW m, NEW p \in Numberings(v, m), NEW q \in Numberings(v, m),
           NEW s \in Eligible(v), Untied(v, m, s)
    PROVE  PlaceOf(p, s) = PlaceOf(q, s)
<1>1. PICK n : n = Cardinality(Eligible(v))
    OBVIOUS
<1>2. PICK c : c = Cardinality({b \in Eligible(v) : b # s /\ Precedes(v, m, b, s)})
    OBVIOUS
<1>3. ASSUME NEW u \in Numberings(v, m)
      PROVE  PlaceOf(u, s) = c + 1
    <2>1. n \in Nat /\ u \in [1..n -> Eligible(v)] /\ \E k \in 1..n : u[k] = s
        BY <1>1, NumberingOnto
    <2>2. PICK k \in 1..n : u[k] = s
        BY <2>1
    <2>3. k - 1 = Cardinality({b \in Eligible(v) : b # u[k] /\ Precedes(v, m, b, u[k])})
        BY <1>1, <2>2, NumberCounts
    <2>4. k - 1 = c
        BY <1>2, <2>2, <2>3
    <2>5. u \in Seq(Streams) /\ Distinct(u) /\ k \in DOMAIN u
        BY <2>1, <2>2, NumberingDistinct
    <2>6. PlaceOf(u, s) = k
        BY <2>2, <2>5, PlaceIs
    <2> QED
        BY <2>1, <2>2, <2>4, <2>6
<1> QED
    BY <1>3

(* A numbering that is recorded is a numbering, and complete.               *)
LEMMA RecordedIsNumbering ==
    ASSUME NEW v, NEW m, NEW q \in Numberings(v, m), NEW o, o.order = q
    PROVE  q \in Numberings(v, o) /\ Numbered(q, v, o) = On(q)
<1>1. q \in Seq(Streams) /\ Distinct(q)
    BY NumberingDistinct
<1>2. q \in [1..Cardinality(Eligible(v)) -> Eligible(v)]
    BY DEF Numberings
<1>3. ASSUME NEW j \in DOMAIN q, NEW k \in DOMAIN q, j < k
      PROVE  ~Precedes(v, o, q[k], q[j])
    <2>1. q[j] \in On(q) /\ q[k] \in On(q)
        BY DEF On
    <2>2. PlaceOf(q, q[j]) = j /\ PlaceOf(q, q[k]) = k /\ j \in Nat /\ k \in Nat
        BY <1>1, PlaceIs
    <2>3. ~(PlaceOf(q, q[k]) < PlaceOf(q, q[j]))
        BY <1>3, <2>2
    <2> QED
        BY <2>1, <2>3 DEF Precedes
<1>4. q \in Numberings(v, o)
    BY <1>1, <1>2, <1>3 DEF Numberings
<1>5. On(q) # {} => q # << >>
    <2>1. DOMAIN << >> = {}
        OBVIOUS
    <2> QED
        BY <2>1 DEF On
<1>6. Numbered(q, v, o) = On(q)
    BY <1>5 DEF Numbered
<1> QED
    BY <1>4, <1>6

(* Only the groups that are numbered matter to a numbering.                 *)
LEMMA NumberingsSame ==
    ASSUME NEW v, NEW w, NEW m, Eligible(v) = Eligible(w),
           \A s \in Eligible(v) : v[s] = w[s]
    PROVE  Numberings(v, m) = Numberings(w, m)
<1>1. \A a, b \in Eligible(v) : Precedes(v, m, a, b) <=> Precedes(w, m, a, b)
    BY DEF Precedes, StartsBefore, OnVotes, VotesOf
<1>2. ASSUME NEW q \in [1..Cardinality(Eligible(v)) -> Eligible(v)]
      PROVE  (\A j, k \in DOMAIN q : j < k => ~Precedes(v, m, q[k], q[j]))
             <=> (\A j, k \in DOMAIN q : j < k => ~Precedes(w, m, q[k], q[j]))
    BY <1>1
<1> QED
    BY <1>2 DEF Numberings

(* Nor do others matter to a document of that numbering.                    *)
LEMMA DocumentSame ==
    ASSUME NEW v, NEW w, NEW m, NEW n, NEW q, On(q) = Eligible(v),
           \A s \in Eligible(v) : v[s] = w[s]
    PROVE  Shown(n, q, w) = Shown(n, q, v) /\ Numbered(q, w, m) = Numbered(q, v, m)
BY DEF Shown, Numbered, OnVotes, VotesOf

(* A download that nobody disturbs is numbered by its process's projections *)
(* of the moment.  Its documents agree because these have the whole of the  *)
(* main stream; because once the first is numbered, every group that can be *)
(* numbered is in the cache of the process, so that nothing other processes *)
(* write is seen before it is caught up with; and because an order it       *)
(* records itself is the one it has.                                        *)
Zip(x) == x.op = "zip" /\ ~x.disturbed
Warm(i) == \A s \in Streams : View(i)[s].status = "live" => cached[i][s] # NotCached
Current(i, q) == q \in Numberings(View(i), known[i])
Settled(i, q) == Current(i, q) /\ Numbered(q, View(i), known[i]) = On(q)
Made(i, n, d) == /\ Settled(i, d.order) /\ d.numbered = On(d.order)
                 /\ d.shown = Shown(n, d.order, View(i))
Going(i, x) ==
    /\ known[i] = main
    /\ x.docs # << >> \/ x.pc # "number" => Warm(i)
    /\ \A j \in DOMAIN x.docs : Made(i, j, x.docs[j])
    /\ x.pc = "record" => x.docs = << >> /\ Current(i, x.order)
    /\ x.pc = "render" => Settled(i, x.order) /\ x.numbered = On(x.order)
ZipOk(r) ==
    Zip(req[r]) => /\ req[r].pc \in {"idle", "number", "record", "render"}
                   /\ Going(InstanceOf[r], req[r])
ZInv == \A r \in Requests : ZipOk(r)

(* What the steps of others do to such a process.                           *)
SameView(i) == Warm(i) => /\ Warm(i)'
                          /\ Eligible(View(i)') = Eligible(View(i))
                          /\ \A s \in Eligible(View(i)) : View(i)'[s] = View(i)[s]
Calm(i) == main' = main /\ known'[i] \in {known[i], main} /\ SameView(i)
Kept(x) == req'[x] = req[x] /\ Calm(InstanceOf[x])

LEMMA GoingKept ==
    ASSUME NEW i \in Instances, NEW x, Calm(i), Going(i, x)
    PROVE  Going(i, x)'
<1>1. known'[i] = known[i] /\ main' = main /\ known[i] = main
    BY DEF Calm, Going
<1>2. ASSUME Warm(i)
      PROVE  Numberings(View(i)', known[i]) = Numberings(View(i), known[i])
    BY <1>2, NumberingsSame DEF Calm, SameView
<1>3. ASSUME Warm(i), NEW q
      PROVE  (Current(i, q) => Current(i, q)') /\ (Settled(i, q) => Settled(i, q)')
    <2>1. Current(i, q) => Current(i, q)'
        BY <1>1, <1>2, <1>3 DEF Current
    <2>2. ASSUME Settled(i, q)
          PROVE  Settled(i, q)'
        <3>1. On(q) = Eligible(View(i))
            BY <2>2, NumberingRange DEF Settled, Current
        <3>2. Numbered(q, View(i)', known[i]) = Numbered(q, View(i), known[i])
            BY <1>3, <3>1, DocumentSame DEF Calm, SameView
        <3> QED
            BY <1>1, <2>1, <2>2, <3>2 DEF Settled
    <2> QED
        BY <2>1, <2>2
<1>8. ASSUME Warm(i), NEW n, NEW d, Made(i, n, d)
      PROVE  Made(i, n, d)'
    <2>1. On(d.order) = Eligible(View(i))
        BY <1>8, NumberingRange DEF Made, Settled, Current
    <2>2. Shown(n, d.order, View(i)') = Shown(n, d.order, View(i))
        BY <1>8, <2>1, DocumentSame DEF Calm, SameView
    <2> QED
        BY <1>3, <1>8, <2>2 DEF Made
<1>4. Warm(i) => Warm(i)'
    BY DEF Calm, SameView
<1>5. DOMAIN << >> = {}
    OBVIOUS
<1>6. CASE x.docs # << >> \/ x.pc # "number"
    BY <1>1, <1>3, <1>4, <1>6, <1>8 DEF Going
<1>7. CASE ~(x.docs # << >> \/ x.pc # "number")
    BY <1>1, <1>5, <1>7 DEF Going
<1> QED
    BY <1>6, <1>7

LEMMA KeptOk ==
    ASSUME OInv, NEW x \in Requests, ZipOk(x), Kept(x) \/ ~Zip(req'[x])
    PROVE  ZipOk(x)'
<1>1. CASE ~Zip(req'[x])
    BY <1>1 DEF ZipOk
<1>2. CASE Kept(x) /\ Zip(req'[x])
    <2>1. PICK y : y = req[x]
        OBVIOUS
    <2>2. InstanceOf[x] \in Instances
        BY StreamsAssumption
    <2>3. y.pc \in {"idle", "number", "record", "render"} /\ Going(InstanceOf[x], y)
        BY <1>2, <2>1 DEF ZipOk, Kept
    <2>4. Going(InstanceOf[x], y)'
        BY <1>2, <2>1, <2>2, <2>3, GoingKept DEF Kept
    <2>5. req'[x] = y
        BY <1>2, <2>1 DEF Kept
    <2> QED
        BY <2>3, <2>4, <2>5 DEF ZipOk
<1> QED
    BY <1>1, <1>2

(* Looking streams up loads them and changes nothing that is seen.          *)
LEMMA LookUpView ==
    ASSUME OInv, NEW j \in Instances, NEW S, LookUp(j, S), groups' = groups, NEW i \in Instances
    PROVE  View(i)' = View(i) /\ (Warm(i) => Warm(i)')
<1>1. \A s \in Streams : View(j)[s] # NotCached
    BY ViewType, BoundsAssumption
<1>2. cached \in [Instances -> [Streams -> GroupRecords \cup {NotCached}]]
    BY DEF OInv
<1>3. CASE i # j
    <2>1. cached'[i] = cached[i]
        BY <1>2, <1>3 DEF LookUp
    <2> QED
        BY <2>1 DEF View, Warm
<1>4. CASE i = j
    <2>1. \A s \in Streams : cached'[i][s] = IF s \in S THEN View(i)[s] ELSE cached[i][s]
        BY <1>2, <1>4 DEF LookUp
    <2>2. \A s \in Streams :
              (IF cached'[i][s] = NotCached THEN groups'[s] ELSE cached'[i][s]) = View(i)[s]
        BY <1>1, <1>4, <2>1 DEF View
    <2>3. View(i)' = View(i)
        BY <2>2 DEF View
    <2> QED
        BY <1>1, <1>4, <2>1, <2>3 DEF Warm
<1> QED
    BY <1>3, <1>4

LEMMA LookUpWarms ==
    ASSUME OInv, NEW i \in Instances, LookUp(i, Listed), groups' = groups
    PROVE  Warm(i)'
<1>1. \A s \in Streams : View(i)[s] # NotCached
    BY ViewType, BoundsAssumption
<1>2. \A s \in Streams : cached'[i][s] = IF s \in Listed THEN View(i)[s] ELSE cached[i][s]
    BY DEF LookUp, OInv
<1>3. View(i)' = View(i)
    BY LookUpView
<1>4. \A s \in Streams : View(i)[s].status = "live" /\ cached[i][s] = NotCached => s \in Listed
    BY DEF View, Listed
<1> QED
    BY <1>1, <1>2, <1>3, <1>4 DEF Warm

LEMMA SeenSame ==
    ASSUME NEW i, View(i)' = View(i), Warm(i) => Warm(i)'
    PROVE  SameView(i)
BY DEF SameView

(* Another process that writes to a stream which is live only if it was.    *)
LEMMA AppendElsewhere ==
    ASSUME OInv, NEW j \in Instances, NEW s \in Streams, NEW g, AppendGroup(j, s, g),
           g.status = "live" => groups[s].status = "live", NEW i \in Instances, i # j
    PROVE  SameView(i)
<1> SUFFICES ASSUME Warm(i)
             PROVE  /\ Warm(i)' /\ Eligible(View(i)') = Eligible(View(i))
                    /\ \A t \in Eligible(View(i)) : View(i)'[t] = View(i)[t]
    BY DEF SameView
<1>1. cached'[i] = cached[i]
    BY DEF AppendGroup, OInv
<1>2. \A t \in Streams : groups'[t] = IF t = s THEN g ELSE groups[t]
    BY DEF AppendGroup, OInv
<1>3. /\ \A t \in Streams : View(i)[t] = IF cached[i][t] = NotCached THEN groups[t]
                                         ELSE cached[i][t]
      /\ \A t \in Streams : View(i)'[t] = IF cached[i][t] = NotCached THEN groups'[t]
                                          ELSE cached[i][t]
    BY <1>1 DEF View
<1>4. ASSUME NEW t \in Streams
      PROVE  /\ View(i)'[t].status = "live" <=> View(i)[t].status = "live"
             /\ View(i)[t].status = "live" => /\ View(i)'[t] = View(i)[t]
                                              /\ cached[i][t] # NotCached
    BY <1>2, <1>3 DEF Warm
<1>5. Warm(i)'
    BY <1>1, <1>4 DEF Warm
<1>6. Eligible(View(i)') = Eligible(View(i)) /\ \A t \in Eligible(View(i)) : View(i)'[t] = View(i)[t]
    BY <1>4 DEF Eligible
<1> QED
    BY <1>5, <1>6

(* What becomes of the other requests: they are disturbed, or go on.        *)
LEMMA DisturbedOrKept ==
    ASSUME OInv, NEW r, NEW v, NEW R, NEW x \in Requests, x # r,
           req' = Disturb([req EXCEPT ![r] = v], R)
    PROVE  (x \in R => ~Zip(req'[x])) /\ (x \notin R => req'[x] = req[x])
<1>1. req \in [Requests -> ReqRecords]
    BY DEF OInv, WellReqs
<1>2. req'[x] = IF x \in R THEN [req[x] EXCEPT !.disturbed = TRUE] ELSE req[x]
    BY <1>1 DEF Disturb
<1> QED
    BY <1>1, <1>2 DEF Zip, ReqRecords

LEMMA OthersDisturbed ==
    ASSUME OInv, NEW r, NEW v, NEW x \in Requests, x # r,
           req' = Disturb([req EXCEPT ![r] = v], Requests \ {r})
    PROVE  ~Zip(req'[x])
<1>1. req \in [Requests -> ReqRecords]
    BY DEF OInv, WellReqs
<1>2. req'[x] = [req[x] EXCEPT !.disturbed = TRUE]
    BY <1>1 DEF Disturb
<1> QED
    BY <1>1, <1>2 DEF Zip, ReqRecords

LEMMA NoReqNoZip == ~Zip(NoReq)
BY DEF Zip, NoReq, Opened

(* A request that does something else is no download.                       *)
LEMMA ElsewhereNoZip ==
    ASSUME NEW r, ZipOk(r), req[r].pc \notin {"idle", "number", "record", "render"}
    PROVE  ~Zip(req[r])
BY DEF ZipOk

LEMMA ArriveZip ==
    ASSUME OInv, ZInv, NEW r \in Requests, NEW op \in Ops, NEW s \in Streams \cup {NoStream},
           Arrive(r, op, s)
    PROVE  ZInv'
<1> SUFFICES ASSUME NEW x \in Requests
             PROVE  ZipOk(x)'
    BY DEF ZInv
<1>1. InstanceOf[r] \in Instances /\ InstanceOf[x] \in Instances
    BY StreamsAssumption
<1>2. known' = [known EXCEPT ![InstanceOf[r]] = main] /\ main' = main
    BY DEF Arrive
<1>3. CASE x # r
    <2>1. req'[x] = req[x]
        BY <1>3 DEF Arrive, OInv
    <2>2. SameView(InstanceOf[x])
        BY DEF Arrive, SameView, Warm, View
    <2>3. Calm(InstanceOf[x])
        BY <1>1, <1>2, <2>2 DEF Calm, OInv
    <2> QED
        BY <2>1, <2>3, KeptOk DEF Kept, ZInv
<1>4. CASE x = r
    <2>1. PICK y : y = Opened(op, FirstStep[op], s)
        OBVIOUS
    <2>2. req'[x] = y
        BY <1>4, <2>1 DEF Arrive, OInv
    <2>3. y.op = op /\ y.docs = << >> /\ y.pc = FirstStep[op]
        BY <2>1 DEF Opened
    <2>4. op = "zip" => y.pc = "number"
        BY <2>3 DEF FirstStep
    <2>5. DOMAIN << >> = {}
        OBVIOUS
    <2>6. known'[InstanceOf[x]] = main'
        BY <1>1, <1>2, <1>4 DEF OInv
    <2>7. op = "zip" => Going(InstanceOf[x], y)'
        BY <2>3, <2>4, <2>5, <2>6 DEF Going
    <2> QED
        BY <2>2, <2>3, <2>4, <2>7 DEF ZipOk, Zip
<1> QED
    BY <1>3, <1>4

(* A step by which a process looks streams up and request r goes on.        *)
LEMMA LookUpKeeps ==
    ASSUME OInv, ZInv, NEW r \in Requests, NEW S, LookUp(InstanceOf[r], S),
           UNCHANGED <<main, known, groups>>, NEW x \in Requests, req'[x] = req[x]
    PROVE  ZipOk(x)'
<1>1. InstanceOf[r] \in Instances /\ InstanceOf[x] \in Instances
    BY StreamsAssumption
<1>2. SameView(InstanceOf[x])
    BY <1>1, LookUpView, SeenSame
<1>3. Calm(InstanceOf[x])
    BY <1>2 DEF Calm
<1> QED
    BY <1>3, KeptOk DEF Kept, ZInv

LEMMA OrderZip ==
    ASSUME OInv, ZInv, NEW r \in Requests,
           (\E given \in Payloads : CheckOrder(r, given)) \/ WriteOrder(r) \/ Fail(r)
    PROVE  ZInv'
<1> SUFFICES ASSUME NEW x \in Requests
             PROVE  ZipOk(x)'
    BY DEF ZInv
<1>0. req \in [Requests -> ReqRecords] /\ ZipOk(x) /\ ZipOk(r)
    BY DEF OInv, WellReqs, ZInv
<1>1. ASSUME NEW given \in Payloads, CheckOrder(r, given)
      PROVE  ZipOk(x)'
    <2>1. req' = [req EXCEPT ![r].pc = "write", ![r].order = given] \/ req' = [req EXCEPT ![r] = NoReq]
        BY <1>1 DEF CheckOrder, Ended
    <2>2. CASE x # r
        <3>1. req'[x] = req[x]
            BY <1>0, <2>1, <2>2
        <3> QED
            BY <1>1, <3>1, LookUpKeeps DEF CheckOrder
    <2>3. CASE x = r
        <3>1. ~Zip(req[r])
            BY <1>0, <1>1, ElsewhereNoZip DEF CheckOrder
        <3>2. ~Zip(req'[x])
            BY <1>0, <2>1, <2>3, <3>1, NoReqNoZip DEF Zip, ReqRecords
        <3> QED
            BY <1>0, <3>2, KeptOk
    <2> QED
        BY <2>2, <2>3
<1>2. CASE WriteOrder(r)
    <2>1. req' = Disturb([req EXCEPT ![r] = NoReq], Requests \ {r})
        BY <1>2 DEF WriteOrder, Ended
    <2>2. CASE x # r
        <3>1. ~Zip(req'[x])
            BY <2>1, <2>2, OthersDisturbed
        <3> QED
            BY <1>0, <3>1, KeptOk
    <2>3. CASE x = r
        <3>1. req'[x] = NoReq
            BY <1>0, <2>1, <2>3 DEF Disturb
        <3> QED
            BY <1>0, <3>1, NoReqNoZip, KeptOk
    <2> QED
        BY <2>2, <2>3
<1>3. CASE Fail(r)
    <2>1. req'[x] = IF x = r THEN NoReq ELSE req[x]
        BY <1>0, <1>3 DEF Fail, Ended
    <2>2. Calm(InstanceOf[x])
        BY <1>3 DEF Fail, Calm, SameView, Warm, View
    <2> QED
        BY <1>0, <2>1, <2>2, NoReqNoZip, KeptOk DEF Kept
<1> QED
    BY <1>1, <1>2, <1>3

LEMMA DeletionZip ==
    ASSUME OInv, ZInv, NEW r \in Requests,
           FindGroup(r) \/ DeleteGroup(r) \/ DecideRemoval(r) \/ RemoveFromOrder(r)
    PROVE  ZInv'
<1> SUFFICES ASSUME NEW x \in Requests
             PROVE  ZipOk(x)'
    BY DEF ZInv
<1>0. /\ req \in [Requests -> ReqRecords] /\ ZipOk(x) /\ ZipOk(r)
      /\ InstanceOf[r] \in Instances /\ InstanceOf[x] \in Instances
    BY StreamsAssumption DEF OInv, WellReqs, ZInv
<1>a. ~Zip(req[r])
    BY <1>0, ElsewhereNoZip DEF FindGroup, DeleteGroup, DecideRemoval, RemoveFromOrder
<1>1. CASE FindGroup(r)
    <2>1. CASE x # r
        <3>1. req'[x] = req[x]
            BY <1>0, <1>1, <2>1 DEF FindGroup, Ended
        <3> QED
            BY <1>1, <3>1, LookUpKeeps DEF FindGroup
    <2>2. CASE x = r
        <3>1. req'[x] = NoReq \/ req'[x] = [req[r] EXCEPT !.pc = "delete"]
            BY <1>0, <1>1, <2>2 DEF FindGroup, Ended
        <3>2. ~Zip(req'[x])
            BY <1>0, <1>a, <3>1, NoReqNoZip DEF Zip, ReqRecords
        <3> QED
            BY <1>0, <3>2, KeptOk
    <2> QED
        BY <2>1, <2>2
<1>2. CASE DeleteGroup(r)
    <2> DEFINE i == InstanceOf[r]
               s == req[r].target
               g == [groups[s] EXCEPT !.status = "deleted"]
    <2>a. req' = Disturb([req EXCEPT ![r] = [req[r] EXCEPT !.pc = "decide"]], AtInstance(i))
        BY <1>0, <1>2 DEF DeleteGroup
    <2>b. PICK v : v = [req[r] EXCEPT !.pc = "decide"]
        OBVIOUS
    <2>1. req' = Disturb([req EXCEPT ![r] = v], AtInstance(i))
        BY <2>a, <2>b
    <2>2. CASE x = r
        <3>1. req'[x] = [[req[r] EXCEPT !.pc = "decide"] EXCEPT !.disturbed = TRUE]
            BY <1>0, <2>a, <2>2 DEF Disturb, AtInstance
        <3>2. ~Zip(req'[x])
            BY <1>0, <3>1 DEF Zip, ReqRecords
        <3> QED
            BY <1>0, <3>2, KeptOk
    <2>3. CASE x # r /\ InstanceOf[x] = i
        <3>a. x \in AtInstance(i)
            BY <2>3 DEF AtInstance
        <3>1. ~Zip(req'[x])
            BY <2>1, <2>3, <3>a, DisturbedOrKept
        <3> QED
            BY <1>0, <3>1, KeptOk
    <2>4. CASE x # r /\ InstanceOf[x] # i
        <3>a. x \notin AtInstance(i)
            BY <2>4 DEF AtInstance
        <3>1. req'[x] = req[x]
            BY <2>1, <2>4, <3>a, DisturbedOrKept
        <3>2. AppendGroup(i, s, g) /\ UNCHANGED <<main, known>>
            BY <1>2 DEF DeleteGroup
        <3>b. s \in Streams => g.status = "deleted"
            BY DEF OInv, GroupRecords
        <3>3. SameView(InstanceOf[x])
            <4>1. CASE s \in Streams
                <5> HIDE DEF g
                <5> QED
                    BY <1>0, <2>4, <3>2, <3>b, <4>1, AppendElsewhere
            <4>2. CASE s \notin Streams
                <5>1. groups' = groups /\ cached'[InstanceOf[x]] = cached[InstanceOf[x]]
                    BY <1>0, <2>4, <3>2, <4>2 DEF AppendGroup, OInv
                <5> QED
                    BY <5>1 DEF SameView, Warm, View
            <4> QED
                BY <4>1, <4>2
        <3> QED
            BY <1>0, <3>1, <3>2, <3>3, KeptOk DEF Kept, Calm
    <2> QED
        BY <2>2, <2>3, <2>4
<1>3. CASE DecideRemoval(r)
    <2>1. CASE x # r
        <3>1. req'[x] = req[x]
            BY <1>0, <1>3, <2>1 DEF DecideRemoval, Ended
        <3>2. Calm(InstanceOf[x])
            BY <1>3 DEF DecideRemoval, Calm, SameView, Warm, View
        <3> QED
            BY <1>0, <3>1, <3>2, KeptOk DEF Kept
    <2>2. CASE x = r
        <3>a. PICK o, e : req' = Ended(r) \/ req' = [req EXCEPT ![r].pc = "remove", ![r].order = o,
                                                            ![r].expected = e]
            BY <1>3 DEF DecideRemoval
        <3>1. CASE req' = Ended(r)
            <4>1. req'[x] = NoReq
                BY <1>0, <2>2, <3>1 DEF Ended
            <4> QED
                BY <1>0, <4>1, NoReqNoZip, KeptOk
        <3>2. CASE req' # Ended(r)
            <4>1. req'[x].op = req[r].op /\ req'[x].disturbed = req[r].disturbed
                BY <1>0, <2>2, <3>a, <3>2 DEF ReqRecords
            <4> QED
                BY <1>0, <1>a, <4>1, KeptOk DEF Zip
        <3> QED
            BY <3>1, <3>2
    <2> QED
        BY <2>1, <2>2
<1>4. CASE RemoveFromOrder(r)
    <2>1. CASE req[r].expected = main.events
        <3>1. req' = Disturb([req EXCEPT ![r] = NoReq], Requests \ {r})
            BY <1>4, <2>1 DEF RemoveFromOrder, Ended
        <3>2. CASE x # r
            <4>1. ~Zip(req'[x])
                BY <3>1, <3>2, OthersDisturbed
            <4> QED
                BY <1>0, <4>1, KeptOk
        <3>3. CASE x = r
            <4>1. req'[x] = NoReq
                BY <1>0, <3>1, <3>3 DEF Disturb
            <4> QED
                BY <1>0, <4>1, NoReqNoZip, KeptOk
        <3> QED
            BY <3>2, <3>3
    <2>2. CASE req[r].expected # main.events
        <3>1. CASE x # r
            <4>1. req'[x] = req[x]
                BY <1>0, <1>4, <2>2, <3>1 DEF RemoveFromOrder, Ended
            <4>2. SameView(InstanceOf[x])
                BY <1>4 DEF RemoveFromOrder, SameView, Warm, View
            <4>3. main' = main /\ known' = [known EXCEPT ![InstanceOf[r]] = main]
                BY <1>4, <2>2 DEF RemoveFromOrder
            <4>4. Calm(InstanceOf[x])
                BY <1>0, <4>2, <4>3 DEF Calm, OInv
            <4> QED
                BY <1>0, <4>1, <4>4, KeptOk DEF Kept
        <3>2. CASE x = r
            <4>a. PICK n : \/ req' = Ended(r)
                           \/ req' = [req EXCEPT ![r].pc = "decide", ![r].attempts = n]
                BY <1>0, <1>4, <2>2 DEF RemoveFromOrder
            <4>1. CASE req' = Ended(r)
                <5>1. req'[x] = NoReq
                    BY <1>0, <3>2, <4>1 DEF Ended
                <5> QED
                    BY <1>0, <5>1, NoReqNoZip, KeptOk
            <4>2. CASE req' # Ended(r)
                <5>1. req'[x].op = req[r].op /\ req'[x].disturbed = req[r].disturbed
                    BY <1>0, <3>2, <4>a, <4>2 DEF ReqRecords
                <5> QED
                    BY <1>0, <1>a, <5>1, KeptOk DEF Zip
            <4> QED
                BY <4>1, <4>2
        <3> QED
            BY <3>1, <3>2
    <2> QED
        BY <2>1, <2>2
<1> QED
    BY <1>1, <1>2, <1>3, <1>4

LEMMA WorkZip ==
    ASSUME OInv, ZInv, NEW i \in Instances, NEW s \in Streams,
           \/ \E g \in scene.makes : ImportGroup(i, s, g) \/ DecideGroup(i, s, g)
           \/ CatchUp(i, s)
    PROVE  ZInv'
<1> SUFFICES ASSUME NEW x \in Requests
             PROVE  ZipOk(x)'
    BY DEF ZInv
<1>0. /\ req \in [Requests -> ReqRecords] /\ ZipOk(x) /\ InstanceOf[x] \in Instances
    BY StreamsAssumption DEF OInv, WellReqs, ZInv
<1>1. ASSUME NEW R, req' = Disturb(req, R)
      PROVE  (x \in R => ~Zip(req'[x])) /\ (x \notin R => req'[x] = req[x])
    <2>1. req'[x] = IF x \in R THEN [req[x] EXCEPT !.disturbed = TRUE] ELSE req[x]
        BY <1>1 DEF Disturb
    <2> QED
        BY <1>0, <2>1 DEF Zip, ReqRecords
<1>2. CASE \E g \in scene.makes : ImportGroup(i, s, g)
    BY <1>0, <1>1, <1>2, KeptOk DEF ImportGroup
<1>3. ASSUME NEW g \in scene.makes, DecideGroup(i, s, g)
      PROVE  ZipOk(x)'
    <2>1. req' = Disturb(req, AtInstance(i)) /\ UNCHANGED <<main, known>>
        BY <1>3 DEF DecideGroup
    <2>2. CASE InstanceOf[x] = i
        BY <1>0, <1>1, <2>1, <2>2, KeptOk DEF AtInstance
    <2>3. CASE InstanceOf[x] # i
        <3>1. req'[x] = req[x]
            BY <1>1, <2>1, <2>3 DEF AtInstance
        <3>3. AppendGroup(i, s, g) /\ g.status = groups[s].status
            BY <1>3 DEF DecideGroup
        <3>4. SameView(InstanceOf[x])
            BY <1>0, <2>3, <3>3, AppendElsewhere
        <3> QED
            BY <1>0, <2>1, <3>1, <3>4, KeptOk DEF Kept, Calm
    <2> QED
        BY <2>2, <2>3
<1>4. CASE CatchUp(i, s)
    <2>0. /\ req' = Disturb(req, {y \in AtInstance(i) : cached[i][s] # NotCached})
          /\ UNCHANGED <<main, known, groups>>
          /\ cached' = [cached EXCEPT ![i] = [cached[i] EXCEPT ![s] = groups[s]]]
        BY <1>4 DEF CatchUp, OInv
    <2>1. CASE InstanceOf[x] = i /\ cached[i][s] # NotCached
        <3>1. ~Zip(req'[x])
            BY <1>1, <2>0, <2>1 DEF AtInstance
        <3> QED
            BY <1>0, <3>1, KeptOk
    <2>2. CASE ~(InstanceOf[x] = i /\ cached[i][s] # NotCached)
        <3>1. req'[x] = req[x]
            BY <1>1, <2>0, <2>2 DEF AtInstance
        <3>2. View(InstanceOf[x])' = View(InstanceOf[x])
            <4>1. \A t \in Streams : \/ cached'[InstanceOf[x]][t] = cached[InstanceOf[x]][t]
                                     \/ /\ cached[InstanceOf[x]][t] = NotCached
                                        /\ cached'[InstanceOf[x]][t] = groups[t]
                BY <1>0, <2>0, <2>2 DEF OInv
            <4> QED
                BY <2>0, <4>1 DEF View
        <3>3. Warm(InstanceOf[x]) => Warm(InstanceOf[x])'
            <4>1. \A t \in Streams : cached[InstanceOf[x]][t] # NotCached =>
                                          cached'[InstanceOf[x]][t] # NotCached
                BY <1>0, <2>0, BoundsAssumption DEF OInv
            <4> QED
                BY <3>2, <4>1 DEF Warm
        <3>4. SameView(InstanceOf[x])
            BY <3>2, <3>3, SeenSame
        <3> QED
            BY <1>0, <2>0, <3>1, <3>4, KeptOk DEF Kept, Calm
    <2> QED
        BY <2>1, <2>2
<1> QED
    BY <1>2, <1>3, <1>4

LEMMA RegisterZip ==
    ASSUME OInv, ZInv, NEW i \in Instances, NEW a \in Names, NEW n \in 0..MaxVotes,
           RegisterResult(i, a, n)
    PROVE  ZInv'
<1> SUFFICES ASSUME NEW x \in Requests
             PROVE  ZipOk(x)'
    BY DEF ZInv
<1>1. req'[x] = [req[x] EXCEPT !.disturbed = TRUE] /\ req[x] \in ReqRecords
    BY DEF RegisterResult, Disturb, OInv, WellReqs
<1> QED
    BY <1>1 DEF ZipOk, Zip, ReqRecords

(* Every document is numbered as the one before it was, ...                 *)
LEMMA NumberZip ==
    ASSUME OInv, ZInv, NEW r \in Requests, NumberDocument(r)
    PROVE  ZipOk(r)'
<1>1. PICK i : i = InstanceOf[r]
    OBVIOUS
<1>2. PICK x : x = req[r]
    OBVIOUS
<1>3. i \in Instances /\ x \in ReqRecords /\ req \in [Requests -> ReqRecords] /\ ZipOk(r)
    BY <1>1, <1>2, StreamsAssumption DEF OInv, WellReqs, ZInv
<1>4. x.pc = "number" /\ LookUp(i, Listed) /\ UNCHANGED <<main, known, groups>>
    BY <1>1, <1>2 DEF NumberDocument
<1>5. PICK q \in Numberings(View(i), known[i]) :
          req' = [req EXCEPT ![r].order = q, ![r].numbered = Numbered(q, View(i), known[i]),
                      ![r].pc = IF Numbered(q, View(i), known[i]) = On(q) \/ req[r].op = "draft"
                                THEN "render" ELSE "record"]
    BY <1>1 DEF NumberDocument
<1>6. PICK n : n = Numbered(q, View(i), known[i])
    OBVIOUS
<1>7. PICK p : p = IF n = On(q) \/ x.op = "draft" THEN "render" ELSE "record"
    OBVIOUS
<1>8. PICK y : y = req'[r]
    OBVIOUS
<1>9. req' = [req EXCEPT ![r].order = q, ![r].numbered = n, ![r].pc = p]
    BY <1>2, <1>5, <1>6, <1>7
<1>10. /\ y.order = q /\ y.numbered = n /\ y.pc = p
       /\ y.docs = x.docs /\ y.op = x.op /\ y.disturbed = x.disturbed
    BY <1>2, <1>3, <1>8, <1>9 DEF ReqRecords
<1> SUFFICES ASSUME Zip(y)
             PROVE  y.pc \in {"render", "record"} /\ Going(i, y)'
    BY <1>1, <1>8 DEF ZipOk
<1>11. Zip(x) /\ Going(i, x)
    BY <1>1, <1>2, <1>3, <1>4, <1>10 DEF Zip, ZipOk
<1>12. View(i)' = View(i) /\ Warm(i)'
    BY <1>3, <1>4, LookUpView, LookUpWarms
<1>13. Current(i, q)' /\ (n = On(q) => Settled(i, q)')
    BY <1>4, <1>5, <1>6, <1>12 DEF Current, Settled
<1>14. \A j \in DOMAIN x.docs : Made(i, j, x.docs[j])'
    BY <1>4, <1>11, <1>12 DEF Going, Made, Settled, Current
<1>15. x.docs # << >> => n = On(q)
    <2> SUFFICES ASSUME x.docs # << >>
                 PROVE  n = On(q)
        OBVIOUS
    <2>1. x.docs \in Seq(DocumentRecords)
        BY <1>3 DEF ReqRecords
    <2>2. 1 \in DOMAIN x.docs
        BY <2>1
    <2>3. PICK d : d = x.docs[1].order
        OBVIOUS
    <2>4. d \in Numberings(View(i), known[i]) /\ Numbered(d, View(i), known[i]) = On(d)
        BY <1>11, <2>2, <2>3 DEF Going, Made, Settled, Current
    <2>5. On(d) = On(q)
        BY <1>5, <2>4, NumberingRange
    <2>6. Numbered(d, View(i), known[i]) = n
        BY <1>6, <2>5 DEF Numbered
    <2> QED
        BY <2>4, <2>5, <2>6
<1>16. p \in {"render", "record"} /\ (p = "render" => n = On(q)) /\ (p = "record" => n # On(q))
    BY <1>7, <1>11 DEF Zip
<1>17. (known[i] = main)'
    BY <1>4, <1>11 DEF Going
<1>18. Going(i, y)'
    BY <1>10, <1>12, <1>13, <1>14, <1>15, <1>16, <1>17 DEF Going
<1> QED
    BY <1>10, <1>11, <1>16, <1>18

(* ... also after it has been recorded, ...                                 *)
LEMMA RecordZip ==
    ASSUME OInv, ZInv, NEW r \in Requests, RecordOrder(r)
    PROVE  ZipOk(r)'
<1>1. PICK i : i = InstanceOf[r]
    OBVIOUS
<1>2. PICK x : x = req[r]
    OBVIOUS
<1>3. i \in Instances /\ x \in ReqRecords /\ req \in [Requests -> ReqRecords] /\ ZipOk(r)
    BY <1>1, <1>2, StreamsAssumption DEF OInv, WellReqs, ZInv
<1>4. /\ x.pc = "record" /\ UNCHANGED <<groups, cached>>
      /\ main' = [order |-> x.order, votes |-> main.votes, events |-> main.events + 1]
      /\ known' = [known EXCEPT ![i] = main']
    BY <1>1, <1>2 DEF RecordOrder, AppendMain
<1>5. PICK y : y = req'[r]
    OBVIOUS
<1>6. y = [x EXCEPT !.pc = "render", !.numbered = On(x.order)]
    BY <1>2, <1>3, <1>5 DEF RecordOrder, Disturb
<1>7. /\ y.order = x.order /\ y.numbered = On(x.order) /\ y.pc = "render"
      /\ y.docs = x.docs /\ y.op = x.op /\ y.disturbed = x.disturbed
    BY <1>3, <1>6 DEF ReqRecords
<1> SUFFICES ASSUME Zip(y)
             PROVE  Going(i, y)'
    BY <1>1, <1>5, <1>7 DEF ZipOk
<1>8. Zip(x) /\ Going(i, x)
    BY <1>1, <1>2, <1>3, <1>4, <1>7 DEF Zip, ZipOk
<1>9. View(i)' = View(i) /\ Warm(i)'
    BY <1>4, <1>8 DEF View, Warm, Going
<1>10. known'[i] = main' /\ known'[i].order = x.order
    BY <1>3, <1>4 DEF OInv
<1>11. x.docs = << >> /\ x.order \in Numberings(View(i), known[i])
    BY <1>4, <1>8 DEF Going, Current
<1>12. PICK k : k = known'[i]
    OBVIOUS
<1>13. x.order \in Numberings(View(i), k) /\ Numbered(x.order, View(i), k) = On(x.order)
    BY <1>10, <1>11, <1>12, RecordedIsNumbering
<1>14. Settled(i, x.order)'
    BY <1>9, <1>12, <1>13 DEF Settled, Current
<1>15. DOMAIN << >> = {}
    OBVIOUS
<1> QED
    BY <1>7, <1>8, <1>9, <1>10, <1>11, <1>14, <1>15 DEF Going

(* ... and rendered that way.                                               *)
LEMMA RenderZip ==
    ASSUME OInv, ZInv, NEW r \in Requests, Render(r)
    PROVE  ZipOk(r)'
<1>1. PICK i : i = InstanceOf[r]
    OBVIOUS
<1>2. PICK x : x = req[r]
    OBVIOUS
<1>3. i \in Instances /\ x \in ReqRecords /\ req \in [Requests -> ReqRecords] /\ ZipOk(r)
    BY <1>1, <1>2, StreamsAssumption DEF OInv, WellReqs, ZInv
<1>4. PICK S : LookUp(i, S)
    BY <1>1 DEF Render
<1>5. x.pc = "render" /\ UNCHANGED <<main, known, groups>>
    BY <1>2 DEF Render
<1>6. CASE Refuses(r, View(i))
    <2>1. req'[r] = NoReq
        BY <1>1, <1>3, <1>6 DEF Render, Ended
    <2> QED
        BY <1>3, <2>1, NoReqNoZip, KeptOk
<1>7. CASE ~Refuses(r, View(i))
    <2>a. PICK n : n = IF x.op = "draft" THEN Documents ELSE Len(x.docs) + 1
        OBVIOUS
    <2>b. PICK u : u = Shown(n, x.order, View(i))
        OBVIOUS
    <2>1. PICK d : d = [order |-> x.order, numbered |-> x.numbered, shown |-> u]
        OBVIOUS
    <2>2. PICK docs : docs = Append(x.docs, d)
        OBVIOUS
    <2>3. PICK p : p = IF x.op = "draft" \/ Len(docs) = Documents THEN "idle" ELSE "number"
        OBVIOUS
    <2>4. PICK y : y = req'[r]
        OBVIOUS
    <2>5. req' = [req EXCEPT ![r].docs = docs, ![r].pc = p]
        BY <1>1, <1>2, <1>7, <2>a, <2>b, <2>1, <2>2, <2>3 DEF Render
    <2>6. /\ y.docs = docs /\ y.pc = p /\ y.order = x.order /\ y.numbered = x.numbered
          /\ y.op = x.op /\ y.disturbed = x.disturbed
        BY <1>2, <1>3, <2>4, <2>5 DEF ReqRecords
    <2>7. p \in {"idle", "number"}
        BY <2>3
    <2> SUFFICES ASSUME Zip(y)
                 PROVE  Going(i, y)'
        BY <1>1, <2>4, <2>6, <2>7 DEF ZipOk
    <2>8. Zip(x) /\ Going(i, x)
        BY <1>1, <1>2, <1>3, <1>5, <2>6 DEF Zip, ZipOk
    <2>9. View(i)' = View(i) /\ Warm(i)'
        BY <1>3, <1>4, <1>5, <2>8, LookUpView DEF Going
    <2>10. Settled(i, x.order) /\ x.numbered = On(x.order)
        BY <1>5, <2>8 DEF Going
    <2>11. x.docs \in Seq(DocumentRecords)
        BY <1>3 DEF ReqRecords
    <2>12. n = Len(x.docs) + 1
        BY <2>a, <2>8 DEF Zip
    <2>13. d.order = x.order /\ d.numbered = On(d.order) /\ d.shown = Shown(n, d.order, View(i))
        BY <2>b, <2>1, <2>10
    <2>14. Made(i, n, d)
        BY <2>10, <2>13 DEF Made
    <2>15. /\ DOMAIN docs = 1..n /\ DOMAIN x.docs = 1..(n - 1) /\ n \in Nat /\ docs[n] = d
           /\ \A j \in 1..(n - 1) : docs[j] = x.docs[j]
        <3>1. x.docs \in Seq(DocumentRecords \cup {d})
            <4>1. \A j \in DOMAIN x.docs : x.docs[j] \in DocumentRecords \cup {d}
                BY <2>11
            <4> QED
                BY <2>11, <4>1
        <3> QED
            BY <2>2, <2>12, <3>1
    <2>16. \A j \in DOMAIN x.docs : Made(i, j, x.docs[j])
        BY <2>8 DEF Going
    <2>c. \A j \in DOMAIN docs : Made(i, j, docs[j])
        BY <2>14, <2>15, <2>16
    <2>17. \A j \in DOMAIN docs : Made(i, j, docs[j])'
        BY <1>5, <2>9, <2>c DEF Made, Settled, Current
    <2>18. (known[i] = main)'
        BY <1>5, <2>8 DEF Going
    <2>19. Going(i, y)'
        BY <2>6, <2>7, <2>9, <2>17, <2>18 DEF Going
    <2> QED
        BY <2>19
<1> QED
    BY <1>6, <1>7

LEMMA DocumentZip ==
    ASSUME OInv, ZInv, NEW r \in Requests,
           NumberDocument(r) \/ RecordOrder(r) \/ Render(r)
    PROVE  ZInv'
<1> SUFFICES ASSUME NEW x \in Requests
             PROVE  ZipOk(x)'
    BY DEF ZInv
<1>0. req \in [Requests -> ReqRecords] /\ ZipOk(x)
    BY DEF OInv, WellReqs, ZInv
<1>1. CASE x = r
    BY <1>1, NumberZip, RecordZip, RenderZip
<1>2. CASE x # r /\ RecordOrder(r)
    <2>1. req'[x] = [req[x] EXCEPT !.disturbed = TRUE]
        BY <1>0, <1>2 DEF RecordOrder, Disturb
    <2>2. ~Zip(req'[x])
        BY <1>0, <2>1 DEF Zip, ReqRecords
    <2> QED
        BY <1>0, <2>2, KeptOk
<1>3. CASE x # r /\ NumberDocument(r)
    <2>1. req'[x] = req[x]
        BY <1>0, <1>3 DEF NumberDocument
    <2> QED
        BY <1>3, <2>1, LookUpKeeps DEF NumberDocument
<1>4. CASE x # r /\ Render(r)
    <2>1. req'[x] = req[x]
        BY <1>0, <1>4 DEF Render, Ended
    <2>2. PICK S : LookUp(InstanceOf[r], S) /\ UNCHANGED <<main, known, groups>>
        BY <1>4 DEF Render
    <2> QED
        BY <2>1, <2>2, LookUpKeeps
<1> QED
    BY <1>1, <1>2, <1>3, <1>4

LEMMA ZInvInit == ASSUME Init PROVE ZInv
<1>1. \A r \in Requests : req[r] = NoReq
    BY DEF Init
<1> QED
    BY <1>1, NoReqNoZip DEF ZInv, ZipOk

LEMMA ZInvStep ==
    ASSUME OInv, ZInv, [Next]_vars
    PROVE  ZInv'
<1>1. CASE Next
    BY <1>1, ArriveZip, OrderZip, DocumentZip, DeletionZip, WorkZip, RegisterZip DEF Next
<1>2. CASE UNCHANGED vars
    <2>1. ASSUME NEW x \in Requests
          PROVE  ZipOk(x)'
        <3>1. req'[x] = req[x] /\ Calm(InstanceOf[x])
            BY <1>2 DEF vars, Calm, SameView, Warm, View
        <3> QED
            BY <3>1, KeptOk DEF Kept, ZInv
    <2> QED
        BY <2>1 DEF ZInv
<1> QED
    BY <1>1, <1>2

(* The documents that a download has made agree.                            *)
LEMMA MadeAgree ==
    ASSUME OInv, NEW r \in Requests, NEW docs, docs \in Seq(DocumentRecords),
           Going(InstanceOf[r], req[r]), docs = req[r].docs,
           NEW j \in DOMAIN docs, NEW k \in DOMAIN docs
    PROVE  /\ docs[j].numbered = On(docs[j].order)
           /\ docs[1].shown \subseteq docs[j].shown
           /\ j = 4 => docs[j].shown = docs[1].shown
           /\ \A s \in docs[j].shown \cap docs[k].shown :
                 \/ PlaceOf(docs[j].order, s) = PlaceOf(docs[k].order, s)
                 \/ \E t \in On(docs[j].order) \ {s} : Tied(InstanceOf[r], s, t)
<1>1. PICK i : i = InstanceOf[r]
    OBVIOUS
<1>2. PICK v : v = View(i)
    OBVIOUS
<1>3. i \in Instances /\ v \in [Streams -> GroupRecords] /\ known[i] = main
    BY <1>1, <1>2, StreamsAssumption, ViewType DEF Going
<1>4. ASSUME NEW l \in DOMAIN docs
      PROVE  /\ docs[l].order \in Numberings(v, main) /\ On(docs[l].order) = Eligible(v)
             /\ docs[l].numbered = On(docs[l].order) /\ docs[l].shown = Shown(l, docs[l].order, v)
    <2>1. Made(i, l, docs[l])
        BY <1>1 DEF Going
    <2>2. docs[l].order \in Numberings(v, main)
        BY <1>2, <1>3, <2>1 DEF Made, Settled, Current
    <2> QED
        BY <1>2, <2>1, <2>2, NumberingRange DEF Made
<1>5. 1 \in DOMAIN docs
    OBVIOUS
<1>6. \A s \in Eligible(v) : v[s].manned > 0 => v[s].districts > 0
    BY <1>3, BoundsAssumption DEF Eligible, GroupRecords
<1>7. docs[1].shown = {s \in Eligible(v) : v[s].manned > 0}
    BY <1>4, <1>5 DEF Shown
<1>8. docs[1].shown \subseteq docs[j].shown /\ (j = 4 => docs[j].shown = docs[1].shown)
    BY <1>4, <1>6, <1>7 DEF Shown
<1>9. ASSUME NEW s \in docs[j].shown \cap docs[k].shown
      PROVE  \/ PlaceOf(docs[j].order, s) = PlaceOf(docs[k].order, s)
             \/ \E t \in On(docs[j].order) \ {s} : Tied(i, s, t)
    <2>1. s \in Eligible(v)
        BY <1>4 DEF Shown
    <2>2. CASE Untied(v, main, s)
        BY <1>4, <2>1, <2>2, SameNumber
    <2>3. CASE ~Untied(v, main, s)
        BY <1>2, <1>4, <2>3 DEF Untied, Tied
    <2> QED
        BY <2>2, <2>3
<1> QED
    BY <1>1, <1>4, <1>8, <1>9

(* The documents of one download agree: none leaves a number blank, a group *)
(* has the same number in any two that show it, and the lists of the EML    *)
(* files are in all of them, although final_files numbers each of them anew *)
(* and the first may record the order.  Groups that tie in everything may   *)
(* change places, since ListNumbering::new leaves them as the database      *)
(* happens to list them.  And nobody else records, imports or registers     *)
(* meanwhile, or changes a group in this process, or has it caught up: what *)
(* other processes delete or decide is not seen before that.                *)
THEOREM UndisturbedDocumentsAgree == Spec => []UndisturbedZipAgrees
<1>1. OInv /\ ZInv /\ [Next]_vars => ZInv'
    BY ZInvStep
<1>2. ASSUME OInv, ZInv
      PROVE  UndisturbedZipAgrees
    <2> SUFFICES ASSUME NEW r \in Requests, req[r].op = "zip", ~req[r].disturbed
                 PROVE  LET docs == req[r].docs IN
                        \A j, k \in DOMAIN docs :
                            /\ docs[j].numbered = On(docs[j].order)
                            /\ docs[1].shown \subseteq docs[j].shown
                            /\ j = 4 => docs[j].shown = docs[1].shown
                            /\ \A s \in docs[j].shown \cap docs[k].shown :
                                  \/ PlaceOf(docs[j].order, s) = PlaceOf(docs[k].order, s)
                                  \/ \E t \in On(docs[j].order) \ {s} : Tied(InstanceOf[r], s, t)
        BY DEF UndisturbedZipAgrees
    <2>1. Going(InstanceOf[r], req[r])
        BY <1>2 DEF ZInv, ZipOk, Zip
    <2>2. req[r].docs \in Seq(DocumentRecords)
        BY <1>2 DEF OInv, WellReqs, ReqRecords
    <2> QED
        BY <1>2, <2>1, <2>2, MadeAgree
<1>3. Init => ZInv
    BY ZInvInit
<1> QED
    BY <1>1, <1>2, <1>3, OInvAlways, PTL DEF Spec
=============================================================================
