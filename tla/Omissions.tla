------------------------------ MODULE Omissions ------------------------------
(***************************************************************************)
(* The omissions ("verzuimen") of one imported political group: reporting  *)
(* them in the examination, deciding on them in the recovery phase, and    *)
(* what the unresolved ones scrap.                                         *)
(*                                                                         *)
(* The projection is csb_data/mod.rs: a decision on one part (a district   *)
(* or a list) splits that part off, and parts decided alike are read as    *)
(* one omission again.  The handlers are recovery/pages/set_status.rs and  *)
(* examination/actions.rs: they decide on a copy of the omission, and      *)
(* append without a condition, so the projection may have moved on.  One   *)
(* append is atomic: that is what EventStore shows.                        *)
(*                                                                         *)
(* The parts of an omission are a set: their order is presentation.        *)
(***************************************************************************)
EXTENDS Naturals, FiniteSets, FiniteSetsExt

CONSTANTS Districts,    \* the election's electoral districts
          Lists,        \* candidate list ids
          Persons,      \* candidates
          Texts,        \* title, description and help text, as one
          Requests,     \* committee members' requests
          Submitted,    \* Submitted[l]: the districts of imported list l
          MaxIds,       \* bound: omission ids ever issued
          Scenes,       \* starting points and bounds, see ScenesAssumption
          NoPerson, NoPart, NoOmission

Parts == Districts \cup Lists
Scoped == {"support", "list", "candidate"}
Statuses == {"Pending", "Recovered", "NotRecovered"}
Ids == 1..MaxIds

(* The parts a kind of omission is about.                                   *)
PartsOf(kind) ==
    CASE kind = "support" -> Districts
      [] kind \in {"list", "candidate"} -> Lists
      [] OTHER -> {}
Categories ==
    {c \in [kind : Scoped \cup {"group", "appellation"},
            subject : Persons \cup {NoPerson},
            parts : SUBSET Parts] : c.parts \subseteq PartsOf(c.kind)}
OmissionRecords ==
    [category : Categories, text : Texts, recoverable : BOOLEAN, status : Statuses]

ASSUME PartsAssumption == Districts \cap Lists = {} /\ NoPart \notin Parts
ASSUME SubmittedAssumption == Submitted \in [Lists -> SUBSET Districts]
ASSUME BoundsAssumption ==
    MaxIds \in Nat /\ IsFiniteSet(Requests) /\ IsFiniteSet(Parts)
ASSUME ScenesAssumption ==
    \A s \in Scenes :
        \* the omissions the stream starts with
        /\ DOMAIN s.existing \subseteq Ids
        /\ s.existing \in [DOMAIN s.existing -> {o \in OmissionRecords : o.status = "Pending"}]
        \* the categories members report omissions in
        /\ s.reports \subseteq Categories
        \* bound: what paper corrections can make of the lists
        /\ \A lists \in s.papers :
              DOMAIN lists \subseteq Lists /\ lists \in [DOMAIN lists -> SUBSET Districts]
        \* bounds: requests at once, ids issued, events after the import
        /\ s.members \in Nat /\ s.ids \in 0 .. MaxIds /\ s.events \in Nat

VARIABLES
    omissions,   \* CsbStoreData::omissions, by id
    paper,       \* what the paper corrected data holds: the lists, and is it blank
    scrapped,    \* CsbStoreData::scrapped
    issued,      \* the ids that were ever given out
    events,      \* how many events the stream got since the import
    req,         \* the members' requests
    scene        \* the starting point and the bounds of this behaviour

vars == <<omissions, paper, scrapped, issued, events, req, scene>>

-----------------------------------------------------------------------------
(* structs/csb/omission: what a category covers, and splitting and merging  *)
(* it.  A category with kind "support" and no parts covers every district.  *)

CoveredParts(category) ==
    IF category.kind = "support" /\ category.parts = {}
    THEN Districts ELSE category.parts

HasSameScope(mine, theirs) ==
    /\ mine.kind \in Scoped
    /\ mine.kind = theirs.kind
    /\ mine.subject = theirs.subject

HasSameDetails(one, other) ==
    /\ one.text = other.text
    /\ one.recoverable = other.recoverable
    /\ HasSameScope(one.category, other.category)

\* mutant: the holder does not take the parts over
MergedWithMine(mine, theirs) == mine
MergedWith(mine, theirs) ==
    [mine EXCEPT !.parts =
        IF mine.kind = "support" /\ (mine.parts = {} \/ theirs.parts = {})
        THEN {} ELSE mine.parts \cup theirs.parts]

(* OmissionCategory::decide: does a decision on part land here, and is the  *)
(* part all there is.                                                       *)
Decides(category, part) == part \in category.parts
DecidesWhole(category, part) == category.parts = {part}

IsActionable(o) == o.recoverable
IsPending(o) == o.recoverable /\ o.status = "Pending"
IsUnresolved(o) == ~o.recoverable \/ o.status = "NotRecovered"

(* Omission::decision_count: a decision on each part, or on the whole.       *)
Asked(o) ==
    IF IsActionable(o) /\ CoveredParts(o.category) # {}
    THEN CoveredParts(o.category) ELSE {NoPart}

(* RecoveryProgress, over the actionable omissions.                         *)
Questions(oms, ids) ==
    {x \in ids \X (Parts \cup {NoPart}) : x[2] \in Asked(oms[x[1]])}
Decisions(oms, ids) == Cardinality(Questions(oms, ids))
TotalDecisions(oms) == Decisions(oms, {i \in DOMAIN oms : IsActionable(oms[i])})
PendingDecisions(oms) == Decisions(oms, {i \in DOMAIN oms : IsPending(oms[i])})

-----------------------------------------------------------------------------
(* csb_data/mod.rs: what an event does to the omissions.                    *)

Put(oms, id, o) == [i \in DOMAIN oms \cup {id} |-> IF i = id THEN o ELSE oms[i]]
Remove(oms, id) == [i \in DOMAIN oms \ {id} |-> oms[i]]

UpdateOmission(oms, id, o) == IF id \in DOMAIN oms THEN Put(oms, id, o) ELSE oms

\* mutant: a decided omission is only merged into older ones
HoldersOlder(oms, id) ==
    {h \in DOMAIN oms : /\ h < id
                        /\ oms[h].status = oms[id].status
                        /\ HasSameDetails(oms[h], oms[id])}
Holders(oms, id) ==
    {h \in DOMAIN oms \ {id} : /\ oms[h].status = oms[id].status
                               /\ HasSameDetails(oms[h], oms[id])}

(* merge_omission: the holder with the least id takes the parts over.       *)
MergeOmission(oms, id) ==
    IF oms[id].status = "Pending" \/ Holders(oms, id) = {} THEN oms
    ELSE LET holder == Min(Holders(oms, id))
             merged == MergedWith(oms[holder].category, oms[id].category)
         IN  Remove(Put(oms, holder, [oms[holder] EXCEPT !.category = merged]), id)

SetOmissionStatus(oms, id, status) ==
    IF id \in DOMAIN oms
    THEN MergeOmission(Put(oms, id, [oms[id] EXCEPT !.status = status]), id)
    ELSE oms

(* Split part off omission id: a copy under a new id covers it from now on. *)
\* mutant: the parts that remain wait for a decision again
SplitOffReset(oms, id, part, split) ==
    Put(Put(oms, split, [oms[id] EXCEPT !.category.parts = {part}]),
        id, [oms[id] EXCEPT !.category.parts = @ \ {part}, !.status = "Pending"])
SplitOff(oms, id, part, split) ==
    Put(Put(oms, split, [oms[id] EXCEPT !.category.parts = {part}]),
        id, [oms[id] EXCEPT !.category.parts = @ \ {part}])

\* mutant: the decision on a part is recorded for all of the omission
SetOmissionPartWhole(oms, id, part, status, split) ==
    IF id \in DOMAIN oms /\ Decides(oms[id].category, part)
    THEN SetOmissionStatus(oms, id, status) ELSE oms
\* mutant: the decision is recorded for the parts that remain
SetOmissionPartRest(oms, id, part, status, split) ==
    IF id \notin DOMAIN oms \/ ~Decides(oms[id].category, part) THEN oms
    ELSE IF DecidesWhole(oms[id].category, part)
    THEN SetOmissionStatus(oms, id, status)
    ELSE SetOmissionStatus(SplitOff(oms, id, part, split), id, status)
SetOmissionPartStatus(oms, id, part, status, split) ==
    IF id \notin DOMAIN oms \/ ~Decides(oms[id].category, part) THEN oms
    ELSE IF DecidesWhole(oms[id].category, part)
    THEN SetOmissionStatus(oms, id, status)
    ELSE SetOmissionStatus(SplitOff(oms, id, part, split), split, status)

-----------------------------------------------------------------------------
(* csb_data/scrapped.rs: what the unresolved omissions scrap.               *)

\* mutant: a list goes with its first scrapped district
DeriveAny(data, oms) ==
    LET unresolved(kind) ==
            {i \in DOMAIN oms : IsUnresolved(oms[i]) /\ oms[i].category.kind = kind}
        parts(kind) == UNION {oms[i].category.parts : i \in unresolved(kind)}
        all == \E i \in unresolved("support") : oms[i].category.parts = {}
        districts == IF all THEN Districts ELSE parts("support")
    IN  [appellation |-> IF data.blank THEN {} ELSE unresolved("appellation"),
         districts |-> districts,
         whole |-> parts("list"),
         allDistricts |-> {l \in DOMAIN data.lists : data.lists[l] \cap districts # {}},
         candidates |-> UNION {{<<l, oms[i].category.subject>> : l \in oms[i].category.parts}
                               : i \in unresolved("candidate")}]
Derive(data, oms) ==
    LET unresolved(kind) ==
            {i \in DOMAIN oms : IsUnresolved(oms[i]) /\ oms[i].category.kind = kind}
        parts(kind) == UNION {oms[i].category.parts : i \in unresolved(kind)}
        all == \E i \in unresolved("support") : oms[i].category.parts = {}
        districts == IF all THEN Districts ELSE parts("support")
        gone(l) == data.lists[l] \cap districts
    IN  [appellation |-> IF data.blank THEN {} ELSE unresolved("appellation"),
         districts |-> districts,
         whole |-> parts("list"),
         allDistricts |-> {l \in DOMAIN data.lists :
                              gone(l) # {} /\ gone(l) = data.lists[l]},
         candidates |-> UNION {{<<l, oms[i].category.subject>> : l \in oms[i].category.parts}
                               : i \in unresolved("candidate")}]

IsListScrapped(l) == l \in scrapped.whole \cup scrapped.allDistricts
IsCandidateScrapped(l, p) == <<l, p>> \in scrapped.candidates

-----------------------------------------------------------------------------
(* The requests of the committee's members.                                 *)

PCs == {"idle", "open", "spelled", "recorded"}
ReqRecords ==
    [pc : PCs,
     op : {"assess", "delete"},
     id : Ids \cup {NoOmission},       \* the omission in the request's path
     copy : OmissionRecords \cup {NoOmission},  \* the omission as it was read
     part : Parts \cup {NoPart},       \* OmissionStatusForm::part
     status : Statuses,
     clean : BOOLEAN]                  \* history: no other event since the read
NoRequest ==
    [pc |-> "idle", op |-> "assess", id |-> NoOmission, copy |-> NoOmission,
     part |-> NoPart, status |-> "Pending", clean |-> TRUE]

Init ==
    /\ scene \in Scenes
    /\ omissions = scene.existing
    /\ issued = DOMAIN scene.existing
    /\ paper = [blank |-> FALSE, lists |-> Submitted]
    /\ scrapped = Derive(paper, omissions)
    /\ events = 0
    /\ req = [r \in Requests |-> NoRequest]

(* CsbStoreData::apply: the event's effect, then refresh_scrapped.  Whoever *)
(* else has read the projection before acts on an old copy from now on.     *)
Apply(r, oms, data, x) ==
    /\ events < scene.events
    /\ events' = events + 1
    /\ omissions' = oms
    /\ paper' = data
    /\ scrapped' = Derive(data, oms)
    /\ req' = [q \in Requests |-> IF q = r THEN x
                                  ELSE [req[q] EXCEPT !.clean = @ /\ req[q].pc = "idle"]]
    /\ UNCHANGED scene
Step(r, x) ==
    /\ req' = [req EXCEPT ![r] = x]
    /\ UNCHANGED <<omissions, paper, scrapped, issued, events, scene>>

(* add_omission_submit: a new omission, in a category the form offers; a    *)
(* blank list cannot get an appellation omission.                           *)
AddOmission(r, id, category, text, recoverable) ==
    /\ req[r].pc = "idle"
    /\ id \notin issued
    /\ category.kind = "appellation" => ~paper.blank
    /\ issued' = issued \cup {id}
    /\ Apply(r, Put(omissions, id, [category |-> category, text |-> text,
                                    recoverable |-> recoverable, status |-> "Pending"]),
             paper, NoRequest)

(* A paper correction that the scrapping depends on: the group's lists and  *)
(* their districts, or the list designation.                                *)
PaperCorrect(r, data) ==
    /\ req[r].pc = "idle"
    /\ data # paper
    /\ Apply(r, omissions, data, NoRequest)
    /\ UNCHANGED issued

(* set_status and delete_omission: get_omission on a snapshot.              *)
Open(r, id, op, part, status) ==
    /\ req[r].pc = "idle"
    /\ id \in DOMAIN omissions
    /\ Step(r, [pc |-> "open", op |-> op, id |-> id, copy |-> omissions[id],
                part |-> part, status |-> status, clean |-> TRUE])

MayAssess(x) ==
    /\ IsActionable(x.copy)
    /\ x.part # NoPart => x.part \in CoveredParts(x.copy.category)
(* with_explicit_districts returns Some                                     *)
NeedsSpelling(x) ==
    x.part # NoPart /\ x.copy.category.kind = "support" /\ x.copy.category.parts = {}

(* "an irreparable omission cannot be assessed", or the part is not its own *)
Refuse(r) ==
    /\ req[r].pc = "open" /\ req[r].op = "assess"
    /\ ~MayAssess(req[r])
    /\ Step(r, NoRequest)

(* set_part_status on a legacy omission: first an UpdateOmission with the   *)
(* copy that was read, the districts spelled out.                           *)
SpellOut(r) ==
    /\ req[r].pc = "open" /\ req[r].op = "assess"
    /\ MayAssess(req[r]) /\ NeedsSpelling(req[r])
    /\ Apply(r, UpdateOmission(omissions, req[r].id,
                    [req[r].copy EXCEPT !.category.parts = Districts]),
             paper, [req[r] EXCEPT !.pc = "spelled"])
    /\ UNCHANGED issued

ReadyToRecord(r) ==
    /\ req[r].op = "assess"
    /\ \/ req[r].pc = "open" /\ MayAssess(req[r]) /\ ~NeedsSpelling(req[r])
       \/ req[r].pc = "spelled"

(* SetOmissionStatus: the decision is about all of the omission.            *)
RecordWhole(r) ==
    /\ ReadyToRecord(r) /\ req[r].part = NoPart
    /\ Apply(r, SetOmissionStatus(omissions, req[r].id, req[r].status), paper,
             [req[r] EXCEPT !.pc = "recorded"])
    /\ UNCHANGED issued

(* SetOmissionPartStatus; split_off_id hashes the omission's id and the     *)
(* event's, so the new id can lie anywhere in the order of the ids.         *)
RecordPart(r, split) ==
    /\ ReadyToRecord(r) /\ req[r].part # NoPart
    /\ split \notin issued
    /\ Apply(r, SetOmissionPartStatus(omissions, req[r].id, req[r].part,
                                      req[r].status, split),
             paper, [req[r] EXCEPT !.pc = "recorded"])
    /\ issued' = issued \cup (DOMAIN omissions' \ DOMAIN omissions)

DeleteOmission(r) ==
    /\ req[r].pc = "open" /\ req[r].op = "delete"
    /\ Apply(r, Remove(omissions, req[r].id), paper, NoRequest)
    /\ UNCHANGED issued

(* decided_omission: the omission that the answer highlights.               *)
HoldsDecision(x, o) ==
    o.status = x.status /\ (x.part # NoPart => x.part \in CoveredParts(o.category))
DecidedOmission(x) ==
    IF x.id \in DOMAIN omissions /\ HoldsDecision(x, omissions[x.id]) THEN {x.id}
    ELSE {i \in DOMAIN omissions : /\ HasSameDetails(omissions[i], x.copy)
                                   /\ HoldsDecision(x, omissions[i])}

Answer(r) ==
    /\ req[r].pc = "recorded"
    /\ Step(r, NoRequest)

(* The controls of the recovery pages: the omission as a whole, a district  *)
(* for declarations of support, a list otherwise.  The page may be old, so  *)
(* the part need not be one the omission still covers.                      *)
Controls(category) == {NoPart} \cup PartsOf(category.kind)
FormValues == {"Recovered", "NotRecovered"}    \* OmissionStatusFormValue

MemberStep(r) ==
    \/ \E id \in 1 .. scene.ids, c \in scene.reports, t \in Texts, rec \in BOOLEAN :
           AddOmission(r, id, c, t, rec)
    \/ \E lists \in scene.papers, blank \in BOOLEAN :
           PaperCorrect(r, [blank |-> blank, lists |-> lists])
    \/ \E id \in DOMAIN omissions, s \in FormValues :
       \E p \in Controls(omissions[id].category) : Open(r, id, "assess", p, s)
    \/ \E id \in DOMAIN omissions : Open(r, id, "delete", NoPart, "Pending")
    \/ Refuse(r)
    \/ SpellOut(r)
    \/ RecordWhole(r)
    \/ \E split \in 1 .. scene.ids : RecordPart(r, split)
    \/ DeleteOmission(r)
    \/ Answer(r)

Busy == {r \in Requests : req[r].pc # "idle"}
Next == \E r \in Requests : /\ r \in Busy \/ Cardinality(Busy) < scene.members
                            /\ MemberStep(r)

Spec == Init /\ [][Next]_vars

-----------------------------------------------------------------------------
(* Types.                                                                   *)

TypeOK ==
    /\ DOMAIN omissions \subseteq issued
    /\ issued \subseteq Ids
    /\ omissions \in [DOMAIN omissions -> OmissionRecords]
    /\ paper.blank \in BOOLEAN
    /\ DOMAIN paper.lists \subseteq Lists
    /\ paper.lists \in [DOMAIN paper.lists -> SUBSET Districts]
    /\ events \in 0 .. scene.events /\ scene \in Scenes
    /\ req \in [Requests -> ReqRecords]

(* Parts decided the same way are read as one omission: no two omissions    *)
(* with the same details hold the same decision, however the members'       *)
(* decisions split and merged them (merge_omission).                        *)
DecidedAlikeIsOne ==
    \A i, j \in DOMAIN omissions :
        /\ omissions[i].status # "Pending"
        /\ omissions[i].status = omissions[j].status
        /\ HasSameDetails(omissions[i], omissions[j])
        => i = j

(* A member's decision, when nothing else was recorded since they read the  *)
(* omission, is held by the omission the answer highlights                  *)
(* (decided_omission finds one, whatever was split off or merged).          *)
UndisturbedDecisionHolds ==
    \A r \in Requests :
        req[r].pc = "recorded" /\ req[r].clean => DecidedOmission(req[r]) # {}

(* What the pages and models show as scrapped follows from the decisions:   *)
(* a list is gone exactly when an unresolved omission is about it, or it    *)
(* was submitted somewhere and unresolved declarations of support cover all *)
(* of its districts; a candidate exactly when an unresolved omission is     *)
(* about that candidate on that list (Scrapped::derive after every event).  *)
Unresolved(kind, part) ==
    \E i \in DOMAIN omissions : /\ IsUnresolved(omissions[i])
                                /\ omissions[i].category.kind = kind
                                /\ part \in CoveredParts(omissions[i].category)
ScrappedFollowsDecisions ==
    \A l \in Lists :
        /\ IsListScrapped(l) <=>
               \/ Unresolved("list", l)
               \/ /\ l \in DOMAIN paper.lists
                  /\ paper.lists[l] # {}
                  /\ \A d \in paper.lists[l] : Unresolved("support", d)
        /\ \A p \in Persons : IsCandidateScrapped(l, p) <=>
               \E i \in DOMAIN omissions :
                   /\ IsUnresolved(omissions[i])
                   /\ omissions[i].category.kind = "candidate"
                   /\ omissions[i].category.subject = p
                   /\ l \in omissions[i].category.parts

-----------------------------------------------------------------------------
(* What a decision may and may not change.                                  *)

Assesses(r) == SpellOut(r) \/ RecordWhole(r) \/ \E split \in Ids : RecordPart(r, split)

(* An omission's identity to a reader: its texts, severity and subject.     *)
Details(o) == <<o.text, o.recoverable, o.category.kind, o.category.subject>>
Reported(oms) ==
    UNION {{<<Details(oms[i]), p>> : p \in CoveredParts(oms[i].category)} : i \in DOMAIN oms}
Held(oms, details, p) ==
    {oms[i].status : i \in {j \in DOMAIN oms : /\ Details(oms[j]) = details
                                               /\ p \in CoveredParts(oms[j].category)}}

(* Deciding never loses a reported district or list, nor reports one anew:  *)
(* splitting and merging only redistribute the parts over omissions with    *)
(* the same details.  And a decision on one part changes the decision on no *)
(* other: the others "keep waiting for their own decision", or keep theirs. *)
DecisionsIndependent ==
    [][\A r \in Requests : Assesses(r) =>
           /\ Reported(omissions') = Reported(omissions)
           /\ req[r].part # NoPart =>
                 \A report \in Reported(omissions) :
                     \/ report = <<Details(req[r].copy), req[r].part>>
                     \/ Held(omissions', report[1], report[2])
                            = Held(omissions, report[1], report[2])]_vars

(* A decision is never asked for again: recording one adds no decision to   *)
(* the recovery progress, neither to its total nor to the pending ones      *)
(* (Omission::decision_count "keeps the progress stable across a split").   *)
ProgressNeverGrows ==
    [][(\E r \in Requests : Assesses(r)) =>
           /\ TotalDecisions(omissions') <= TotalDecisions(omissions)
           /\ PendingDecisions(omissions') <= PendingDecisions(omissions)]_vars
=============================================================================
