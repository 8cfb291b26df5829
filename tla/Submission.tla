----------------------------- MODULE Submission -----------------------------
(***************************************************************************)
(* What a political group hands in: CandidateLists together with the rest  *)
(* of the group's data (designation, registration, name authorisations,    *)
(* submitters, districts of the lists), the problems that close the        *)
(* download, the documents that are made when it is open, and the          *)
(* registrations of the committee that a group can take its name from.     *)
(*                                                                         *)
(* The data of a person comes down to whether everything is there that the *)
(* documents need: initials, last name, date of birth, place and country.  *)
(***************************************************************************)
EXTENDS CandidateLists

CONSTANTS Districts,       \* the electoral districts, as numbers
          Agents,          \* name authorisation ids
          Substitutes,     \* substitute submitter ids
          MaxSubstitutes,  \* MAX_SUBSTITUTE_SUBMITTERS
          Registrations,   \* ids of the committee's registered groups
          Names,           \* appellations, each with the results that go with it
          NoName, Unbound, Removed,
          StartForm, StartRegistered,
          Scenes           \* bound: what is worked on: "name", "group", "lists"

Groups == [designation : {"none", "standalone", "combined", "blank"},
           registration : Registrations \cup {Unbound},
           appellation : Names \cup {NoName}]
Forms == [group : Groups,
          agents : SUBSET Agents,
          submitter : {"incomplete", "complete"},
          substitutes : SUBSET Substitutes,
          districts : [Lists -> SUBSET Districts],
          complete : SUBSET Persons]
(* Only a list of a party by itself is bound to a registration.             *)
BoundIn(g) == g.registration # Unbound => g.designation = "standalone"

ASSUME SubmissionAssumption ==
    /\ Districts \subseteq Nat \ {0} /\ Districts # {} /\ IsFiniteSet(Lists)
    /\ MaxSubstitutes \in Nat
    /\ NoName \notin Names /\ Removed \notin Names /\ Unbound \notin Registrations
    /\ StartForm \in Forms /\ StartRegistered \in [Registrations -> Names]
    /\ BoundIn(StartForm.group)

VARIABLES scene,        \* which pages are used: fixed
          form,         \* the rest of the projection PgStoreData
          shown,        \* the requests' copies of it
          registered,   \* registered_political_groups of the committee's main stream
          offered,      \* the requests' copies of that (CsbMainStore)
          open,         \* the versions of the stream whose documents can be made
          done          \* history: the last event, and the version it printed
extras == <<scene, form, shown, registered, offered, open, done>>

ElectionDistricts == IF OneDistrict THEN {CHOOSE d \in Districts : \A e \in Districts : d <= e}
                     ELSE Districts

-----------------------------------------------------------------------------
(* AllProblems::find_all, as far as the problems are errors.                *)

Blank(g) == g.designation = "blank"
Combined(g) == g.designation = "combined"

\* mutant: no designation chosen yet is taken for a combined list
SizeProblemCombined(f) == f.group.designation = "standalone" /\ Cardinality(f.agents) > 1
SizeProblem(f) == ~Blank(f.group) /\ ~Combined(f.group) /\ Cardinality(f.agents) > 1
NoAppellation(f) == ~Blank(f.group) /\ f.group.appellation = NoName
GeneralProblems(f) == NoAppellation(f) \/ SizeProblem(f) \/ f.submitter # "complete"

OnSomeList(d) == UNION {On(Candidates(d, l)) : l \in Kept(d)}
(* A candidate who is no longer a person is skipped.                        *)
CandidateProblems(d, f) == \E p \in OnSomeList(d) \cap Alive(d) : p \notin f.complete

DuplicateDistricts(d, f, l) == \E k \in Kept(d) \ {l} : f.districts[k] \cap f.districts[l] # {}
ListProblems(d, f) ==
    \/ Kept(d) = {}
    \/ \E l \in Kept(d) : \/ DuplicateDistricts(d, f, l) \/ f.districts[l] = {}
                          \/ Candidates(d, l) = << >>

Downloadable(d, f) == ~(GeneralProblems(f) \/ CandidateProblems(d, f) \/ ListProblems(d, f))

(* PoliticalGroupSteps: the classes of the steps on the pages, for a group  *)
(* that is past its first visit; "ok" stands for what is not an error.      *)
BasicState(f) == IF NoAppellation(f) THEN "error" ELSE "ok"
AgentsState(f) ==
    IF f.agents = {} THEN "warning" ELSE IF SizeProblem(f) THEN "error" ELSE "ok"
SubmittersState(f) ==
    IF f.submitter # "complete" THEN "error" ELSE IF f.substitutes = {} THEN "info" ELSE "ok"

-----------------------------------------------------------------------------
(* DocumentData::from_store_and_context.                                    *)

(* name_authorisations_with_fill_ins: how many are printed, none on error.  *)
Printed(f) ==
    LET n == Cardinality(f.agents)
    IN  IF Blank(f.group) THEN {0}
        ELSE IF Combined(f.group) THEN {IF n < 2 THEN 2 ELSE n}
        ELSE IF n > 1 THEN {} ELSE {1}
(* DocumentData::new and eml210 for one list succeed.                       *)
Collects(d, f, l) ==
    /\ Readable(d, l)
    /\ On(Candidates(d, l)) \subseteq f.complete
    /\ ~NoAppellation(f) /\ f.submitter = "complete"
    /\ Printed(f) # {}
    /\ f.districts[l] # {}
(* The contest in the EML: the first district, "to avoid collisions".       *)
Contest(f, l) ==
    IF f.districts[l] = ElectionDistricts THEN {0}
    ELSE {CHOOSE x \in f.districts[l] : \A y \in f.districts[l] : x <= y}
(* folder_name: the districts' codes, nothing for a single list.            *)
Folder(d, f, l) == IF Cardinality(Kept(d)) = 1 THEN {} ELSE f.districts[l]
Collected(d, f) ==
    /\ Kept(d) # {}
    /\ \A l \in Kept(d) : Collects(d, f, l)
    /\ \A k, l \in Kept(d) : k # l => Folder(d, f, k) # Folder(d, f, l) /\ Contest(f, k) # Contest(f, l)

-----------------------------------------------------------------------------
(* Both looks at the data: the gate, then the generator.                    *)
Makeable(d, f) == Downloadable(d, f) /\ Collected(d, f)

NoDone == [kind |-> "none", version |-> 0]
SubmissionInit ==
    /\ Init
    /\ scene \in Scenes
    /\ form = StartForm
    /\ shown = [r \in Requests |-> StartForm]
    /\ registered = StartRegistered
    /\ offered = [r \in Requests |-> StartRegistered]
    /\ open = IF Makeable(data, form) THEN {0} ELSE {}
    /\ done = NoDone

(* What a write does besides: f is the rest of the projection after it.     *)
Saved(r, kind, printed, f) ==
    /\ form' = f
    /\ shown' = [shown EXCEPT ![r] = IF req'[r].pc = "idle" THEN StartForm ELSE f]
    /\ offered' = [offered EXCEPT ![r] = IF req'[r].pc = "idle" THEN StartRegistered ELSE @]
    /\ open' = IF Makeable(data', f) THEN open \cup {version'} ELSE open
    /\ done' = [kind |-> kind, version |-> printed]
    /\ UNCHANGED <<scene, registered>>
Change(r, kind, f) == Update(r, "none", data) /\ Saved(r, kind, version, f)

Come(r) ==
    /\ Arrive(r)
    /\ shown' = [shown EXCEPT ![r] = form]
    /\ offered' = [offered EXCEPT ![r] = registered]
    /\ UNCHANGED <<scene, form, registered, open, done>>
Go(r) ==
    /\ Leave(r)
    /\ shown' = [shown EXCEPT ![r] = StartForm]
    /\ offered' = [offered EXCEPT ![r] = StartRegistered]
    /\ UNCHANGED <<scene, form, registered, open, done>>

-----------------------------------------------------------------------------
(* The political group.  A form is saved as the whole PoliticalGroup, with  *)
(* the fields it does not show as this request read them.                   *)

\* mutant: another list type keeps the registration
DesignatedBound(g, kind) == [g EXCEPT !.designation = kind]
Designated(g, kind) ==
    IF g.designation = kind THEN g
    ELSE [g EXCEPT !.designation = kind, !.registration = Unbound]
UpdateListDesignation(r, kind) ==
    Change(r, "designation", [form EXCEPT !.group = Designated(shown[r].group, kind)])

BindRegistration(g, pick) ==
    IF g.designation = "standalone" THEN [g EXCEPT !.registration = pick]
    ELSE IF g.designation = "none" /\ pick # Unbound
         THEN [g EXCEPT !.designation = "standalone", !.registration = pick] ELSE g
(* name: what was entered by hand, or what the picked registration says.    *)
UpdatePoliticalGroup(r, pick, name) ==
    /\ pick # Unbound => name = offered[r][pick]
    /\ Change(r, "information",
              [form EXCEPT !.group =
                  BindRegistration([shown[r].group EXCEPT !.appellation = name], pick)])

CreateNameAuthorisation(r, a) ==
    /\ a \notin form.agents
    /\ Change(r, "other", [form EXCEPT !.agents = @ \cup {a}])
DeleteNameAuthorisation(r, a) ==
    /\ a \in shown[r].agents
    /\ Change(r, "other", [form EXCEPT !.agents = @ \ {a}])

UpdateListSubmitter(r, s) == Change(r, "other", [form EXCEPT !.submitter = s])
SubstituteLimit(f) == Own => Cardinality(f.substitutes) < MaxSubstitutes
CreateSubstituteSubmitter(r, s) ==
    /\ s \notin form.substitutes /\ SubstituteLimit(shown[r])
    /\ Change(r, "other", [form EXCEPT !.substitutes = @ \cup {s}])
DeleteSubstituteSubmitter(r, s) ==
    /\ s \in shown[r].substitutes
    /\ Change(r, "other", [form EXCEPT !.substitutes = @ \ {s}])

(* update_candidate_list_submit: districts that are on other lists too are  *)
(* accepted, with a warning on the page.                                    *)
UpdateDistricts(r, l, districts) ==
    /\ ~OneDistrict /\ l \in Kept(req[r].view) /\ districts # {}
    /\ Change(r, "other", IF l \in Kept(data) THEN [form EXCEPT !.districts[l] = districts] ELSE form)

-----------------------------------------------------------------------------
(* The downloads.  A link names an event of the stream (during paper        *)
(* corrections, of the corrections); the documents are those of the stream  *)
(* as this request finds it.                                                *)
GenDocuments(r) ==
    /\ Own \/ req[r].seen > 0
    /\ Makeable(req[r].view, shown[r])
    /\ Update(r, "none", data) /\ Saved(r, "download", req[r].seen, form)
(* audit_log_gen_documents: the documents of an earlier version, replayed   *)
(* and looked at again.                                                     *)
GenPastDocuments(r, e) ==
    /\ Own /\ e \in open /\ e <= req[r].seen
    /\ Update(r, "none", data) /\ Saved(r, "past", e, form)
(* Addresses, representatives, what an authorisation or a substitute says,  *)
(* the warning before a download, log in and log out.                       *)
Aside(r) == OtherEvent(r) /\ Saved(r, "other", version, form)

-----------------------------------------------------------------------------
(* The persons and lists, with what their forms say besides.  NoKey: the    *)
(* name or the date of birth is missing.                                    *)
Enough(p, c, f) == IF c THEN f.complete \cup {p} ELSE f.complete \ {p}
SavePerson(r, p, k, c) ==
    /\ c => k # NoKey
    /\ CreatePerson(r, p, k) \/ UpdatePerson(r, p, k)
    /\ Saved(r, "other", version, IF p \in Alive(data') THEN [form EXCEPT !.complete = Enough(p, c, form)] ELSE form)
RemovePerson(r, p) ==
    /\ DeletePerson(r, p)
    /\ Saved(r, "other", version, [form EXCEPT !.complete = @ \ {p}])
EnterCandidate(r, l, p, k, c) ==
    /\ c => k # NoKey
    /\ CreateCandidate(r, l, p, k)
    /\ Saved(r, "other", version, [form EXCEPT !.complete = Enough(p, c, form)])
EnterCandidates(r, l, keys, s, complete) ==
    /\ complete \subseteq {s[i] : i \in {i \in DOMAIN keys : keys[i] # NoKey}}
    /\ ImportCandidates(r, l, keys, s)
    /\ Saved(r, "other", version,
             [form EXCEPT !.complete = (@ \ On(s)) \cup (complete \cap Alive(data'))])
NewList(r, l, copy, districts) ==
    /\ districts # {} /\ (OneDistrict => districts = ElectionDistricts)
    /\ CreateList(r, l, copy)
    /\ Saved(r, "other", version, [form EXCEPT !.districts[l] = districts])
DropList(r, l) ==
    /\ DeleteList(r, l)
    /\ Saved(r, "other", version, [form EXCEPT !.districts[l] = {}])
Arrange(r) ==
    /\ \/ AppendCreated(r)
       \/ \E l \in Lists :
            \/ \E s \in SeqsUpTo(Persons, Cardinality(Persons)) : Reorder(r, l, s) \/ AddAll(r, l, s)
            \/ \E i, j \in 1..Cardinality(Persons) : UpdatePosition(r, l, i, j)
            \/ \E n \in 0..Cardinality(Persons) : RemoveAll(r, l, n)
            \/ \E p \in Persons : AppendCandidate(r, l, p) \/ RemoveCandidate(r, l, p)
    /\ Saved(r, "other", version, form)

(* The committee changes or deletes a registration, on its own stream.      *)
ChangeRegistration(g, name) ==
    /\ registered[g] \notin {name, Removed}
    /\ registered' = [registered EXCEPT ![g] = name]
    /\ UNCHANGED <<vars, scene, form, shown, offered, open, done>>

OnName(r) ==
    \/ \E kind \in {"standalone", "combined", "blank"} : UpdateListDesignation(r, kind)
    \/ \E name \in Names \cup {NoName}, pick \in Registrations \cup {Unbound} :
          UpdatePoliticalGroup(r, pick, name)
OnGroup(r) ==
    \/ \E a \in Agents : CreateNameAuthorisation(r, a) \/ DeleteNameAuthorisation(r, a)
    \/ \E s \in {"incomplete", "complete"} : UpdateListSubmitter(r, s)
    \/ \E s \in Substitutes : CreateSubstituteSubmitter(r, s) \/ DeleteSubstituteSubmitter(r, s)
    \/ \E l \in Lists, districts \in SUBSET ElectionDistricts : UpdateDistricts(r, l, districts)
    \/ GenDocuments(r)
    \/ \E e \in open : GenPastDocuments(r, e)
OnEntries(r) ==
    \/ \E l \in Lists, p \in Persons, k \in Identities, c \in BOOLEAN : EnterCandidate(r, l, p, k, c)
    \/ \E l \in Lists, keys \in SeqsUpTo(Identities, MaxRows) : \E s \in [DOMAIN keys -> Persons] :
          \E complete \in SUBSET On(s) : EnterCandidates(r, l, keys, s, complete)
    \/ Arrange(r)
OnBoth(r) ==
    \/ \E p \in Persons : \/ \E k \in Identities, c \in BOOLEAN : SavePerson(r, p, k, c)
                          \/ RemovePerson(r, p)
    \/ \E l \in Lists :
        \/ \E districts \in SUBSET ElectionDistricts, copy \in BOOLEAN : NewList(r, l, copy, districts)
        \/ DropList(r, l)
SubmissionNext ==
    \/ \E r \in Requests :
        \/ Come(r) \/ Go(r)
        \/ /\ req[r].pc # "idle" /\ MayWrite(r)
           /\ \/ Aside(r)
              \/ scene # "name" /\ OnBoth(r)
              \/ scene # "lists" /\ OnName(r)
              \/ scene = "group" /\ OnGroup(r)
              \/ scene = "lists" /\ OnEntries(r)
    \/ \E g \in Registrations, name \in Names \cup {Removed} :
          scene = "name" /\ ChangeRegistration(g, name)
SubmissionSpec == SubmissionInit /\ [][SubmissionNext]_<<vars, extras>>

-----------------------------------------------------------------------------
(* "same gate as the finalise page, before generating anything": when no    *)
(* problem is an error, the documents of every list of a political group    *)
(* can be made, under different names, though the gate and the generator    *)
(* look at the data separately and the gate skips persons it does not find. *)
(* And the steps on the pages show an error exactly when the general part   *)
(* of the gate is closed (PoliticalGroupSteps, AllProblems).                *)
GateAgrees ==
    /\ Own /\ Downloadable(data, form) => Collected(data, form)
    /\ GeneralProblems(form) <=>
           "error" \in {BasicState(form), AgentsState(form), SubmittersState(form)}

(* A political group's forms are saved as whole records and its documents   *)
(* are made from a copy, yet no form undoes what another request saved in   *)
(* the fields it does not show, and a download prints everything that was   *)
(* recorded before it.                                                      *)
FormsKeepTheRest ==
    [][Own /\ version' # version =>
           LET g == form.group
               h == form'.group
           IN  CASE done'.kind = "designation" -> h.appellation = g.appellation
                 [] done'.kind = "information" -> h.designation = g.designation \/ g.designation = "none"
                 [] done'.kind = "download" -> done'.version = version
                 [] OTHER -> h = g]_<<vars, extras>>

(* While a group is bound to a registration, what the registration decides  *)
(* over changes only by taking it over from a registration as the request   *)
(* read it: it is not edited by hand, and it is not bound again by changing *)
(* the list type back and forth (with_registration, bind_registration).     *)
BoundIsTakenOver ==
    [][Own => LET g == form.group
                  h == form'.group
              IN  h.registration # Unbound /\ h # g =>
                      /\ h.designation = "standalone"
                      /\ \E r \in Requests :
                            req[r].pc = "in" /\ h.appellation = offered[r][h.registration]]_<<vars, extras>>
=============================================================================
