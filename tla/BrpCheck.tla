------------------------------ MODULE BrpCheck ------------------------------
(***************************************************************************)
(* The candidates of one imported political group and their check against  *)
(* the population register (BRP): paper corrections, the committee's own   *)
(* corrections, the findings, and the background sweep that makes them     *)
(* (csb/import/pages/import.rs, projection/csb_data/mod.rs).               *)
(*                                                                         *)
(* A sweep takes a snapshot of the candidates, consults the BRP batch by   *)
(* batch and records each result with update_when, all while members       *)
(* correct candidates and flag findings.  At most one sweep of a stream    *)
(* runs per process (RUNNING_SWEEPS); processes do not know each other's.  *)
(* One append is atomic: that is what EventStore shows.                    *)
(***************************************************************************)
EXTENDS Naturals, FiniteSets, Sequences

CONSTANTS Persons,      \* candidate ids
          Values,       \* the data of a candidate that the BRP check compares
          Rest,         \* the data it does not compare (address, representative)
          Imported,     \* Imported[p]: the candidate as imported, or Unborn
          Finds,        \* Finds[v]: the kinds of findings on v, in order
          Tasks,        \* sweep tasks
          InstanceOf,   \* InstanceOf[k]: the process that runs task k
          Members,      \* committee members with a candidate page open
          Singles,      \* those who have single candidates checked
          BatchSize,    \* BRP_BSN_BATCH_SIZE
          Attempts,     \* UPDATE_WHEN_ATTEMPTS
          Plans,        \* bounds: the sweeps that are started, in order, and
                        \* the number of events the members append
          Unborn, Deleted, NoDelta, Unchecked, NoPerson

PersonRecords == [value : Values, rest : Rest]
Gone == {Unborn, Deleted}
Kinds == UNION {{Finds[v][i] : i \in DOMAIN Finds[v]} : v \in Values}
Instances == {InstanceOf[k] : k \in Tasks}

ASSUME FindsAssumption == DOMAIN Finds = Values
ASSUME ImportedAssumption == Imported \in [Persons -> PersonRecords \cup {Unborn}]
ASSUME GoneAssumption == Gone \cap PersonRecords = {}
ASSUME TasksAssumption == DOMAIN InstanceOf = Tasks
ASSUME BoundsAssumption ==
    /\ BatchSize \in Nat \ {0} /\ Attempts \in Nat \ {0}
    /\ \A plan \in Plans : plan.starts \in Seq(Tasks) /\ plan.edits \in Nat

VARIABLES
    paper,      \* paper_corrected_data.persons
    delta,      \* csb_corrected_persons, one correctable field
    corrected,  \* csb_corrected_data.persons
    findings,   \* brp_findings
    status,     \* brp_validation_status
    claims,     \* the processes whose RUNNING_SWEEPS holds this stream
    task,       \* the sweep tasks
    page,       \* the page each member has in front of them
    single,     \* the check of one candidate each member waits for
    edits,      \* events the members appended
    starts      \* the sweeps that were started

projection == <<paper, delta, corrected, findings, status>>
pages == <<page, single>>
vars == <<projection, claims, task, pages, edits, starts>>

-----------------------------------------------------------------------------
TaskPCs == {"idle",      \* no sweep
            "claimed",   \* holds the claim, SetBrpStatus(InProgress) to come
            "spawned",   \* recorded as started, snapshot to come
            "sweep",     \* between two batches
            "record",    \* has the answers to a batch
            "decide",    \* update_when: about to look at the projection
            "append",    \* update_when: has decided, append to come
            "failed",    \* verify_candidates ended with an error
            "closing"}   \* the outcome is on record, the claim still held
Copies == [Persons -> PersonRecords \cup Gone]
TaskRecords ==
    [pc : TaskPCs,
     todo : Copies,             \* candidates to check, as the snapshot had them
     batch : SUBSET Persons,    \* answered by the BRP, not yet recorded
     who : Persons \cup {NoPerson},   \* the candidate update_when is about
     tries : 0..Attempts,       \* attempts left for this result
     fresh : BOOLEAN,           \* the stream did not move since the decision
     snap : Copies,             \* history: the whole of todo at the snapshot
     answered : SUBSET Persons] \* history: the candidates the BRP answered for
Nobody == [p \in Persons |-> Deleted]
NoTask == [pc |-> "idle", todo |-> Nobody, batch |-> {}, who |-> NoPerson,
           tries |-> 0, fresh |-> FALSE, snap |-> Nobody, answered |-> {}]

PageRecords == [pc : {"none", "open", "sent"}, person : Persons \cup {NoPerson},
                index : Nat, names : Kinds \cup {NoPerson},
                handled : BOOLEAN]
NoPage == [pc |-> "none", person |-> NoPerson, index |-> 0,
           names |-> NoPerson, handled |-> FALSE]

SingleRecords == [person : Persons, value : Values]
NoSingle == NoPerson

Init ==
    /\ paper = Imported
    /\ delta = [p \in Persons |-> NoDelta]
    /\ corrected = Imported
    /\ findings = [p \in Persons |-> Unchecked]
    /\ status = "NotStarted"
    /\ claims = {}
    /\ task = [k \in Tasks |-> NoTask]
    /\ page = [m \in Members |-> NoPage]
    /\ single = [m \in Members |-> NoSingle]
    /\ edits = 0
    /\ starts = << >>

-----------------------------------------------------------------------------
(* What the events do (CsbStoreData::apply).                                *)

(* refresh_corrected; a delta for a candidate who is gone has no effect.    *)
Refreshed(people, deltas) ==
    [p \in Persons |-> IF people[p] \in Gone \/ deltas[p] = NoDelta THEN people[p]
                       ELSE [people[p] EXCEPT !.value = deltas[p]]]

(* Every event moves the stream under whoever has decided and not appended. *)
Moved(tasks) == [k \in Tasks |-> [tasks[k] EXCEPT !.fresh = FALSE]]
StreamMoves(k, x) == task' = [Moved(task) EXCEPT ![k] = x]

(* apply_paper_correction: forget_brp_check for the candidates whose        *)
(* checked data the event changes, apply it, refresh_corrected.             *)
PaperEvent(people, forget) ==
    /\ paper' = people
    /\ findings' = [p \in Persons |-> IF p \in forget THEN Unchecked ELSE findings[p]]
    /\ corrected' = Refreshed(people, delta)
    /\ UNCHANGED <<delta, status>>

(* apply_correction of a candidate.                                         *)
CorrectionEvent(p, v) ==
    /\ findings' = [findings EXCEPT ![p] = Unchecked]
    /\ delta' = [delta EXCEPT ![p] =
                    IF paper[p] \notin Gone /\ paper[p].value # v THEN v ELSE NoDelta]
    /\ corrected' = Refreshed(paper, delta')
    /\ UNCHANGED <<paper, status>>

(* set_brp_finding_handled: the finding that was named, if still there.     *)
HandledEvent(p, kind, handled) ==
    /\ findings' =
         IF findings[p] = Unchecked THEN findings
         ELSE LET there == \E i \in DOMAIN Finds[findings[p].about] :
                              Finds[findings[p].about][i] = kind
              IN  [findings EXCEPT ![p].handled =
                      IF ~there THEN @ ELSE IF handled THEN @ \cup {kind} ELSE @ \ {kind}]
    /\ UNCHANGED <<paper, delta, corrected, status>>

(* BrpPersonChecked; who asked, a member or the sweep of a process, is kept *)
(* as history.                                                              *)
CheckedEvent(p, v, by) ==
    /\ findings' = [findings EXCEPT ![p] = [about |-> v, handled |-> {}, by |-> by]]
    /\ UNCHANGED <<paper, delta, corrected, status>>

StatusEvent(s) == status' = s /\ UNCHANGED <<paper, delta, corrected, findings>>

-----------------------------------------------------------------------------
(* The members.                                                             *)

(* Some plan has room for these sweeps and this many events; a page is not  *)
(* opened and the BRP not asked when nothing can be recorded any more.      *)
Planned(begun, n) ==
    \E plan \in Plans : /\ n <= plan.edits /\ Len(begun) <= Len(plan.starts)
                         /\ SubSeq(plan.starts, 1, Len(begun)) = begun

MemberEvent ==
    /\ Planned(starts, edits + 1)
    /\ edits' = edits + 1
    /\ task' = Moved(task)
    /\ UNCHANGED <<claims, starts>>

(* UpdateCorrection of a candidate: "ambtshalve".                           *)
Correct(p, v) ==
    /\ corrected[p] \notin Gone
    /\ CorrectionEvent(p, v)
    /\ MemberEvent /\ UNCHANGED pages

PaperDelete(p) ==
    /\ paper[p] \notin Gone
    /\ PaperEvent([paper EXCEPT ![p] = Deleted], {p})
    /\ MemberEvent /\ UNCHANGED pages
PaperCreate(p, person) ==
    /\ paper[p] = Unborn
    /\ PaperEvent([paper EXCEPT ![p] = person], {p})
    /\ MemberEvent /\ UNCHANGED pages
PaperUpdate(p, v) ==
    /\ paper[p] \notin Gone
    /\ PaperEvent([paper EXCEPT ![p].value = v], {p})
    /\ MemberEvent /\ UNCHANGED pages
(* UpdatePersonAddress, UpdatePersonRepresentative: not compared, so the    *)
(* findings stand.                                                          *)
PaperUpdateRest(p, r) ==
    /\ paper[p] \notin Gone /\ paper[p].rest # r
    /\ PaperEvent([paper EXCEPT ![p].rest = r], {})
    /\ MemberEvent /\ UNCHANGED pages
(* Any event that is not about candidates, e.g. an omission.                *)
OtherEvent ==
    /\ MemberEvent
    /\ UNCHANGED <<projection, pages>>

(* A candidate page, with a button for every finding.                       *)
OpenPage(m, p, i) ==
    /\ page[m].pc = "none" /\ Planned(starts, edits + 1)
    /\ findings[p] # Unchecked /\ corrected[p] \notin Gone
    /\ i \in DOMAIN Finds[findings[p].about]
    /\ page' = [page EXCEPT ![m] = [NoPage EXCEPT !.pc = "open", !.person = p, !.index = i,
                                        !.handled = Finds[findings[p].about][i]
                                                        \notin findings[p].handled]]
    /\ UNCHANGED <<projection, single, claims, task, edits, starts>>

(* set_brp_finding_handled: the finding at the index in the path, of the    *)
(* findings there are by now; not found when there is none.                 *)
SendHandled(m) ==
    /\ page[m].pc = "open"
    /\ LET p == page[m].person
           now == IF findings[p] = Unchecked THEN << >> ELSE Finds[findings[p].about]
       IN  page' = [page EXCEPT ![m] = IF page[m].index \notin DOMAIN now THEN NoPage
                        ELSE [@ EXCEPT !.pc = "sent", !.names = now[page[m].index]]]
    /\ UNCHANGED <<projection, single, claims, task, edits, starts>>
RecordHandled(m) ==
    /\ page[m].pc = "sent"
    /\ HandledEvent(page[m].person, page[m].names, page[m].handled)
    /\ page' = [page EXCEPT ![m] = NoPage]
    /\ MemberEvent /\ UNCHANGED single

(* check_against_brp: the BRP is asked about the candidate of the moment,   *)
(* and whatever it answers is recorded, in the same request.                *)
AskOne(m, p) ==
    /\ m \in Singles /\ single[m] = NoSingle /\ Planned(starts, edits + 1)
    /\ corrected[p] \notin Gone
    /\ single' = [single EXCEPT ![m] = [person |-> p, value |-> corrected[p].value]]
    /\ UNCHANGED <<projection, page, claims, task, edits, starts>>
RecordOne(m) ==
    /\ single[m] # NoSingle
    /\ CheckedEvent(single[m].person, single[m].value, "member")
    /\ single' = [single EXCEPT ![m] = NoSingle]
    /\ MemberEvent /\ UNCHANGED page
(* The BRP could not be consulted: the lookups only, and an error page.     *)
AskOneFails(m) ==
    /\ single[m] # NoSingle
    /\ single' = [single EXCEPT ![m] = NoSingle]
    /\ MemberEvent /\ UNCHANGED <<projection, page>>

-----------------------------------------------------------------------------
(* do_brp_verification, monitor_verification and verify_candidates.         *)

TaskBecomes(k, x) == task' = [task EXCEPT ![k] = x]
Release(k) == claims' = claims \ {InstanceOf[k]}

(* SweepClaim::claim; a stream this process is sweeping is left alone.      *)
Claim(k) ==
    /\ task[k].pc = "idle" /\ Planned(Append(starts, k), edits)
    /\ InstanceOf[k] \notin claims
    /\ claims' = claims \cup {InstanceOf[k]}
    /\ starts' = Append(starts, k)
    /\ TaskBecomes(k, [NoTask EXCEPT !.pc = "claimed"])
    /\ UNCHANGED <<projection, pages, edits>>

RecordStarted(k) ==
    /\ task[k].pc = "claimed"
    /\ StatusEvent("InProgress")
    /\ StreamMoves(k, [task[k] EXCEPT !.pc = "spawned"])
    /\ UNCHANGED <<claims, pages, edits, starts>>
StartFails(k) ==
    /\ task[k].pc = "claimed"
    /\ Release(k)
    /\ TaskBecomes(k, NoTask)
    /\ UNCHANGED <<projection, pages, edits, starts>>

\* mutant: candidates with findings are checked again
TakeSnapshotAll(k) ==
    /\ task[k].pc = "spawned"
    /\ TaskBecomes(k, [task[k] EXCEPT !.pc = "sweep", !.todo = corrected, !.snap = corrected])
    /\ UNCHANGED <<projection, claims, pages, edits, starts>>
TakeSnapshot(k) ==
    /\ task[k].pc = "spawned"
    /\ LET unchecked == [p \in Persons |->
                            IF findings[p] = Unchecked THEN corrected[p] ELSE Deleted]
       IN  TaskBecomes(k, [task[k] EXCEPT !.pc = "sweep", !.todo = unchecked,
                                          !.snap = unchecked])
    /\ UNCHANGED <<projection, claims, pages, edits, starts>>

Todo(k) == {p \in Persons : task[k].todo[p] \notin Gone}
IsChunk(k, batch) ==
    /\ batch \subseteq Todo(k)
    /\ Cardinality(batch) = IF Cardinality(Todo(k)) < BatchSize THEN Cardinality(Todo(k))
                            ELSE BatchSize

(* verify_batch answered: its lookups go on record, then its results.       *)
Consult(k, batch) ==
    /\ task[k].pc = "sweep" /\ Todo(k) # {}
    /\ IsChunk(k, batch)
    /\ StreamMoves(k, [task[k] EXCEPT !.pc = "record", !.batch = batch,
                                      !.answered = @ \cup batch])
    /\ UNCHANGED <<projection, claims, pages, edits, starts>>

(* The BRP could not be consulted: the lookups go on record, and the sweep  *)
(* ends with the error.                                                     *)
\* mutant: the batch is skipped
ConsultSkips(k) ==
    /\ task[k].pc = "sweep" /\ Todo(k) # {}
    /\ \E batch \in SUBSET Persons :
           /\ IsChunk(k, batch)
           /\ StreamMoves(k, [task[k] EXCEPT !.todo = [p \in Persons |->
                                  IF p \in batch THEN Deleted ELSE @[p]]])
    /\ UNCHANGED <<projection, claims, pages, edits, starts>>
ConsultFails(k) ==
    /\ task[k].pc = "sweep" /\ Todo(k) # {}
    /\ StreamMoves(k, [task[k] EXCEPT !.pc = "failed"])
    /\ UNCHANGED <<projection, claims, pages, edits, starts>>

(* record_brp_result for one candidate of the batch: update_when starts.    *)
PickResult(k, p) ==
    /\ task[k].pc = "record" /\ p \in task[k].batch
    /\ TaskBecomes(k, [task[k] EXCEPT !.pc = "decide", !.who = p, !.tries = Attempts])
    /\ UNCHANGED <<projection, claims, pages, edits, starts>>

(* This candidate is dealt with; after the last one the next batch starts.  *)
Dealt(k) ==
    [task[k] EXCEPT !.batch = @ \ {task[k].who}, !.todo[task[k].who] = Deleted,
                    !.who = NoPerson, !.tries = 0, !.fresh = FALSE,
                    !.pc = IF task[k].batch = {task[k].who} THEN "sweep" ELSE "record"]

(* The candidate is still the one that was checked, or the result is about  *)
(* data that is gone and is dropped.                                        *)
\* mutant: only that the candidate still exists is looked at
DecideLoosely(k) ==
    /\ task[k].pc = "decide"
    /\ TaskBecomes(k, IF corrected[task[k].who] \notin Gone
                      THEN [task[k] EXCEPT !.pc = "append", !.fresh = TRUE]
                      ELSE Dealt(k))
    /\ UNCHANGED <<projection, claims, pages, edits, starts>>
Decide(k) ==
    /\ task[k].pc = "decide"
    /\ TaskBecomes(k, IF corrected[task[k].who] = task[k].todo[task[k].who]
                      THEN [task[k] EXCEPT !.pc = "append", !.fresh = TRUE]
                      ELSE Dealt(k))
    /\ UNCHANGED <<projection, claims, pages, edits, starts>>

RecordResult(k) ==
    /\ task[k].pc = "append" /\ task[k].fresh
    /\ CheckedEvent(task[k].who, task[k].todo[task[k].who].value, InstanceOf[k])
    /\ StreamMoves(k, Dealt(k))
    /\ UNCHANGED <<claims, pages, edits, starts>>

(* The stream moved: decide again, or give up on this candidate.            *)
ResultConflicts(k) ==
    /\ task[k].pc = "append" /\ ~task[k].fresh
    /\ TaskBecomes(k, IF task[k].tries = 1 THEN Dealt(k)
                      ELSE [task[k] EXCEPT !.pc = "decide", !.tries = @ - 1])
    /\ UNCHANGED <<projection, claims, pages, edits, starts>>

RecordFinished(k) ==
    /\ task[k].pc = "sweep" /\ Todo(k) = {}
    /\ StatusEvent("Finished")
    /\ StreamMoves(k, [NoTask EXCEPT !.pc = "closing"])
    /\ UNCHANGED <<claims, pages, edits, starts>>

(* An append of verify_candidates fails, or it panics.                      *)
SweepFails(k) ==
    /\ task[k].pc \in {"spawned", "sweep", "record", "append"}
    /\ TaskBecomes(k, [task[k] EXCEPT !.pc = "failed", !.fresh = FALSE])
    /\ UNCHANGED <<projection, claims, pages, edits, starts>>

RecordAborted(k) ==
    /\ task[k].pc = "failed"
    /\ StatusEvent("Aborted")
    /\ StreamMoves(k, [NoTask EXCEPT !.pc = "closing"])
    /\ UNCHANGED <<claims, pages, edits, starts>>
(* Even that could not be recorded: the status stays InProgress.            *)
AbortFails(k) ==
    /\ task[k].pc = "failed"
    /\ TaskBecomes(k, [NoTask EXCEPT !.pc = "closing"])
    /\ UNCHANGED <<projection, claims, pages, edits, starts>>

(* SweepClaim::drop                                                         *)
\* mutant: the claim outlives the sweep
DropClaimNot(k) ==
    /\ task[k].pc = "closing" /\ status = "Finished"
    /\ Release(k)
    /\ TaskBecomes(k, NoTask)
    /\ UNCHANGED <<projection, pages, edits, starts>>
DropClaim(k) ==
    /\ task[k].pc = "closing"
    /\ Release(k)
    /\ TaskBecomes(k, NoTask)
    /\ UNCHANGED <<projection, pages, edits, starts>>

(* A process stops: its sweeps and claims are gone, its events stay.        *)
Crash(i) ==
    /\ i \in claims
    /\ claims' = claims \ {i}
    /\ task' = [k \in Tasks |-> IF InstanceOf[k] = i THEN NoTask ELSE task[k]]
    /\ UNCHANGED <<projection, pages, edits, starts>>

Member ==
    \/ \E p \in Persons, v \in Values : Correct(p, v) \/ PaperUpdate(p, v)
    \/ \E p \in Persons : PaperDelete(p)
    \/ \E p \in Persons, x \in PersonRecords : PaperCreate(p, x)
    \/ \E p \in Persons, r \in Rest : PaperUpdateRest(p, r)
    \/ OtherEvent
    \/ \E m \in Members, p \in Persons, i \in 1..Cardinality(Kinds) : OpenPage(m, p, i)
    \/ \E m \in Members : SendHandled(m) \/ RecordHandled(m)
    \/ \E m \in Members, p \in Persons : AskOne(m, p)
    \/ \E m \in Members : RecordOne(m) \/ AskOneFails(m)

Sweep(k) ==
    \/ RecordStarted(k) \/ StartFails(k) \/ TakeSnapshot(k)
    \/ \E batch \in SUBSET Persons : Consult(k, batch)
    \/ ConsultFails(k)
    \/ \E p \in Persons : PickResult(k, p)
    \/ Decide(k) \/ RecordResult(k) \/ ResultConflicts(k)
    \/ RecordFinished(k) \/ SweepFails(k)
    \/ RecordAborted(k) \/ AbortFails(k) \/ DropClaim(k)

Next ==
    \/ Member
    \/ \E k \in Tasks : Claim(k) \/ Sweep(k)
    \/ \E i \in Instances : Crash(i)

Spec == Init /\ [][Next]_vars

(* A spawned task keeps being polled, the BRP client gives up on a request  *)
(* after its timeout, and an append ends (EventStore: RequestsEnd).         *)
FairSpec == Spec /\ \A k \in Tasks : WF_vars(Sweep(k))

-----------------------------------------------------------------------------
TypeOK ==
    /\ paper \in Copies
    /\ delta \in [Persons -> Values \cup {NoDelta}]
    /\ corrected \in Copies
    /\ findings \in [Persons -> [about : Values, handled : SUBSET Kinds,
                                by : Instances \cup {"member"}] \cup {Unchecked}]
    /\ status \in {"NotStarted", "InProgress", "Aborted", "Finished"}
    /\ claims \subseteq Instances
    /\ task \in [Tasks -> TaskRecords]
    /\ \A k \in Tasks : task[k].pc \in {"decide", "append"} => task[k].tries > 0
    /\ page \in [Members -> PageRecords]
    /\ single \in [Members -> SingleRecords \cup {NoSingle}]
    /\ edits \in Nat /\ starts \in Seq(Tasks)

(* What a sweep put on record about a candidate is about the data on        *)
(* screen: no answer, however late, leaves findings on values that were     *)
(* corrected since, nor on a candidate who is gone, whatever members do     *)
(* between the snapshot and the append (record_brp_result,                  *)
(* forget_brp_check).                                                       *)
Current(p) == corrected[p] \notin Gone /\ corrected[p].value = findings[p].about
SweptIsCurrent ==
    \A p \in Persons : findings[p] # Unchecked /\ findings[p].by # "member" => Current(p)

(* The same for everything on record.  The check of one candidate, which    *)
(* records unconditionally, does not keep to it.                            *)
FindingsAreCurrent ==
    \A p \in Persons : findings[p] # Unchecked => Current(p)

(* A mark "handled" on a finding of a sweep stays until a member takes it   *)
(* off, asks for a new check or changes the candidate's data.  The process  *)
(* that recorded the finding does not check the candidate again, in a late  *)
(* answer, in a later sweep or after a restart (SweepClaim, and the         *)
(* snapshot of unchecked candidates).  RUNNING_SWEEPS tells a process of    *)
(* its own sweeps only, so the one other thing that can undo a mark is the  *)
(* result of a sweep that another process runs at the same time.            *)
HandledStays ==
    [][\A p \in Persons :
           findings[p] # Unchecked /\ findings[p].by # "member" /\ findings'[p] # Unchecked
           /\ ~(findings[p].handled \subseteq findings'[p].handled)
           => \/ \E m \in Members :
                   \/ /\ page[m].pc = "sent" /\ page[m].person = p /\ ~page[m].handled
                      /\ page'[m] = NoPage
                   \/ single[m] # NoSingle /\ single[m].person = p /\ single'[m] = NoSingle
              \/ \E k \in Tasks : /\ task[k].pc = "append" /\ task[k].who = p
                                   /\ InstanceOf[k] # findings[p].by
                                   /\ InstanceOf[k] = findings'[p].by]_vars

(* A sweep that ends as finished had an answer from the BRP for every       *)
(* candidate it set out to check: an unreachable BRP does not make anyone   *)
(* look checked, nor the sweep complete (verify_candidates).                *)
FinishedMeansConsulted ==
    [][\A k \in Tasks : task[k].pc = "sweep" /\ task'[k].pc = "closing" =>
           {p \in Persons : task[k].snap[p] \notin Gone} \subseteq task[k].answered]_vars

(* Every sweep that was started ends, and frees the stream for a next one.  *)
SweepsEnd == \A k \in Tasks : task[k].pc # "idle" ~> task[k].pc = "idle"
=============================================================================
