--------------------------- MODULE BrpCheckProofs ---------------------------
(* What holds of the BRP checks of BrpCheck for any candidates, members,    *)
(* sweeps and edits.                                                        *)
EXTENDS BrpCheck, TLAPS

(* One task: what its program counter says of its other variables.          *)
Busy == {"decide", "append"}
Blank == {"idle", "claimed", "spawned", "closing"}
Left(t) == {p \in Persons : t.todo[p] \notin Gone}
TaskOk(t) ==
    /\ t.pc \in Busy => t.tries > 0 /\ t.who \in t.batch
    /\ t.batch \subseteq Left(t) /\ t.batch \subseteq t.answered
    /\ t.pc \in Blank => t.todo = Nobody
    /\ \A p \in Persons : t.snap[p] \notin Gone => p \in t.answered \/ p \in Left(t)

(* A decision that nothing came after is about the candidate of the moment. *)
Decided(t) == t.pc = "append" /\ t.fresh => corrected[t.who] = t.todo[t.who]

TasksOk ==
    /\ task \in [Tasks -> TaskRecords]
    /\ \A k \in Tasks : TaskOk(task[k]) /\ Decided(task[k])

(* The projection.                                                          *)
FindingRecords == [about : Values, handled : SUBSET Kinds, by : Instances \cup {"member"}]
DataOk ==
    /\ paper \in Copies /\ corrected \in Copies
    /\ delta \in [Persons -> Values \cup {NoDelta}]
    /\ findings \in [Persons -> FindingRecords \cup {Unchecked}]
    /\ status \in {"NotStarted", "InProgress", "Aborted", "Finished"}
    /\ corrected = Refreshed(paper, delta)
    /\ SweptIsCurrent

OthersOk ==
    /\ claims \subseteq Instances
    /\ page \in [Members -> PageRecords]
    /\ \A m \in Members : page[m].pc # "none" => page[m].person \in Persons
    /\ single \in [Members -> SingleRecords \cup {NoSingle}]
    /\ edits \in Nat /\ starts \in Seq(Tasks)

BrpInv == DataOk /\ TasksOk /\ OthersOk

-----------------------------------------------------------------------------
(* Tasks.                                                                   *)

LEMMA TaskFields ==
    ASSUME NEW t \in TaskRecords
    PROVE  /\ t.pc \in TaskPCs /\ t.todo \in Copies /\ t.batch \in SUBSET Persons
           /\ t.who \in Persons \cup {NoPerson} /\ t.tries \in 0..Attempts
           /\ t.fresh \in BOOLEAN /\ t.snap \in Copies /\ t.answered \in SUBSET Persons
BY DEF TaskRecords

LEMMA NobodyIs == Nobody \in Copies /\ \A p \in Persons : Nobody[p] \in Gone
BY DEF Nobody, Copies, Gone

LEMMA NoTaskFields ==
    /\ NoTask \in TaskRecords /\ NoTask.pc = "idle" /\ NoTask.todo = Nobody
    /\ NoTask.batch = {} /\ NoTask.snap = Nobody /\ NoTask.fresh = FALSE
<1>1. 0 \in 0..Attempts
    BY BoundsAssumption
<1> QED
    BY <1>1, NobodyIs DEF NoTask, TaskRecords, TaskPCs

LEMMA NoTaskIs ==
    ASSUME NEW t, NEW pc \in {"idle", "claimed", "closing"},
           (t = NoTask /\ pc = "idle") \/ t = [NoTask EXCEPT !.pc = pc]
    PROVE  /\ t \in TaskRecords /\ TaskOk(t) /\ Decided(t)
           /\ t.pc = pc /\ t.todo = Nobody
<1>1. /\ t \in TaskRecords /\ t.pc = pc /\ t.todo = Nobody
      /\ t.batch = {} /\ t.snap = Nobody
    BY NoTaskFields DEF TaskRecords, TaskPCs
<1>2. TaskOk(t) /\ Decided(t)
    BY <1>1, NobodyIs DEF TaskOk, Decided, Busy, Left
<1> QED
    BY <1>1, <1>2

(* A task under which the stream moved.                                     *)
LEMMA StaleIs ==
    ASSUME NEW t \in TaskRecords, TaskOk(t)
    PROVE  LET u == [t EXCEPT !.fresh = FALSE] IN
           /\ u \in TaskRecords /\ TaskOk(u) /\ ~u.fresh
           /\ u.pc = t.pc /\ u.todo = t.todo /\ u.who = t.who /\ u.snap = t.snap
           /\ u.answered = t.answered /\ u.batch = t.batch /\ u.tries = t.tries
<1> DEFINE u == [t EXCEPT !.fresh = FALSE]
<1>1. /\ u \in TaskRecords /\ ~u.fresh
      /\ u.pc = t.pc /\ u.todo = t.todo /\ u.who = t.who /\ u.snap = t.snap
      /\ u.answered = t.answered /\ u.batch = t.batch /\ u.tries = t.tries
    BY DEF TaskRecords
<1> HIDE DEF u
<1>2. TaskOk(u)
    BY <1>1 DEF TaskOk, Left
<1> QED
    BY <1>1, <1>2 DEF u

LEMMA MovedOk ==
    ASSUME TasksOk, task' = Moved(task)
    PROVE  TasksOk'
<1>1. \A k \in Tasks : task'[k] = [task[k] EXCEPT !.fresh = FALSE]
    BY DEF Moved
<1>2. \A k \in Tasks : task'[k] \in TaskRecords /\ TaskOk(task'[k]) /\ ~task'[k].fresh
    BY <1>1, StaleIs, ZenonT(40) DEF TasksOk
<1>3. task' \in [Tasks -> TaskRecords]
    BY <1>2 DEF Moved
<1>4. \A k \in Tasks : TaskOk(task[k])'
    BY <1>2 DEF TaskOk, Left
<1> QED
    BY <1>2, <1>3, <1>4 DEF TasksOk, Decided

(* A step of one task, by itself or with an event.                          *)
LEMMA BecomesOk ==
    ASSUME TasksOk, NEW k \in Tasks, NEW x \in TaskRecords, TaskOk(x), Decided(x),
           TaskBecomes(k, x) \/ StreamMoves(k, x), corrected' = corrected
    PROVE  TasksOk'
<1>1. \A l \in Tasks : /\ [task[l] EXCEPT !.fresh = FALSE] \in TaskRecords
                       /\ TaskOk([task[l] EXCEPT !.fresh = FALSE])
                       /\ ~[task[l] EXCEPT !.fresh = FALSE].fresh
    BY StaleIs DEF TasksOk
<1>2. ASSUME NEW l \in Tasks
      PROVE  \/ task'[l] = task[l] \/ task'[l] = x
             \/ task'[l] = [task[l] EXCEPT !.fresh = FALSE]
    <2>1. CASE TaskBecomes(k, x)
        BY <2>1 DEF TaskBecomes, TasksOk
    <2>2. CASE StreamMoves(k, x)
        <3>1. Moved(task)[l] = [task[l] EXCEPT !.fresh = FALSE] /\ DOMAIN Moved(task) = Tasks
            BY DEF Moved
        <3> QED
            BY <2>2, <3>1 DEF StreamMoves
    <2> QED
        BY <2>1, <2>2
<1>3. \A l \in Tasks : task'[l] \in TaskRecords /\ TaskOk(task'[l]) /\ Decided(task'[l])
    <2> SUFFICES ASSUME NEW l \in Tasks
                 PROVE  task'[l] \in TaskRecords /\ TaskOk(task'[l]) /\ Decided(task'[l])
        OBVIOUS
    <2>1. Decided(task[l])
        BY DEF TasksOk
    <2>2. PICK u : u = [task[l] EXCEPT !.fresh = FALSE]
        OBVIOUS
    <2>3. Decided(u) /\ u \in TaskRecords /\ TaskOk(u)
        BY <1>1, <2>2 DEF Decided
    <2> QED
        BY <1>2, <2>1, <2>2, <2>3 DEF TasksOk
<1>4. task' \in [Tasks -> TaskRecords]
    BY <1>3 DEF TaskBecomes, StreamMoves, Moved, TasksOk
<1>5. \A l \in Tasks : TaskOk(task[l])' /\ Decided(task[l])'
    BY <1>3 DEF TaskOk, Left, Decided
<1> QED
    BY <1>4, <1>5 DEF TasksOk

-----------------------------------------------------------------------------
(* What the events do to the projection.                                    *)

LEMMA RefreshedIs ==
    ASSUME NEW people \in Copies, NEW deltas \in [Persons -> Values \cup {NoDelta}]
    PROVE  /\ Refreshed(people, deltas) \in Copies
           /\ \A p \in Persons :
                /\ Refreshed(people, deltas)[p] \in Gone <=> people[p] \in Gone
                /\ people[p] \notin Gone =>
                     Refreshed(people, deltas)[p].value =
                       IF deltas[p] = NoDelta THEN people[p].value ELSE deltas[p]
<1> DEFINE new(p) == IF people[p] \in Gone \/ deltas[p] = NoDelta THEN people[p]
                     ELSE [people[p] EXCEPT !.value = deltas[p]]
<1>1. ASSUME NEW p \in Persons
      PROVE  /\ new(p) \in PersonRecords \cup Gone
             /\ new(p) \in Gone <=> people[p] \in Gone
             /\ people[p] \notin Gone =>
                  new(p).value = IF deltas[p] = NoDelta THEN people[p].value ELSE deltas[p]
    <2>1. people[p] \in PersonRecords \cup Gone /\ deltas[p] \in Values \cup {NoDelta}
        BY DEF Copies
    <2>2. CASE people[p] \in Gone \/ deltas[p] = NoDelta
        BY <2>1, <2>2
    <2>3. CASE people[p] \notin Gone /\ deltas[p] # NoDelta
        <3>1. [people[p] EXCEPT !.value = deltas[p]] \in PersonRecords
            BY <2>1, <2>3 DEF PersonRecords
        <3>2. [people[p] EXCEPT !.value = deltas[p]].value = deltas[p]
            BY <2>1, <2>3 DEF PersonRecords
        <3> QED
            BY <2>3, <3>1, <3>2, GoneAssumption
    <2> QED
        BY <2>2, <2>3
<1>2. Refreshed(people, deltas) = [p \in Persons |-> new(p)]
    BY DEF Refreshed
<1> HIDE DEF new
<1> QED
    BY <1>1, <1>2 DEF Copies

(* Findings stay on a candidate whose compared data is what it was.         *)
LEMMA SweptStays ==
    ASSUME SweptIsCurrent, NEW S,
           \A p \in Persons : \/ findings'[p] = Unchecked \/ p \in S
                              \/ /\ findings'[p] = findings[p]
                                 /\ corrected[p] \notin Gone =>
                                      /\ corrected'[p] \notin Gone
                                      /\ corrected'[p].value = corrected[p].value,
           \A p \in Persons \cap S :
                findings'[p] # Unchecked /\ findings'[p].by # "member" =>
                    corrected'[p] \notin Gone /\ corrected'[p].value = findings'[p].about
    PROVE  SweptIsCurrent'
BY DEF SweptIsCurrent, Current

LEMMA PaperOk ==
    ASSUME DataOk, NEW people \in Copies, NEW forget, PaperEvent(people, forget),
           \A p \in Persons : \/ p \in forget \/ people[p] = paper[p]
                              \/ /\ people[p] \notin Gone /\ paper[p] \notin Gone
                                 /\ people[p].value = paper[p].value
    PROVE  DataOk'
<1>1. /\ paper' = people /\ delta' = delta /\ status' = status
      /\ corrected' = Refreshed(people, delta)
      /\ findings' = [p \in Persons |-> IF p \in forget THEN Unchecked ELSE findings[p]]
    BY DEF PaperEvent
<1>2. findings' \in [Persons -> FindingRecords \cup {Unchecked}]
    BY <1>1 DEF DataOk
<1>3. corrected' \in Copies
    BY <1>1, RefreshedIs DEF DataOk
<1>4. SweptIsCurrent'
    <2>1. ASSUME NEW p \in Persons, p \notin forget, corrected[p] \notin Gone
          PROVE  corrected'[p] \notin Gone /\ corrected'[p].value = corrected[p].value
        <3>1. /\ delta \in [Persons -> Values \cup {NoDelta}] /\ paper \in Copies
              /\ corrected = Refreshed(paper, delta)
            BY DEF DataOk
        <3>2. paper[p] \notin Gone
            BY <2>1, <3>1, RefreshedIs
        <3>3. people[p] \notin Gone /\ people[p].value = paper[p].value
            BY <2>1, <3>2
        <3> QED
            BY <1>1, <3>1, <3>2, <3>3, RefreshedIs
    <2>2. \A p \in Persons : findings'[p] = IF p \in forget THEN Unchecked ELSE findings[p]
        BY <1>1
    <2> QED
        BY <2>1, <2>2, SweptStays DEF DataOk
<1> QED
    BY <1>1, <1>2, <1>3, <1>4 DEF DataOk

LEMMA CorrectionOk ==
    ASSUME DataOk, NEW q \in Persons, NEW v \in Values, CorrectionEvent(q, v)
    PROVE  DataOk'
<1>1. /\ paper' = paper /\ status' = status /\ corrected' = Refreshed(paper, delta')
      /\ findings' = [findings EXCEPT ![q] = Unchecked]
      /\ delta' = [delta EXCEPT ![q] =
                      IF paper[q] \notin Gone /\ paper[q].value # v THEN v ELSE NoDelta]
    BY DEF CorrectionEvent
<1>2. delta' \in [Persons -> Values \cup {NoDelta}]
    BY <1>1 DEF DataOk
<1>3. /\ findings' \in [Persons -> FindingRecords \cup {Unchecked}]
      /\ findings'[q] = Unchecked /\ \A p \in Persons \ {q} : findings'[p] = findings[p]
    BY <1>1 DEF DataOk
<1>4. corrected' \in Copies
    BY <1>1, <1>2, RefreshedIs DEF DataOk
<1>5. \A p \in Persons \ {q} : delta'[p] = delta[p]
    BY <1>1 DEF DataOk
<1>6. \A p \in Persons \ {q} : corrected'[p] = corrected[p]
    BY <1>1, <1>5 DEF DataOk, Refreshed
<1>7. SweptIsCurrent'
    BY <1>3, <1>6 DEF DataOk, SweptIsCurrent, Current
<1> QED
    BY <1>1, <1>2, <1>3, <1>4, <1>7 DEF DataOk

LEMMA FindingOk ==
    ASSUME DataOk, UNCHANGED <<paper, delta, corrected, status>>, NEW q \in Persons,
           NEW f \in FindingRecords, findings' = [findings EXCEPT ![q] = f],
           f.by # "member" => corrected[q] \notin Gone /\ corrected[q].value = f.about
    PROVE  DataOk'
<1>1. /\ findings' \in [Persons -> FindingRecords \cup {Unchecked}]
      /\ findings'[q] = f /\ \A p \in Persons \ {q} : findings'[p] = findings[p]
    BY DEF DataOk
<1>2. SweptIsCurrent'
    BY <1>1, ZenonT(40) DEF DataOk, SweptIsCurrent, Current
<1> QED
    BY <1>1, <1>2 DEF DataOk

LEMMA CheckedOk ==
    ASSUME DataOk, NEW q \in Persons, NEW v \in Values, NEW by \in Instances \cup {"member"},
           CheckedEvent(q, v, by),
           by # "member" => corrected[q] \notin Gone /\ corrected[q].value = v
    PROVE  DataOk'
<1>1. PICK f : f = [about |-> v, handled |-> {}, by |-> by]
    OBVIOUS
<1>2. f \in FindingRecords /\ f.by = by /\ f.about = v
    BY <1>1 DEF FindingRecords
<1> QED
    BY <1>1, <1>2, FindingOk DEF CheckedEvent

LEMMA HandledOk ==
    ASSUME DataOk, NEW q \in Persons, NEW kind, NEW handled \in BOOLEAN,
           HandledEvent(q, kind, handled)
    PROVE  DataOk'
<1>1. CASE findings[q] = Unchecked
    <2>1. UNCHANGED <<paper, delta, corrected, findings, status>>
        BY <1>1 DEF HandledEvent
    <2> QED
        BY <2>1 DEF DataOk, SweptIsCurrent, Current
<1>2. CASE findings[q] # Unchecked
    <2> DEFINE f == findings[q]
               there == \E i \in DOMAIN Finds[f.about] : Finds[f.about][i] = kind
               hs == IF ~there THEN f.handled
                     ELSE IF handled THEN f.handled \cup {kind} ELSE f.handled \ {kind}
               g == [f EXCEPT !.handled = hs]
    <2>1. f \in FindingRecords
        BY <1>2 DEF DataOk
    <2>2. f.about \in Values /\ f.handled \in SUBSET Kinds
        BY <2>1 DEF FindingRecords
    <2>3. there => kind \in Kinds
        BY <2>2 DEF Kinds
    <2>4. hs \in SUBSET Kinds
        BY <2>2, <2>3
    <2>5. findings' = [findings EXCEPT ![q] = g] /\ UNCHANGED <<paper, delta, corrected, status>>
        BY <1>2 DEF HandledEvent
    <2> HIDE DEF there, hs
    <2>6. g \in FindingRecords /\ g.by = f.by /\ g.about = f.about
        BY <2>1, <2>4 DEF FindingRecords
    <2>7. g.by # "member" => corrected[q] \notin Gone /\ corrected[q].value = g.about
        BY <1>2, <2>6 DEF DataOk, SweptIsCurrent, Current
    <2> HIDE DEF f, g
    <2> QED
        BY <2>5, <2>6, <2>7, FindingOk
<1> QED
    BY <1>1, <1>2

LEMMA DataSame ==
    ASSUME DataOk, UNCHANGED projection
    PROVE  DataOk'
BY DEF projection, DataOk, SweptIsCurrent, Current

-----------------------------------------------------------------------------
(* The steps of a sweep.                                                    *)

LEMMA TaskAt ==
    ASSUME TasksOk, NEW k \in Tasks
    PROVE  task[k] \in TaskRecords /\ TaskOk(task[k]) /\ Decided(task[k])
BY DEF TasksOk

(* A new program counter, with nothing else that TaskOk speaks of.          *)
LEMMA OnlyPc ==
    ASSUME NEW t \in TaskRecords, TaskOk(t), NEW x \in TaskRecords,
           x.pc \notin Busy \cup Blank \/ (x.pc \in Blank /\ t.pc \in Blank),
           x.todo = t.todo, x.batch = t.batch, x.snap = t.snap, x.answered = t.answered
    PROVE  TaskOk(x) /\ Decided(x)
BY DEF TaskOk, Decided, Left, Busy, Blank

LEMMA DealtIs ==
    ASSUME TasksOk, NEW k \in Tasks, task[k].pc \in Busy
    PROVE  /\ Dealt(k) \in TaskRecords /\ TaskOk(Dealt(k)) /\ Decided(Dealt(k))
           /\ Dealt(k).pc \in {"sweep", "record"} /\ Dealt(k).snap = task[k].snap
           /\ Dealt(k).todo = [task[k].todo EXCEPT ![task[k].who] = Deleted]
<1>1. PICK t \in TaskRecords : t = task[k]
    BY DEF TasksOk
<1>2. /\ TaskOk(t) /\ t.who \in t.batch /\ t.todo \in Copies /\ t.batch \subseteq Persons
      /\ t.answered \subseteq Persons /\ t.snap \in Copies
    BY <1>1, TaskFields DEF TasksOk, TaskOk
<1> DEFINE done == [t.todo EXCEPT ![t.who] = Deleted]
           next == IF t.batch = {t.who} THEN "sweep" ELSE "record"
           rest == t.batch \ {t.who}
<1>3. /\ done \in Copies /\ done[t.who] = Deleted
      /\ \A p \in Persons \ {t.who} : done[p] = t.todo[p]
    BY <1>2 DEF Copies, Gone
<1>4. next \in {"sweep", "record"} /\ rest \subseteq Persons
    BY <1>2
<1> HIDE DEF done, next, rest
<1>5. Dealt(k) = [t EXCEPT !.batch = rest, !.todo = done, !.who = NoPerson, !.tries = 0,
                           !.fresh = FALSE, !.pc = next]
    BY <1>1 DEF Dealt, done, next, rest
<1>6. 0 \in 0..Attempts
    BY BoundsAssumption
<1>7. PICK x : x = Dealt(k)
    OBVIOUS
<1>8. /\ x.batch = rest /\ x.todo = done /\ x.pc = next
      /\ x.snap = t.snap /\ x.answered = t.answered
    BY <1>5, <1>7 DEF TaskRecords
<1>9. x \in TaskRecords
    BY <1>3, <1>4, <1>5, <1>6, <1>7 DEF TaskRecords, TaskPCs
<1>10. Left(x) = Left(t) \ {t.who}
    BY <1>2, <1>3, <1>8 DEF Left, Gone
<1>11. TaskOk(x)
    BY <1>2, <1>4, <1>8, <1>10 DEF TaskOk, Busy, Blank, rest
<1>12. Decided(x)
    BY <1>4, <1>8 DEF Decided
<1> QED
    BY <1>1, <1>4, <1>7, <1>8, <1>9, <1>11, <1>12 DEF done

LEMMA SnapshotOk ==
    ASSUME DataOk, TasksOk, NEW k \in Tasks, TakeSnapshot(k)
    PROVE  DataOk' /\ TasksOk'
<1>1. PICK t \in TaskRecords : t = task[k]
    BY DEF TasksOk
<1>2. TaskOk(t) /\ t.pc = "spawned"
    BY <1>1 DEF TasksOk, TakeSnapshot
<1>3. PICK todo : todo = [p \in Persons |->
                            IF findings[p] = Unchecked THEN corrected[p] ELSE Deleted]
    OBVIOUS
<1>4. todo \in Copies
    BY <1>3 DEF DataOk, Copies, Gone
<1>5. PICK x : x = [t EXCEPT !.pc = "sweep", !.todo = todo, !.snap = todo]
    OBVIOUS
<1>6. /\ x \in TaskRecords /\ x.pc = "sweep" /\ x.todo = todo /\ x.snap = todo
      /\ x.batch = t.batch
    BY <1>4, <1>5 DEF TaskRecords, TaskPCs
<1>7. t.batch = {}
    BY <1>2, NobodyIs DEF TaskOk, Left, Blank
<1>8. TaskOk(x) /\ Decided(x)
    BY <1>6, <1>7 DEF TaskOk, Decided, Busy, Blank, Left
<1>9. TaskBecomes(k, x) /\ corrected' = corrected /\ UNCHANGED projection
    BY <1>1, <1>3, <1>5 DEF TakeSnapshot, projection
<1> QED
    BY <1>6, <1>8, <1>9, BecomesOk, DataSame

LEMMA ConsultOk ==
    ASSUME TasksOk, NEW k \in Tasks, NEW batch \in SUBSET Persons, Consult(k, batch)
    PROVE  TasksOk'
<1>1. PICK t \in TaskRecords : t = task[k]
    BY DEF TasksOk
<1>2. TaskOk(t) /\ t.pc = "sweep" /\ batch \subseteq Left(t) /\ t.answered \subseteq Persons
    BY <1>1, TaskFields DEF TasksOk, Consult, IsChunk, Todo, Left
<1>3. PICK x : x = [t EXCEPT !.pc = "record", !.batch = batch, !.answered = t.answered \cup batch]
    OBVIOUS
<1>4. /\ x \in TaskRecords /\ x.pc = "record" /\ x.batch = batch /\ x.todo = t.todo
      /\ x.answered = t.answered \cup batch /\ x.snap = t.snap
    BY <1>2, <1>3 DEF TaskRecords, TaskPCs
<1>5. TaskOk(x) /\ Decided(x)
    BY <1>2, <1>4 DEF TaskOk, Decided, Busy, Blank, Left
<1>6. StreamMoves(k, x) /\ corrected' = corrected
    BY <1>1, <1>3 DEF Consult, projection
<1> QED
    BY <1>4, <1>5, <1>6, BecomesOk

LEMMA PickResultOk ==
    ASSUME TasksOk, NEW k \in Tasks, NEW p \in Persons, PickResult(k, p)
    PROVE  TasksOk'
<1>1. PICK t \in TaskRecords : t = task[k]
    BY DEF TasksOk
<1>2. TaskOk(t) /\ p \in t.batch
    BY <1>1 DEF TasksOk, PickResult
<1>3. PICK x : x = [t EXCEPT !.pc = "decide", !.who = p, !.tries = Attempts]
    OBVIOUS
<1>4. Attempts \in 0..Attempts /\ Attempts > 0
    BY BoundsAssumption
<1>5. /\ x \in TaskRecords /\ x.pc = "decide" /\ x.batch = t.batch /\ x.todo = t.todo
      /\ x.answered = t.answered /\ x.snap = t.snap /\ x.who = p /\ x.tries = Attempts
    BY <1>3, <1>4 DEF TaskRecords, TaskPCs
<1>6. TaskOk(x) /\ Decided(x)
    BY <1>2, <1>4, <1>5 DEF TaskOk, Decided, Busy, Blank, Left
<1>7. TaskBecomes(k, x) /\ corrected' = corrected
    BY <1>1, <1>3 DEF PickResult, projection
<1> QED
    BY <1>5, <1>6, <1>7, BecomesOk

LEMMA DecideOk ==
    ASSUME TasksOk, NEW k \in Tasks, Decide(k)
    PROVE  TasksOk'
<1>1. PICK t \in TaskRecords : t = task[k]
    BY DEF TasksOk
<1>2. TaskOk(t) /\ t.pc = "decide" /\ corrected' = corrected
    BY <1>1 DEF TasksOk, Decide, projection
<1>3. CASE corrected[t.who] = t.todo[t.who]
    <2>1. PICK x : x = [t EXCEPT !.pc = "append", !.fresh = TRUE]
        OBVIOUS
    <2>2. /\ x \in TaskRecords /\ x.pc = "append" /\ x.batch = t.batch /\ x.todo = t.todo
          /\ x.answered = t.answered /\ x.snap = t.snap /\ x.who = t.who /\ x.tries = t.tries
        BY <2>1 DEF TaskRecords, TaskPCs
    <2>3. TaskOk(x)
        BY <1>2, <2>2 DEF TaskOk, Busy, Blank, Left
    <2>4. Decided(x)
        BY <1>3, <2>2 DEF Decided
    <2>5. TaskBecomes(k, x)
        BY <1>1, <1>3, <2>1 DEF Decide
    <2> QED
        BY <1>2, <2>2, <2>3, <2>4, <2>5, BecomesOk
<1>4. CASE corrected[t.who] # t.todo[t.who]
    <2>1. TaskBecomes(k, Dealt(k))
        BY <1>1, <1>4 DEF Decide
    <2> QED
        BY <1>1, <1>2, <2>1, DealtIs, BecomesOk DEF Busy
<1> QED
    BY <1>3, <1>4

LEMMA ConflictsOk ==
    ASSUME TasksOk, NEW k \in Tasks, ResultConflicts(k)
    PROVE  TasksOk'
<1>1. PICK t \in TaskRecords : t = task[k]
    BY DEF TasksOk
<1>2. TaskOk(t) /\ t.pc = "append" /\ corrected' = corrected
    BY <1>1 DEF TasksOk, ResultConflicts, projection
<1>3. CASE t.tries # 1
    <2>1. PICK x : x = [t EXCEPT !.pc = "decide", !.tries = t.tries - 1]
        OBVIOUS
    <2>2. t.tries - 1 \in 0..Attempts /\ t.tries - 1 > 0
        BY <1>2, <1>3, BoundsAssumption, TaskFields DEF TaskOk, Busy
    <2>3. /\ x \in TaskRecords /\ x.pc = "decide" /\ x.batch = t.batch /\ x.todo = t.todo
          /\ x.answered = t.answered /\ x.snap = t.snap /\ x.who = t.who /\ x.tries = t.tries - 1
        BY <2>1, <2>2 DEF TaskRecords, TaskPCs
    <2>4. TaskOk(x) /\ Decided(x)
        BY <1>2, <2>2, <2>3 DEF TaskOk, Busy, Blank, Left, Decided
    <2>5. TaskBecomes(k, x)
        BY <1>1, <1>3, <2>1 DEF ResultConflicts
    <2> QED
        BY <1>2, <2>3, <2>4, <2>5, BecomesOk
<1>4. CASE t.tries = 1
    <2>1. TaskBecomes(k, Dealt(k))
        BY <1>1, <1>4 DEF ResultConflicts
    <2> QED
        BY <1>1, <1>2, <2>1, DealtIs, BecomesOk DEF Busy
<1> QED
    BY <1>3, <1>4

LEMMA ResultOk ==
    ASSUME DataOk, TasksOk, NEW k \in Tasks, RecordResult(k)
    PROVE  DataOk' /\ TasksOk'
<1>1. PICK t \in TaskRecords : t = task[k]
    BY DEF TasksOk
<1>2. TaskOk(t) /\ Decided(t) /\ t.pc = "append" /\ t.fresh /\ corrected' = corrected
    BY <1>1 DEF TasksOk, RecordResult, CheckedEvent
<1>3. t.who \in Persons /\ t.todo[t.who] \notin Gone /\ corrected[t.who] = t.todo[t.who]
    BY <1>2 DEF TaskOk, Decided, Busy, Left
<1>4. corrected[t.who] \in PersonRecords
    BY <1>3 DEF DataOk, Copies
<1>5. t.todo[t.who].value \in Values /\ corrected[t.who].value = t.todo[t.who].value
    BY <1>3, <1>4 DEF PersonRecords
<1>6. CheckedEvent(t.who, t.todo[t.who].value, InstanceOf[k]) /\ StreamMoves(k, Dealt(k))
    BY <1>1 DEF RecordResult
<1>7. DataOk'
    <2>1. InstanceOf[k] \in Instances \cup {"member"}
        BY DEF Instances
    <2> QED
        BY <1>3, <1>5, <1>6, <2>1, CheckedOk
<1>8. TasksOk'
    BY <1>1, <1>2, <1>6, DealtIs, BecomesOk DEF Busy
<1> QED
    BY <1>7, <1>8

LEMMA FailOk ==
    ASSUME TasksOk, NEW k \in Tasks, ConsultFails(k) \/ SweepFails(k)
    PROVE  TasksOk'
<1>1. PICK t \in TaskRecords : t = task[k]
    BY DEF TasksOk
<1>2. TaskOk(t) /\ corrected' = corrected
    BY <1>1 DEF TasksOk, ConsultFails, SweepFails, projection
<1>3. ASSUME NEW x, \/ x = [t EXCEPT !.pc = "failed"]
                    \/ x = [t EXCEPT !.pc = "failed", !.fresh = FALSE]
      PROVE  x \in TaskRecords /\ TaskOk(x) /\ Decided(x)
    <2>1. /\ x \in TaskRecords /\ x.pc = "failed" /\ x.batch = t.batch /\ x.todo = t.todo
          /\ x.answered = t.answered /\ x.snap = t.snap
        BY <1>3 DEF TaskRecords, TaskPCs
    <2> QED
        BY <1>2, <2>1, OnlyPc DEF Busy, Blank
<1>4. CASE ConsultFails(k)
    <2>1. PICK x : x = [t EXCEPT !.pc = "failed"]
        OBVIOUS
    <2>2. StreamMoves(k, x)
        BY <1>1, <1>4, <2>1 DEF ConsultFails
    <2> QED
        BY <1>2, <1>3, <2>1, <2>2, BecomesOk
<1>5. CASE SweepFails(k)
    <2>1. PICK x : x = [t EXCEPT !.pc = "failed", !.fresh = FALSE]
        OBVIOUS
    <2>2. TaskBecomes(k, x)
        BY <1>1, <1>5, <2>1 DEF SweepFails
    <2> QED
        BY <1>2, <1>3, <2>1, <2>2, BecomesOk
<1> QED
    BY <1>4, <1>5

LEMMA StatusOk ==
    ASSUME DataOk, NEW s \in {"InProgress", "Aborted", "Finished"}, StatusEvent(s)
    PROVE  DataOk' /\ corrected' = corrected
BY DEF StatusEvent, DataOk, SweptIsCurrent, Current

LEMMA StartedOk ==
    ASSUME DataOk, TasksOk, NEW k \in Tasks, RecordStarted(k)
    PROVE  DataOk' /\ TasksOk'
<1>1. PICK t \in TaskRecords : t = task[k]
    BY DEF TasksOk
<1>2. TaskOk(t) /\ t.pc = "claimed" /\ StatusEvent("InProgress")
    BY <1>1 DEF TasksOk, RecordStarted
<1>3. PICK x : x = [t EXCEPT !.pc = "spawned"]
    OBVIOUS
<1>4. /\ x \in TaskRecords /\ x.pc = "spawned" /\ x.batch = t.batch /\ x.todo = t.todo
      /\ x.answered = t.answered /\ x.snap = t.snap
    BY <1>3 DEF TaskRecords, TaskPCs
<1>5. TaskOk(x) /\ Decided(x)
    BY <1>2, <1>4, OnlyPc DEF Blank
<1>6. StreamMoves(k, x)
    BY <1>1, <1>3 DEF RecordStarted
<1> QED
    BY <1>2, <1>4, <1>5, <1>6, StatusOk, BecomesOk

(* The steps that leave nothing of a sweep behind.                          *)
LEMMA EmptyOk ==
    ASSUME DataOk, TasksOk, NEW k \in Tasks,
           \/ Claim(k) \/ StartFails(k) \/ RecordFinished(k) \/ RecordAborted(k)
           \/ AbortFails(k) \/ DropClaim(k)
    PROVE  DataOk' /\ TasksOk'
<1>1. CASE Claim(k) \/ StartFails(k) \/ AbortFails(k) \/ DropClaim(k)
    <2>1. UNCHANGED projection /\ corrected' = corrected
        BY <1>1 DEF Claim, StartFails, AbortFails, DropClaim, projection
    <2>2. PICK x : /\ TaskBecomes(k, x)
                   /\ x = NoTask \/ \E pc \in {"claimed", "closing"} : x = [NoTask EXCEPT !.pc = pc]
        BY <1>1 DEF Claim, StartFails, AbortFails, DropClaim
    <2>3. x \in TaskRecords /\ TaskOk(x) /\ Decided(x)
        BY <2>2, NoTaskIs
    <2> QED
        BY <2>1, <2>2, <2>3, DataSame, BecomesOk
<1>2. CASE RecordFinished(k) \/ RecordAborted(k)
    <2>1. DataOk' /\ corrected' = corrected
        BY <1>2, StatusOk DEF RecordFinished, RecordAborted
    <2>2. PICK x : StreamMoves(k, x) /\ x = [NoTask EXCEPT !.pc = "closing"]
        BY <1>2 DEF RecordFinished, RecordAborted
    <2>3. x \in TaskRecords /\ TaskOk(x) /\ Decided(x)
        BY <2>2, NoTaskIs
    <2> QED
        BY <2>1, <2>2, <2>3, BecomesOk
<1> QED
    BY <1>1, <1>2

LEMMA CrashOk ==
    ASSUME DataOk, TasksOk, NEW i, Crash(i)
    PROVE  DataOk' /\ TasksOk'
<1>1. NoTask \in TaskRecords /\ TaskOk(NoTask) /\ Decided(NoTask)
    BY NoTaskIs
<1>2. task' = [k \in Tasks |-> IF InstanceOf[k] = i THEN NoTask ELSE task[k]]
      /\ UNCHANGED projection /\ corrected' = corrected
    BY DEF Crash, projection
<1>3. \A k \in Tasks : task'[k] \in TaskRecords /\ TaskOk(task'[k]) /\ Decided(task'[k])
    BY <1>1, <1>2 DEF TasksOk
<1>4. \A k \in Tasks : TaskOk(task[k])' /\ Decided(task[k])'
    BY <1>2, <1>3 DEF TaskOk, Left, Decided
<1>5. task' \in [Tasks -> TaskRecords]
    BY <1>2, <1>3
<1> QED
    BY <1>2, <1>4, <1>5, DataSame DEF TasksOk

LEMMA SweepOk ==
    ASSUME DataOk, TasksOk, NEW k \in Tasks, Sweep(k)
    PROVE  DataOk' /\ TasksOk'
<1>1. CASE \/ (\E batch \in SUBSET Persons : Consult(k, batch)) \/ ConsultFails(k)
           \/ (\E p \in Persons : PickResult(k, p)) \/ Decide(k) \/ ResultConflicts(k)
           \/ SweepFails(k)
    <2>1. UNCHANGED projection
        BY <1>1 DEF Consult, ConsultFails, PickResult, Decide, ResultConflicts, SweepFails
    <2> QED
        BY <1>1, <2>1, DataSame, ConsultOk, FailOk, PickResultOk, DecideOk, ConflictsOk
<1> QED
    BY <1>1, StartedOk, EmptyOk, SnapshotOk, ResultOk DEF Sweep

-----------------------------------------------------------------------------
(* The steps of members.                                                    *)

LEMMA PaperSteps ==
    ASSUME DataOk, NEW q \in Persons,
           \/ (\E v \in Values : PaperUpdate(q, v)) \/ PaperDelete(q)
           \/ (\E x \in PersonRecords : PaperCreate(q, x))
           \/ (\E r \in Rest : PaperUpdateRest(q, r))
    PROVE  DataOk'
<1>0. paper \in Copies /\ \A p \in Persons : paper[p] \in PersonRecords \cup Gone
    BY DEF DataOk, Copies
<1>1. CASE PaperDelete(q) \/ (\E x \in PersonRecords : PaperCreate(q, x))
    <2>1. PICK x \in PersonRecords \cup Gone : PaperEvent([paper EXCEPT ![q] = x], {q})
        BY <1>1 DEF PaperDelete, PaperCreate, Gone
    <2>2. /\ [paper EXCEPT ![q] = x] \in Copies
          /\ \A p \in Persons \ {q} : [paper EXCEPT ![q] = x][p] = paper[p]
        BY <1>0 DEF Copies
    <2> QED
        BY <2>1, <2>2, PaperOk
<1>2. CASE \E v \in Values : PaperUpdate(q, v)
    <2>1. PICK v \in Values : paper[q] \notin Gone /\ PaperEvent([paper EXCEPT ![q].value = v], {q})
        BY <1>2 DEF PaperUpdate
    <2>2. [paper[q] EXCEPT !.value = v] \in PersonRecords
        BY <1>0, <2>1 DEF PersonRecords
    <2>3. /\ [paper EXCEPT ![q].value = v] \in Copies
          /\ \A p \in Persons \ {q} : [paper EXCEPT ![q].value = v][p] = paper[p]
        BY <1>0, <2>2 DEF Copies
    <2> QED
        BY <2>1, <2>3, PaperOk
<1>3. CASE \E r \in Rest : PaperUpdateRest(q, r)
    <2>1. PICK r \in Rest : paper[q] \notin Gone /\ PaperEvent([paper EXCEPT ![q].rest = r], {})
        BY <1>3 DEF PaperUpdateRest
    <2>2. PICK x : x = [paper[q] EXCEPT !.rest = r]
        OBVIOUS
    <2>3. x \in PersonRecords /\ x.value = paper[q].value /\ x \notin Gone
        BY <1>0, <2>1, <2>2, GoneAssumption DEF PersonRecords
    <2>4. /\ [paper EXCEPT ![q] = x] \in Copies /\ [paper EXCEPT ![q] = x][q] = x
          /\ \A p \in Persons \ {q} : [paper EXCEPT ![q] = x][p] = paper[p]
          /\ [paper EXCEPT ![q].rest = r] = [paper EXCEPT ![q] = x]
        BY <1>0, <2>2, <2>3 DEF Copies
    <2> QED
        BY <2>1, <2>3, <2>4, PaperOk, ZenonT(40)
<1> QED
    BY <1>1, <1>2, <1>3

LEMMA PageSteps ==
    ASSUME DataOk, OthersOk, NEW m \in Members,
           \/ (\E p \in Persons, i \in 1..Cardinality(Kinds) : OpenPage(m, p, i))
           \/ SendHandled(m) \/ RecordHandled(m)
    PROVE  /\ page' \in [Members -> PageRecords]
           /\ \A n \in Members : page'[n].pc # "none" => page'[n].person \in Persons
<1>0. ASSUME NEW x \in PageRecords, page' = [page EXCEPT ![m] = x],
             x.pc # "none" => x.person \in Persons
      PROVE  /\ page' \in [Members -> PageRecords]
             /\ \A n \in Members : page'[n].pc # "none" => page'[n].person \in Persons
    BY <1>0 DEF OthersOk
<1>1. /\ page \in [Members -> PageRecords] /\ page[m] \in PageRecords
      /\ NoPage \in PageRecords /\ page[m].person \in Persons \cup {NoPerson}
      /\ page[m].index \in Nat /\ page[m].handled \in BOOLEAN /\ NoPage.pc = "none"
      /\ page[m].pc # "none" => page[m].person \in Persons
    BY DEF OthersOk, PageRecords, NoPage
<1>2. CASE \E p \in Persons, i \in 1..Cardinality(Kinds) : OpenPage(m, p, i)
    <2>1. PICK p \in Persons, i \in 1..Cardinality(Kinds) : OpenPage(m, p, i)
        BY <1>2
    <2>2. PICK h \in BOOLEAN :
            page' = [page EXCEPT ![m] = [NoPage EXCEPT !.pc = "open", !.person = p, !.index = i,
                                            !.handled = h]]
        BY <2>1 DEF OpenPage
    <2>3. PICK x : x = [NoPage EXCEPT !.pc = "open", !.person = p, !.index = i, !.handled = h]
        OBVIOUS
    <2>4. i \in Nat
        OBVIOUS
    <2>5. x \in PageRecords /\ x.person = p
        BY <2>3, <2>4 DEF NoPage, PageRecords
    <2> QED
        BY <1>0, <2>2, <2>3, <2>5
<1>3. CASE SendHandled(m)
    <2> DEFINE f == findings[page[m].person]
               now == IF f = Unchecked THEN << >> ELSE Finds[f.about]
    <2>1. page[m].pc = "open" /\ page' = [page EXCEPT ![m] =
                        IF page[m].index \notin DOMAIN now THEN NoPage
                        ELSE [@ EXCEPT !.pc = "sent", !.names = now[page[m].index]]]
        BY <1>3 DEF SendHandled
    <2>2. CASE page[m].index \notin DOMAIN now
        BY <1>0, <1>1, <2>1, <2>2
    <2>3. CASE page[m].index \in DOMAIN now
        <3>1. now[page[m].index] \in Kinds
            <4>1. f # Unchecked /\ now = Finds[f.about]
                BY <2>3
            <4>2. f \in FindingRecords
                BY <1>1, <2>1, <4>1 DEF DataOk
            <4>3. f.about \in Values
                BY <4>2 DEF FindingRecords
            <4> QED
                BY <2>3, <4>1, <4>3 DEF Kinds
        <3>2. page' = [page EXCEPT ![m] =
                         [page[m] EXCEPT !.pc = "sent", !.names = now[page[m].index]]]
            BY <2>1, <2>3
        <3> HIDE DEF now
        <3>3. PICK x : x = [page[m] EXCEPT !.pc = "sent", !.names = now[page[m].index]]
            OBVIOUS
        <3>4. x \in PageRecords /\ x.person = page[m].person
            BY <1>1, <3>1, <3>3 DEF PageRecords
        <3> QED
            BY <1>0, <1>1, <2>1, <3>2, <3>3, <3>4
    <2> QED
        BY <2>2, <2>3
<1>4. CASE RecordHandled(m)
    BY <1>0, <1>1, <1>4 DEF RecordHandled
<1> QED
    BY <1>2, <1>3, <1>4

LEMMA MemberCounts ==
    ASSUME TasksOk, MemberEvent, edits \in Nat
    PROVE  TasksOk' /\ edits' \in Nat /\ UNCHANGED <<claims, starts>>
BY MovedOk DEF MemberEvent

LEMMA MemberOk ==
    ASSUME BrpInv, Member
    PROVE  BrpInv'
<1>0. DataOk /\ TasksOk /\ OthersOk
    BY DEF BrpInv
<1>1. ASSUME NEW p \in Persons,
             \/ \E v \in Values : Correct(p, v) \/ PaperUpdate(p, v)
             \/ PaperDelete(p) \/ (\E x \in PersonRecords : PaperCreate(p, x))
             \/ \E r \in Rest : PaperUpdateRest(p, r)
      PROVE  BrpInv'
    <2>1. MemberEvent /\ UNCHANGED pages
        BY <1>1 DEF Correct, PaperUpdate, PaperDelete, PaperCreate, PaperUpdateRest
    <2>2. DataOk'
        BY <1>0, <1>1, PaperSteps, CorrectionOk DEF Correct
    <2> QED
        BY <1>0, <2>1, <2>2, MemberCounts DEF BrpInv, OthersOk, pages
<1>2. CASE OtherEvent
    BY <1>0, <1>2, MemberCounts, DataSame DEF BrpInv, OthersOk, OtherEvent, pages
<1>3. ASSUME NEW m \in Members,
             \/ \E p \in Persons, i \in 1..Cardinality(Kinds) : OpenPage(m, p, i)
             \/ SendHandled(m)
      PROVE  BrpInv'
    <2>1. UNCHANGED <<projection, single, claims, task, edits, starts>>
        BY <1>3 DEF OpenPage, SendHandled
    <2>2. TasksOk'
        <3>1. task' = task /\ corrected' = corrected
            BY <2>1 DEF projection
        <3> QED
            BY <1>0, <3>1 DEF TasksOk, TaskOk, Decided, Left
    <2> QED
        BY <1>0, <1>3, <2>1, <2>2, PageSteps, DataSame DEF BrpInv, OthersOk
<1>4. ASSUME NEW m \in Members, RecordHandled(m)
      PROVE  BrpInv'
    <2>1. page[m].person \in Persons /\ page[m].handled \in BOOLEAN
        BY <1>0, <1>4 DEF OthersOk, RecordHandled, PageRecords
    <2>2. DataOk'
        BY <1>0, <1>4, <2>1, HandledOk DEF RecordHandled
    <2>3. MemberEvent /\ UNCHANGED single
        BY <1>4 DEF RecordHandled
    <2> QED
        BY <1>0, <1>4, <2>2, <2>3, MemberCounts, PageSteps DEF BrpInv, OthersOk
<1>5. ASSUME NEW m \in Members, NEW p \in Persons, AskOne(m, p)
      PROVE  BrpInv'
    <2>1. corrected[p] \in PersonRecords
        BY <1>0, <1>5 DEF AskOne, DataOk, Copies
    <2>2. [person |-> p, value |-> corrected[p].value] \in SingleRecords
        BY <2>1 DEF SingleRecords, PersonRecords
    <2>3. single' \in [Members -> SingleRecords \cup {NoSingle}]
        BY <1>0, <1>5, <2>2 DEF AskOne, OthersOk
    <2>4. UNCHANGED <<projection, page, claims, task, edits, starts>>
        BY <1>5 DEF AskOne
    <2>5. TasksOk'
        <3>1. task' = task /\ corrected' = corrected
            BY <2>4 DEF projection
        <3> QED
            BY <1>0, <3>1 DEF TasksOk, TaskOk, Decided, Left
    <2> QED
        BY <1>0, <2>3, <2>4, <2>5, DataSame DEF BrpInv, OthersOk
<1>6. ASSUME NEW m \in Members, RecordOne(m) \/ AskOneFails(m)
      PROVE  BrpInv'
    <2>1. single' \in [Members -> SingleRecords \cup {NoSingle}] /\ UNCHANGED page /\ MemberEvent
        BY <1>0, <1>6 DEF RecordOne, AskOneFails, OthersOk
    <2>2. DataOk'
        <3>1. CASE RecordOne(m)
            <4>1. single[m] \in SingleRecords
                BY <1>0, <3>1 DEF RecordOne, OthersOk
            <4>2. single[m].person \in Persons /\ single[m].value \in Values
                BY <4>1 DEF SingleRecords
            <4> QED
                BY <1>0, <3>1, <4>2, CheckedOk DEF RecordOne
        <3>2. CASE AskOneFails(m)
            BY <1>0, <3>2, DataSame DEF AskOneFails
        <3> QED
            BY <1>6, <3>1, <3>2
    <2> QED
        BY <1>0, <2>1, <2>2, MemberCounts DEF BrpInv, OthersOk
<1> QED
    BY <1>1, <1>2, <1>3, <1>4, <1>5, <1>6 DEF Member

-----------------------------------------------------------------------------
(* The invariant holds.                                                     *)

LEMMA InitOk ==
    ASSUME Init
    PROVE  BrpInv
<1>1. Imported \in Copies /\ paper = Imported /\ corrected = Imported
    BY ImportedAssumption DEF Init, Copies, Gone
<1>2. delta = [p \in Persons |-> NoDelta] /\ findings = [p \in Persons |-> Unchecked]
    BY DEF Init
<1>3. Refreshed(paper, delta) = Imported
    <2>1. \A p \in Persons : Refreshed(paper, delta)[p] = Imported[p]
        BY <1>1, <1>2 DEF Refreshed
    <2> QED
        BY <1>1, <2>1 DEF Refreshed, Copies
<1>4. DataOk
    BY <1>1, <1>2, <1>3 DEF Init, DataOk, SweptIsCurrent
<1>5. NoTask \in TaskRecords /\ TaskOk(NoTask) /\ Decided(NoTask)
    BY NoTaskIs
<1>6. TasksOk
    BY <1>5 DEF Init, TasksOk
<1>7. NoPage \in PageRecords /\ NoPage.pc = "none"
    BY DEF NoPage, PageRecords
<1>8. OthersOk
    BY <1>7, BoundsAssumption DEF Init, OthersOk
<1> QED
    BY <1>4, <1>6, <1>8 DEF BrpInv

LEMMA BrpStep ==
    ASSUME BrpInv, [Next]_vars
    PROVE  BrpInv'
<1>0. DataOk /\ TasksOk /\ OthersOk
    BY DEF BrpInv
<1>1. ASSUME UNCHANGED vars
      PROVE  BrpInv'
    <2>1. UNCHANGED <<projection, claims, task, page, single, edits, starts>>
        BY <1>1 DEF vars, pages
    <2>2. task' = task /\ corrected' = corrected
        BY <2>1 DEF projection
    <2>3. TasksOk'
        BY <1>0, <2>2 DEF TasksOk, TaskOk, Decided, Left
    <2> QED
        BY <1>0, <2>1, <2>3, DataSame DEF BrpInv, OthersOk
<1>2. ASSUME NEW k \in Tasks, Claim(k) \/ Sweep(k)
      PROVE  BrpInv'
    <2>1. DataOk' /\ TasksOk'
        BY <1>0, <1>2, EmptyOk, SweepOk
    <2>2. InstanceOf[k] \in Instances
        BY DEF Instances
    <2>3. OthersOk'
        <3>1. CASE Claim(k)
            <4>1. claims' \subseteq Instances /\ starts' \in Seq(Tasks)
                BY <1>0, <2>2, <3>1, BoundsAssumption DEF Claim, OthersOk
            <4> QED
                BY <1>0, <3>1, <4>1 DEF Claim, OthersOk, pages
        <3>2. CASE Sweep(k)
            <4>1. claims' \subseteq claims /\ UNCHANGED <<pages, edits, starts>>
                BY <3>2 DEF Sweep, RecordStarted, StartFails, TakeSnapshot, Consult, ConsultFails,
                       PickResult, Decide, RecordResult, ResultConflicts, RecordFinished,
                       SweepFails, RecordAborted, AbortFails, DropClaim, Release
            <4> QED
                BY <1>0, <4>1, SMTT(40) DEF OthersOk, pages
        <3> QED
            BY <1>2, <3>1, <3>2
    <2> QED
        BY <2>1, <2>3 DEF BrpInv
<1>3. ASSUME NEW i \in Instances, Crash(i)
      PROVE  BrpInv'
    BY <1>0, <1>3, CrashOk DEF BrpInv, OthersOk, Crash, pages
<1> QED
    BY <1>1, <1>2, <1>3, MemberOk DEF Next

(* BrpInv is inductive: the corrected data are the paper data with the      *)
(* committee's corrections, a task's batch has been answered and is still   *)
(* to be recorded, and a decision nothing came after is still right.        *)
THEOREM BrpHolds == Spec => []BrpInv
<1>1. BrpInv /\ [Next]_vars => BrpInv'
    BY BrpStep
<1> QED
    BY <1>1, InitOk, PTL DEF Spec

(* TypeOK: among the rest, a result has an attempt left while it is being   *)
(* recorded.                                                                *)
THEOREM TypeCorrect == Spec => []TypeOK
<1>1. BrpInv => TypeOK
    BY DEF BrpInv, DataOk, TasksOk, OthersOk, TypeOK, FindingRecords, TaskOk, Busy
<1> QED
    BY <1>1, BrpHolds, PTL

(* SweptIsCurrent, for any number of sweeps of any processes, of members    *)
(* who correct meanwhile, and of single checks: record_brp_result compares  *)
(* the candidate in the closure of update_when, and every event that        *)
(* changes compared data forgets the check.                                 *)
THEOREM SweptCurrent == Spec => []SweptIsCurrent
<1>1. BrpInv => SweptIsCurrent
    BY DEF BrpInv, DataOk
<1> QED
    BY <1>1, BrpHolds, PTL

-----------------------------------------------------------------------------
(* What a step of one sweep does, to itself and to the others.              *)

LEMMA OthersStay ==
    ASSUME TasksOk, NEW k \in Tasks, NEW x, TaskBecomes(k, x) \/ StreamMoves(k, x)
    PROVE  /\ task'[k] = x
           /\ \A l \in Tasks \ {k} : task'[l].pc = task[l].pc /\ task'[l].todo = task[l].todo
<1>1. DOMAIN task = Tasks /\ DOMAIN Moved(task) = Tasks
    BY DEF TasksOk, Moved
<1>2. \A l \in Tasks : Moved(task)[l].pc = task[l].pc /\ Moved(task)[l].todo = task[l].todo
    BY StaleIs DEF TasksOk, Moved
<1>3. CASE TaskBecomes(k, x)
    BY <1>1, <1>3 DEF TaskBecomes
<1>4. CASE StreamMoves(k, x)
    <2>1. task' = [Moved(task) EXCEPT ![k] = x]
        BY <1>4 DEF StreamMoves
    <2> QED
        BY <1>1, <1>2, <2>1
<1> QED
    BY <1>3, <1>4

SweepStep(k, x) ==
    /\ TaskBecomes(k, x) \/ StreamMoves(k, x)
    /\ task[k].pc # "idle"
    /\ x.pc = "idle" => claims' = claims \ {InstanceOf[k]}
    /\ x.pc # "idle" => claims' = claims
    /\ task[k].pc = "sweep" /\ x.pc = "closing" => Left(task[k]) = {}
    /\ \/ /\ findings' = findings
          /\ \A p \in Persons : x.todo[p] \in Gone \/ x.todo[p] = task[k].todo[p]
                                \/ findings[p] = Unchecked
       \/ \E q \in Left(task[k]) :
             /\ \A p \in Persons \ {q} : findings'[p] = findings[p]
             /\ findings'[q].by = InstanceOf[k]
             /\ x.todo = [task[k].todo EXCEPT ![q] = Deleted]
    /\ UNCHANGED pages

LEMMA SweepSteps ==
    ASSUME DataOk, TasksOk, NEW k \in Tasks, Sweep(k)
    PROVE  \E x : SweepStep(k, x)
<1>1. PICK t \in TaskRecords : t = task[k]
    BY DEF TasksOk
<1>2. TaskOk(t) /\ t.todo \in Copies /\ NoTask.pc = "idle" /\ NoTask.todo = Nobody
    BY <1>1, TaskFields, NoTaskFields DEF TasksOk
<1>3. \A p \in Persons : Nobody[p] \in Gone
    BY NobodyIs
<1>4. CASE \/ StartFails(k) \/ DropClaim(k)
    <2>1. /\ TaskBecomes(k, NoTask) /\ findings' = findings /\ task[k].pc \in {"claimed", "closing"}
          /\ claims' = claims \ {InstanceOf[k]} /\ UNCHANGED pages
        BY <1>4 DEF StartFails, DropClaim, projection, Release
    <2>2. SweepStep(k, NoTask)
        BY <1>2, <1>3, <2>1 DEF SweepStep
    <2> QED
        BY <2>2
<1>5. CASE RecordFinished(k) \/ RecordAborted(k) \/ AbortFails(k)
    <2>1. PICK x : x = [NoTask EXCEPT !.pc = "closing"]
        OBVIOUS
    <2>2. x.pc = "closing" /\ x.todo = Nobody
        BY <2>1, NoTaskIs
    <2>3. /\ TaskBecomes(k, x) \/ StreamMoves(k, x)
          /\ findings' = findings /\ claims' = claims /\ UNCHANGED pages
          /\ task[k].pc \in {"sweep", "failed"} /\ (task[k].pc = "sweep" => Left(task[k]) = {})
        BY <1>5, <2>1 DEF RecordFinished, RecordAborted, AbortFails, projection, StatusEvent,
                          Todo, Left
    <2>4. SweepStep(k, x)
        BY <1>3, <2>2, <2>3 DEF SweepStep
    <2> QED
        BY <2>4
<1>6. ASSUME NEW x, TaskBecomes(k, x) \/ StreamMoves(k, x),
             UNCHANGED <<findings, claims, pages>>, t.pc # "idle", x.pc \notin {"idle", "closing"},
             x.todo = t.todo
      PROVE  SweepStep(k, x)
    BY <1>1, <1>6 DEF SweepStep
<1>7. CASE ConsultFails(k) \/ SweepFails(k) \/ RecordStarted(k)
    <2>1. PICK x : /\ TaskBecomes(k, x) \/ StreamMoves(k, x)
                   /\ \/ x = [t EXCEPT !.pc = "failed"] \/ x = [t EXCEPT !.pc = "spawned"]
                      \/ x = [t EXCEPT !.pc = "failed", !.fresh = FALSE]
        BY <1>1, <1>7 DEF ConsultFails, SweepFails, RecordStarted
    <2>2. x.pc \in {"failed", "spawned"} /\ x.todo = t.todo
        BY <2>1 DEF TaskRecords
    <2>3. UNCHANGED <<findings, claims, pages>> /\ t.pc # "idle"
        BY <1>1, <1>7 DEF ConsultFails, SweepFails, RecordStarted, projection, StatusEvent
    <2> QED
        BY <1>6, <2>1, <2>2, <2>3
<1>8. ASSUME NEW batch \in SUBSET Persons, Consult(k, batch)
      PROVE  \E x : SweepStep(k, x)
    <2>1. PICK x : x = [t EXCEPT !.pc = "record", !.batch = batch, !.answered = @ \cup batch]
        OBVIOUS
    <2>2. x.pc = "record" /\ x.todo = t.todo
        BY <2>1 DEF TaskRecords
    <2>3. StreamMoves(k, x) /\ UNCHANGED <<findings, claims, pages>> /\ t.pc # "idle"
        BY <1>1, <1>8, <2>1 DEF Consult, projection
    <2> QED
        BY <1>6, <2>2, <2>3
<1>9. ASSUME NEW p \in Persons, PickResult(k, p)
      PROVE  \E x : SweepStep(k, x)
    <2>1. PICK x : x = [t EXCEPT !.pc = "decide", !.who = p, !.tries = Attempts]
        OBVIOUS
    <2>2. x.pc = "decide" /\ x.todo = t.todo
        BY <2>1 DEF TaskRecords
    <2>3. TaskBecomes(k, x) /\ UNCHANGED <<findings, claims, pages>> /\ t.pc # "idle"
        BY <1>1, <1>9, <2>1 DEF PickResult, projection
    <2> QED
        BY <1>6, <2>2, <2>3
<1>10. CASE TakeSnapshot(k)
    <2>1. PICK todo : todo = [p \in Persons |->
                            IF findings[p] = Unchecked THEN corrected[p] ELSE Deleted]
        OBVIOUS
    <2>2. PICK x : x = [t EXCEPT !.pc = "sweep", !.todo = todo, !.snap = todo]
        OBVIOUS
    <2>3. x.pc = "sweep" /\ x.todo = todo
        BY <2>2 DEF TaskRecords
    <2>4. /\ TaskBecomes(k, x) /\ findings' = findings /\ claims' = claims /\ UNCHANGED pages
          /\ t.pc # "idle"
        BY <1>1, <1>10, <2>1, <2>2 DEF TakeSnapshot, projection
    <2>5. \A p \in Persons : x.todo[p] \in Gone \/ findings[p] = Unchecked
        BY <2>1, <2>3 DEF Gone
    <2>6. SweepStep(k, x)
        BY <1>1, <2>3, <2>4, <2>5 DEF SweepStep
    <2> QED
        BY <2>6
<1>11. ASSUME t.pc \in Busy
       PROVE  /\ t.who \in Left(t) /\ Dealt(k).pc \in {"sweep", "record"}
              /\ Dealt(k).todo = [t.todo EXCEPT ![t.who] = Deleted]
              /\ \A p \in Persons : Dealt(k).todo[p] \in Gone \/ Dealt(k).todo[p] = t.todo[p]
    <2>1. t.who \in Left(t)
        BY <1>2, <1>11 DEF TaskOk
    <2>2. Dealt(k).pc \in {"sweep", "record"} /\ Dealt(k).todo = [t.todo EXCEPT ![t.who] = Deleted]
        BY <1>1, <1>11, DealtIs
    <2> QED
        BY <1>2, <2>1, <2>2 DEF Copies, Gone
<1>12. CASE Decide(k) \/ ResultConflicts(k)
    <2>1. t.pc \in Busy /\ UNCHANGED <<findings, claims, pages>> /\ t.pc # "idle"
        BY <1>1, <1>12 DEF Decide, ResultConflicts, projection, Busy
    <2>2. PICK x : /\ TaskBecomes(k, x)
                   /\ \/ x = [t EXCEPT !.pc = "append", !.fresh = TRUE]
                      \/ x = [t EXCEPT !.pc = "decide", !.tries = @ - 1]
                      \/ x = Dealt(k)
        <3>1. CASE Decide(k)
            BY <1>1, <3>1 DEF Decide
        <3>2. CASE ResultConflicts(k)
            BY <1>1, <3>2 DEF ResultConflicts
        <3> QED
            BY <1>12, <3>1, <3>2
    <2>3. CASE x = Dealt(k)
        <3>1. SweepStep(k, x)
            BY <1>1, <1>11, <2>1, <2>2, <2>3 DEF SweepStep
        <3> QED
            BY <3>1
    <2>4. CASE x # Dealt(k)
        <3>1. x.pc \in {"append", "decide"} /\ x.todo = t.todo
            BY <2>2, <2>4 DEF TaskRecords
        <3> QED
            BY <1>6, <2>1, <2>2, <3>1
    <2> QED
        BY <2>3, <2>4
<1>13. CASE RecordResult(k)
    <2>1. t.pc \in Busy /\ StreamMoves(k, Dealt(k)) /\ UNCHANGED <<claims, pages>> /\ t.pc # "idle"
        BY <1>1, <1>13 DEF RecordResult, Busy
    <2>2. /\ \A p \in Persons \ {t.who} : findings'[p] = findings[p]
          /\ findings'[t.who].by = InstanceOf[k]
        <3>1. t.who \in Persons /\ DOMAIN findings = Persons
            BY <1>11, <2>1 DEF Left, DataOk
        <3> QED
            BY <1>1, <1>13, <3>1 DEF RecordResult, CheckedEvent
    <2>3. SweepStep(k, Dealt(k))
        BY <1>1, <1>11, <2>1, <2>2 DEF SweepStep
    <2> QED
        BY <2>3
<1> QED
    BY <1>4, <1>5, <1>7, <1>8, <1>9, <1>10, <1>12, <1>13 DEF Sweep

LEMMA MemberTasks ==
    ASSUME TasksOk, Member, NEW l \in Tasks
    PROVE  task'[l].pc = task[l].pc /\ task'[l].todo = task[l].todo /\ claims' = claims
<1>1. claims' = claims /\ (task' = task \/ task' = Moved(task))
    BY DEF Member, Correct, PaperUpdate, PaperDelete, PaperCreate, PaperUpdateRest, OtherEvent,
           OpenPage, SendHandled, RecordHandled, AskOne, RecordOne, AskOneFails, MemberEvent
<1>2. Moved(task)[l].pc = task[l].pc /\ Moved(task)[l].todo = task[l].todo
    BY StaleIs DEF TasksOk, Moved
<1> QED
    BY <1>1, <1>2, SMTT(40)

LEMMA CrashTasks ==
    ASSUME NEW i \in Instances, Crash(i), NEW l \in Tasks
    PROVE  \/ task'[l] = task[l] /\ InstanceOf[l] # i
           \/ task'[l] = NoTask /\ InstanceOf[l] = i
BY DEF Crash

LEMMA ClaimTasks ==
    ASSUME TasksOk, NEW k \in Tasks, Claim(k)
    PROVE  /\ task'[k].pc = "claimed" /\ task'[k].todo = Nobody
           /\ \A l \in Tasks \ {k} : task'[l].pc = task[l].pc /\ task'[l].todo = task[l].todo
<1>1. PICK x : x = [NoTask EXCEPT !.pc = "claimed"]
    OBVIOUS
<1>2. x.pc = "claimed" /\ x.todo = Nobody
    BY <1>1, NoTaskIs
<1> QED
    BY <1>1, <1>2, OthersStay DEF Claim

(* FinishedMeansConsulted, for batches of any size and candidates in any    *)
(* number: a candidate leaves the snapshot's list only after an answer.     *)
THEOREM FinishedConsulted == Spec => FinishedMeansConsulted
<1>1. ASSUME BrpInv, [Next]_vars, NEW k \in Tasks,
             task[k].pc = "sweep", task'[k].pc = "closing"
      PROVE  {p \in Persons : task[k].snap[p] \notin Gone} \subseteq task[k].answered
    <2>1. DataOk /\ TasksOk /\ TaskOk(task[k])
        BY <1>1 DEF BrpInv, TasksOk
    <2>2. Left(task[k]) = {}
        <3>1. CASE UNCHANGED vars
            BY <1>1, <3>1 DEF vars
        <3>2. CASE Member
            BY <1>1, <2>1, <3>2, MemberTasks
        <3>3. ASSUME NEW l \in Tasks, Claim(l)
              PROVE  FALSE
            <4>1. task[l].pc = "idle"
                BY <3>3 DEF Claim
            <4> QED
                BY <1>1, <2>1, <3>3, <4>1, ClaimTasks
        <3>4. ASSUME NEW l \in Tasks, Sweep(l)
              PROVE  Left(task[k]) = {}
            <4>1. PICK x : SweepStep(l, x)
                BY <2>1, <3>4, SweepSteps
            <4> QED
                BY <1>1, <2>1, <4>1, OthersStay DEF SweepStep
        <3>5. ASSUME NEW i \in Instances, Crash(i)
              PROVE  FALSE
            BY <1>1, <3>5, CrashTasks, NoTaskFields
        <3> QED
            BY <1>1, <3>1, <3>2, <3>3, <3>4, <3>5 DEF Next
    <2> QED
        BY <2>1, <2>2 DEF TaskOk
<1>2. BrpInv /\ [Next]_vars =>
        \A k \in Tasks : task[k].pc = "sweep" /\ task'[k].pc = "closing" =>
           {p \in Persons : task[k].snap[p] \notin Gone} \subseteq task[k].answered
    BY <1>1
<1>3. BrpInv /\ [Next]_vars =>
        [\A k \in Tasks : task[k].pc = "sweep" /\ task'[k].pc = "closing" =>
           {p \in Persons : task[k].snap[p] \notin Gone} \subseteq task[k].answered]_vars
    BY <1>2
<1> QED
    BY <1>3, BrpHolds, PTL DEF Spec, FinishedMeansConsulted

-----------------------------------------------------------------------------
(* A process does not sweep a stream twice at once, and no candidate that   *)
(* one of its sweeps put findings on is still to be checked by one.         *)

Swept(p) == findings[p] # Unchecked /\ findings[p].by # "member"
Claimed ==
    /\ \A k \in Tasks : task[k].pc # "idle" => InstanceOf[k] \in claims
    /\ \A k, l \in Tasks : /\ task[k].pc # "idle" /\ task[l].pc # "idle"
                            /\ InstanceOf[k] = InstanceOf[l] => k = l
NoneTwice ==
    \A k \in Tasks : \A p \in Left(task[k]) : Swept(p) => findings[p].by # InstanceOf[k]
SweptOnce == BrpInv /\ Claimed /\ NoneTwice

LEMMA IdleLeft ==
    ASSUME TasksOk, NEW k \in Tasks, task[k].pc = "idle"
    PROVE  Left(task[k]) = {}
BY NobodyIs, TaskAt DEF TaskOk, Blank, Left

(* A member's event puts no finding of a sweep on anyone.                   *)
LEMMA MemberFindings ==
    ASSUME BrpInv, Member, NEW p \in Persons
    PROVE  /\ Swept(p)' => Swept(p) /\ findings'[p].by = findings[p].by
           /\ Swept(p)' => \/ findings'[p].handled = findings[p].handled
                           \/ \E m \in Members : /\ RecordHandled(m) /\ page[m].person = p
                                                 /\ page[m].handled =>
                                                      findings[p].handled \subseteq findings'[p].handled
<1>0. DataOk /\ OthersOk /\ findings \in [Persons -> FindingRecords \cup {Unchecked}]
    BY SMTT(40) DEF BrpInv, DataOk
<1>1. ASSUME \/ \E q \in Persons, v \in Values : Correct(q, v) \/ PaperUpdate(q, v)
             \/ \E q \in Persons : PaperDelete(q)
             \/ \E q \in Persons, x \in PersonRecords : PaperCreate(q, x)
             \/ \E q \in Persons, r \in Rest : PaperUpdateRest(q, r)
             \/ OtherEvent
             \/ \E m \in Members, q \in Persons, i \in 1..Cardinality(Kinds) : OpenPage(m, q, i)
             \/ \E m \in Members : SendHandled(m)
             \/ \E m \in Members, q \in Persons : AskOne(m, q)
             \/ \E m \in Members : AskOneFails(m)
      PROVE  findings'[p] = findings[p] \/ findings'[p] = Unchecked
    BY <1>0, <1>1 DEF Correct, PaperUpdate, PaperDelete, PaperCreate, PaperUpdateRest, OtherEvent,
           OpenPage, SendHandled, AskOne, AskOneFails, PaperEvent, CorrectionEvent, projection
<1>2. ASSUME NEW m \in Members, RecordOne(m)
      PROVE  findings'[p] = findings[p] \/ findings'[p].by = "member"
    BY <1>0, <1>2 DEF RecordOne, CheckedEvent
<1>3. ASSUME NEW m \in Members, RecordHandled(m)
      PROVE  \/ findings'[p] = findings[p]
             \/ /\ page[m].person = p /\ findings[p] # Unchecked /\ findings'[p].by = findings[p].by
                /\ page[m].handled => findings[p].handled \subseteq findings'[p].handled
    <2>1. page[m].person \in Persons /\ page[m].handled \in BOOLEAN
        BY <1>0, <1>3 DEF OthersOk, RecordHandled, PageRecords
    <2> DEFINE q == page[m].person
               there == \E i \in DOMAIN Finds[findings[q].about] :
                            Finds[findings[q].about][i] = page[m].names
               hs == IF ~there THEN findings[q].handled
                     ELSE IF page[m].handled THEN findings[q].handled \cup {page[m].names}
                     ELSE findings[q].handled \ {page[m].names}
    <2>2. CASE findings[q] = Unchecked
        BY <1>3, <2>2 DEF RecordHandled, HandledEvent
    <2>3. CASE findings[q] # Unchecked
        <3>1. findings' = [findings EXCEPT ![q] = [findings[q] EXCEPT !.handled = hs]]
            BY <1>3, <2>3 DEF RecordHandled, HandledEvent
        <3>2. page[m].handled => findings[q].handled \subseteq hs
            OBVIOUS
        <3>3. findings[q] \in FindingRecords
            BY <1>0, <2>1, <2>3
        <3> HIDE DEF hs, q, there
        <3>4. PICK g : g = [findings[q] EXCEPT !.handled = hs]
            OBVIOUS
        <3>5. g.by = findings[q].by /\ g.handled = hs
            BY <3>3, <3>4 DEF FindingRecords
        <3>6. p # q => findings'[p] = findings[p]
            BY <1>0, <3>1
        <3>7. p = q => findings'[p] = g
            BY <1>0, <3>1, <3>4
        <3> QED
            BY <2>3, <3>2, <3>5, <3>6, <3>7 DEF q
    <2> QED
        BY <2>2, <2>3
<1> QED
    BY <1>1, <1>2, <1>3 DEF Member, Swept

LEMMA SweptOnceStep ==
    ASSUME SweptOnce, [Next]_vars
    PROVE  SweptOnce'
<1>0. BrpInv /\ DataOk /\ TasksOk /\ Claimed /\ NoneTwice /\ BrpInv' /\ TasksOk'
    BY BrpStep DEF SweptOnce, BrpInv
<1>1. \A l \in Tasks : Left(task[l])' = {p \in Persons : task'[l].todo[p] \notin Gone}
    BY DEF Left
<1>2. CASE UNCHANGED vars
    BY <1>0, <1>2 DEF SweptOnce, Claimed, NoneTwice, Left, Swept, vars, projection
<1>3. CASE Member
    <2>1. \A l \in Tasks : /\ task'[l].pc = task[l].pc /\ task'[l].todo = task[l].todo
                           /\ claims' = claims
        BY <1>0, <1>3, MemberTasks
    <2>2. Claimed'
        BY <1>0, <2>1 DEF Claimed
    <2>3. \A l \in Tasks : Left(task[l])' = Left(task[l])
        BY <2>1 DEF Left
    <2>4. \A p \in Persons : Swept(p)' => Swept(p) /\ findings'[p].by = findings[p].by
        BY <1>0, <1>3, MemberFindings
    <2>5. NoneTwice'
        BY <1>0, <2>3, <2>4 DEF NoneTwice, Left
    <2> QED
        BY <1>0, <2>2, <2>5 DEF SweptOnce
<1>4. ASSUME NEW k \in Tasks, Claim(k)
      PROVE  SweptOnce'
    <2>1. /\ task'[k].pc = "claimed" /\ task'[k].todo = Nobody
          /\ \A l \in Tasks \ {k} : task'[l].pc = task[l].pc /\ task'[l].todo = task[l].todo
        BY <1>0, <1>4, ClaimTasks
    <2>2. /\ claims' = claims \cup {InstanceOf[k]} /\ InstanceOf[k] \notin claims
          /\ findings' = findings
        BY <1>4 DEF Claim, projection
    <2>3. \A l \in Tasks : task[l].pc # "idle" => InstanceOf[l] # InstanceOf[k]
        BY <1>0, <2>2 DEF Claimed
    <2>4. Claimed'
        BY <1>0, <2>1, <2>2, <2>3 DEF Claimed
    <2>5. NoneTwice'
        <3>1. \A l \in Tasks : Left(task[l])' \subseteq Left(task[l])
            BY <1>1, <2>1, NobodyIs DEF Left
        <3> QED
            BY <1>0, <2>2, <3>1 DEF NoneTwice, Swept
    <2> QED
        BY <1>0, <2>4, <2>5 DEF SweptOnce
<1>5. ASSUME NEW k \in Tasks, Sweep(k)
      PROVE  SweptOnce'
    <2>1. PICK x : SweepStep(k, x)
        BY <1>0, <1>5, SweepSteps
    <2>2. /\ task'[k] = x
          /\ \A l \in Tasks \ {k} : task'[l].pc = task[l].pc /\ task'[l].todo = task[l].todo
        BY <1>0, <2>1, OthersStay DEF SweepStep
    <2>3. \A l \in Tasks \ {k} : task[l].pc # "idle" => InstanceOf[l] # InstanceOf[k]
        BY <1>0, <2>1 DEF Claimed, SweepStep
    <2>4. Claimed'
        BY <1>0, <2>1, <2>2, <2>3 DEF Claimed, SweepStep
    <2>5. \/ /\ findings' = findings
             /\ \A p \in Persons : x.todo[p] \in Gone \/ x.todo[p] = task[k].todo[p]
                                   \/ findings[p] = Unchecked
          \/ \E q \in Left(task[k]) :
                /\ \A p \in Persons \ {q} : findings'[p] = findings[p]
                /\ findings'[q].by = InstanceOf[k]
                /\ x.todo = [task[k].todo EXCEPT ![q] = Deleted]
        BY <2>1 DEF SweepStep
    <2>6. ASSUME NEW l \in Tasks \ {k}, NEW p \in Left(task[l]), Swept(p)'
          PROVE  findings'[p].by # InstanceOf[l]
        <3>1. p \in Persons /\ task[l].pc # "idle"
            BY <1>0, <2>6, IdleLeft DEF Left
        <3>2. CASE findings'[p] = findings[p]
            BY <1>0, <2>6, <3>1, <3>2 DEF NoneTwice, Swept
        <3>3. CASE findings'[p].by = InstanceOf[k]
            BY <2>3, <3>1, <3>3
        <3> QED
            BY <2>5, <3>1, <3>2, <3>3
    <2>7. ASSUME NEW p \in Persons, x.todo[p] \notin Gone, Swept(p)'
          PROVE  findings'[p].by # InstanceOf[k]
        <3>1. CASE /\ findings' = findings
                   /\ \A q \in Persons : x.todo[q] \in Gone \/ x.todo[q] = task[k].todo[q]
                                         \/ findings[q] = Unchecked
            BY <1>0, <2>7, <3>1 DEF NoneTwice, Left, Swept
        <3>2. ASSUME NEW q \in Left(task[k]),
                     \A r \in Persons \ {q} : findings'[r] = findings[r],
                     x.todo = [task[k].todo EXCEPT ![q] = Deleted]
              PROVE  findings'[p].by # InstanceOf[k]
            <4>1. task[k].todo \in Copies /\ q \in Persons
                BY <1>0, TaskAt, TaskFields DEF Left
            <4>2. p # q /\ x.todo[p] = task[k].todo[p]
                BY <2>7, <3>2, <4>1 DEF Copies, Gone
            <4> QED
                BY <1>0, <2>7, <3>2, <4>2 DEF NoneTwice, Left, Swept
        <3> QED
            BY <2>5, <3>1, <3>2
    <2>8. NoneTwice'
        <3>1. \A l \in Tasks \ {k} : Left(task[l])' = Left(task[l])
            BY <1>1, <2>2 DEF Left
        <3>2. Left(task[k])' = {p \in Persons : x.todo[p] \notin Gone}
            BY <1>1, <2>2
        <3>3. ASSUME NEW l \in Tasks, NEW p \in Left(task[l])', Swept(p)'
              PROVE  findings'[p].by # InstanceOf[l]
            <4>1. CASE l = k
                BY <2>7, <3>2, <3>3, <4>1
            <4>2. CASE l # k
                BY <2>6, <3>1, <3>3, <4>2
            <4> QED
                BY <4>1, <4>2
        <3> QED
            BY <3>3 DEF NoneTwice
    <2> QED
        BY <1>0, <2>4, <2>8 DEF SweptOnce
<1>6. ASSUME NEW i \in Instances, Crash(i)
      PROVE  SweptOnce'
    <2>1. \A l \in Tasks : \/ task'[l] = task[l] /\ InstanceOf[l] # i
                           \/ task'[l] = NoTask /\ InstanceOf[l] = i
        BY <1>6, CrashTasks
    <2>2. claims' = claims \ {i} /\ findings' = findings
        BY <1>6 DEF Crash, projection
    <2>3. Claimed'
        BY <1>0, <2>1, <2>2, NoTaskFields DEF Claimed
    <2>4. \A l \in Tasks : Left(task[l])' \subseteq Left(task[l])
        BY <1>1, <2>1, NoTaskFields, NobodyIs DEF Left
    <2>5. NoneTwice'
        BY <1>0, <2>2, <2>4 DEF NoneTwice, Swept
    <2> QED
        BY <1>0, <2>3, <2>5 DEF SweptOnce
<1> QED
    BY <1>2, <1>3, <1>4, <1>5, <1>6 DEF Next

LEMMA SweptOnceInit ==
    ASSUME Init
    PROVE  SweptOnce
<1>1. BrpInv /\ TasksOk
    BY InitOk DEF BrpInv
<1>2. \A k \in Tasks : task[k].pc = "idle"
    BY NoTaskFields DEF Init
<1>3. \A k \in Tasks : Left(task[k]) = {}
    BY <1>1, <1>2, IdleLeft
<1> QED
    BY <1>1, <1>2, <1>3 DEF SweptOnce, Claimed, NoneTwice

MarkTaken(p) ==
    \E m \in Members :
        \/ /\ page[m].pc = "sent" /\ page[m].person = p /\ ~page[m].handled
           /\ page'[m] = NoPage
        \/ single[m] # NoSingle /\ single[m].person = p /\ single'[m] = NoSingle
SweptElsewhere(p) ==
    \E k \in Tasks : /\ task[k].pc = "append" /\ task[k].who = p
                     /\ InstanceOf[k] # findings[p].by
                     /\ InstanceOf[k] = findings'[p].by

LEMMA MarksStay ==
    ASSUME SweptOnce, [Next]_vars, NEW p \in Persons, Swept(p), findings'[p] # Unchecked,
           ~(findings[p].handled \subseteq findings'[p].handled)
    PROVE  MarkTaken(p) \/ SweptElsewhere(p)
<1>0. BrpInv /\ DataOk /\ TasksOk /\ OthersOk /\ Claimed /\ NoneTwice
    BY DEF SweptOnce, BrpInv
<1>1. findings'[p] # findings[p]
    OBVIOUS
<1>2. CASE UNCHANGED vars
    BY <1>1, <1>2 DEF vars, projection
<1>3. CASE Member
    <2>1. CASE Swept(p)'
        <3>1. PICK m \in Members : RecordHandled(m) /\ page[m].person = p /\ ~page[m].handled
            BY <1>0, <1>3, <2>1, MemberFindings
        <3>2. page[m].pc = "sent" /\ page'[m] = NoPage
            BY <1>0, <3>1 DEF RecordHandled, OthersOk
        <3> QED
            BY <3>1, <3>2 DEF MarkTaken
    <2>2. CASE ~Swept(p)'
        <3>1. PICK m \in Members : RecordOne(m) /\ single[m].person = p
            <4>1. findings \in [Persons -> FindingRecords \cup {Unchecked}]
                BY <1>0 DEF DataOk
            <4>2. ~\E m \in Members : RecordHandled(m)
                <5> SUFFICES ASSUME NEW m \in Members, RecordHandled(m)
                             PROVE  FALSE
                    OBVIOUS
                <5>1. page[m].person \in Persons
                    BY <1>0, SMTT(40) DEF OthersOk, RecordHandled
                <5>2. \/ findings' = findings
                      \/ \E hs : findings' = [findings EXCEPT ![page[m].person].handled = hs]
                    BY DEF RecordHandled, HandledEvent
                <5>3. PICK hs : findings' = [findings EXCEPT ![page[m].person].handled = hs]
                    BY <1>1, <5>2
                <5>4. p = page[m].person
                    BY <1>1, <4>1, <5>1, <5>3
                <5>5. findings[p] \in FindingRecords /\ findings'[p] = [findings[p] EXCEPT !.handled = hs]
                    BY <4>1, <5>3, <5>4 DEF Swept
                <5>6. findings'[p].by = findings[p].by
                    BY <5>5, SMTT(40) DEF FindingRecords
                <5> QED
                    BY <2>2, <5>6 DEF Swept
            <4>3. ~\/ \E q \in Persons, v \in Values : Correct(q, v) \/ PaperUpdate(q, v)
                   \/ \E q \in Persons : PaperDelete(q)
                   \/ \E q \in Persons, x \in PersonRecords : PaperCreate(q, x)
                   \/ \E q \in Persons, r \in Rest : PaperUpdateRest(q, r)
                   \/ OtherEvent
                   \/ \E m \in Members, q \in Persons, i \in 1..Cardinality(Kinds) : OpenPage(m, q, i)
                   \/ \E m \in Members : SendHandled(m)
                   \/ \E m \in Members, q \in Persons : AskOne(m, q)
                   \/ \E m \in Members : AskOneFails(m)
                BY <1>1, <4>1 DEF Correct, PaperUpdate, PaperDelete, PaperCreate, PaperUpdateRest,
                    OtherEvent, OpenPage, SendHandled, AskOne, AskOneFails, PaperEvent,
                    CorrectionEvent, projection
            <4>4. PICK m \in Members : RecordOne(m)
                BY <1>3, <4>2, <4>3 DEF Member
            <4>5. single[m].person = p
                BY <1>1, <4>1, <4>4 DEF RecordOne, CheckedEvent
            <4> QED
                BY <4>4, <4>5
        <3>2. single[m] # NoSingle /\ single'[m] = NoSingle
            BY <1>0, <3>1 DEF RecordOne, OthersOk
        <3> QED
            BY <3>1, <3>2 DEF MarkTaken
    <2> QED
        BY <2>1, <2>2
<1>4. ASSUME NEW k \in Tasks, Claim(k) \/ (\E i \in Instances : Crash(i))
      PROVE  FALSE
    BY <1>1, <1>4 DEF Claim, Crash, projection
<1>5. ASSUME NEW i \in Instances, Crash(i)
      PROVE  FALSE
    BY <1>1, <1>5 DEF Crash, projection
<1>6. ASSUME NEW k \in Tasks, Sweep(k)
      PROVE  SweptElsewhere(p)
    <2>1. RecordResult(k)
        BY <1>1, <1>6 DEF Sweep, RecordStarted, StartFails, TakeSnapshot, Consult, ConsultFails,
               PickResult, Decide, ResultConflicts, RecordFinished, SweepFails, RecordAborted,
               AbortFails, DropClaim, StatusEvent, projection
    <2>2. task[k].pc = "append" /\ task[k].who \in Left(task[k])
        BY <1>0, <2>1, TaskAt DEF RecordResult, TaskOk, Busy
    <2>3. task[k].who = p
        BY <1>0, <1>1, <2>1, <2>2 DEF RecordResult, CheckedEvent, DataOk, Left
    <2>4. InstanceOf[k] # findings[p].by
        BY <1>0, <2>2, <2>3 DEF NoneTwice
    <2>5. InstanceOf[k] = findings'[p].by
        BY <1>0, <2>1, <2>3 DEF RecordResult, CheckedEvent, DataOk
    <2> QED
        BY <2>2, <2>3, <2>4, <2>5 DEF SweptElsewhere
<1> QED
    BY <1>2, <1>3, <1>4, <1>5, <1>6 DEF Next

(* A mark on a finding of a sweep is undone by a member or by a change of   *)
(* the candidate only, or by a sweep that another process runs at the same  *)
(* time: the claim keeps a process's second sweep out, and a sweep takes    *)
(* only unchecked candidates, so none of its sweeps records a second answer *)
(* about a candidate one of them put findings on.  Of two processes both    *)
(* sweeps can have the candidate in their snapshots.                        *)
THEOREM HandledKept == Spec => HandledStays
<1>1. Spec => []SweptOnce
    <2>1. SweptOnce /\ [Next]_vars => SweptOnce'
        BY SweptOnceStep
    <2> QED
        BY <2>1, SweptOnceInit, PTL DEF Spec
<1>2. SweptOnce /\ [Next]_vars =>
        [\A p \in Persons :
           findings[p] # Unchecked /\ findings[p].by # "member" /\ findings'[p] # Unchecked
           /\ ~(findings[p].handled \subseteq findings'[p].handled)
           => \/ \E m \in Members :
                   \/ /\ page[m].pc = "sent" /\ page[m].person = p /\ ~page[m].handled
                      /\ page'[m] = NoPage
                   \/ single[m] # NoSingle /\ single[m].person = p /\ single'[m] = NoSingle
              \/ \E k \in Tasks : /\ task[k].pc = "append" /\ task[k].who = p
                                   /\ InstanceOf[k] # findings[p].by
                                   /\ InstanceOf[k] = findings'[p].by]_vars
    BY MarksStay DEF Swept, MarkTaken, SweptElsewhere
<1> QED
    BY <1>1, <1>2, PTL DEF Spec, HandledStays

=============================================================================
