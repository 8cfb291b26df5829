# e-KS: a TLA+ verification project

e-KS is the web application with which political groups prepare their candidate
lists for a Dutch election, and with which the central electoral committee (CSB)
examines what they submit, decides on omissions, numbers the lists and produces
the final documents. It is event sourced: every change is an encrypted,
hash-chained event on a stream in PostgreSQL, every instance of the application
keeps projections of the streams in memory, and several instances, several
committee members and several browser tabs work on the same streams at once.

This directory models that system in TLA+. TLC checks the models on small
instances, TLAPS proves the central invariants for every instance. Paths below
are relative to the repository; `src/store/mod.rs` is a Rust file of the main
crate, `auth-service/` the crate that talks SAML.

Run a configuration with `tlc -config Finalise.cfg MCFinalise`, check a proof
with `tlapm FinaliseProofs.tla`. `PROJECT.json` lists the runs, the source lines
of every definition, the mutants that show that each property can fail, the
hazards and the findings.

## 1. Inventory

### The parts and the state they keep

| Part | State | Operations | Module |
|---|---|---|---|
| Event store (`src/store/`) | the tables `streams` and `events`; a projection and its `last_event_id` per process; `seen_event_id` per handle | load, append (unconditional, conditional, `update_when`), replay | `EventLog`, `EventStore` |
| Registries (`src/store/registry.rs`, `src/core/rate_limit.rs`) | per process and scope: one cached store per stream | look up, build, insert, evict, list, scan; limits before a write | `StoreRegistry` |
| Political group (`src/pg/`, `src/projection/pg_data/`) | persons, lists, designation, submitters, authorisations | forms, CSV import, reorder, copy, delete; the steps and problems derived; downloads | `CandidateLists`, `Submission` |
| Committee, per group (`src/csb/examination`, `recovery`, `src/projection/csb_data/`) | imported data, paper corrections, corrections, omissions, what is scrapped, BRP findings and status | report, assess, correct, check, delete | `Omissions`, `BrpCheck` |
| Committee, per election (`src/csb/finalise`, `src/projection/csb_main/`) | the list order, registered groups and their previous results, objections, hearing details, security keys | post an order, download, register | `Finalise` |
| Sessions (`src/auth/`, `src/app/middleware/session.rs`) | rows in `sessions`, pending requests, cookies and pages in browsers | establish, touch, switch, log out, sweep | `Sessions` |
| Logins (`auth-service/src/handlers`, `src/csb/login`) | flow cookies, pending requests, key counters | start, callback, finish, log out at the routing service | `Sessions` |
| Database health (`src/store/health.rs`, `src/app/middleware/maintenance.rs`) | the gate and a wake-up per process, the tables that exist | probe, migrate, report, pass | `Health` |
| Certificates (`src/acme/`) | two files and a loaded configuration per process, a shared table of challenge tokens | bootstrap, order, answer, install, reload | `Certificates` |
| Routing service metadata (`auth-service/src/state`, `saml/idp_metadata.rs`) | a loaded descriptor, a copy on disk | load at startup, refresh, expire | `Metadata` |
| SAML messages, layout of documents, forms, front end | none that is shared | see section 6 | not modelled |

### How they interact

A request passes the session middleware (load the session, check expiry, user
agent and CSRF token, touch), then the store middleware of its section, which
loads the stream the session points at, and then the handler. The handler reads
snapshots of projections, decides, and appends. Political groups write through
`PgStore`, which refuses an append when the stream moved since the handle was
made. Committee members write unconditionally, also when they correct a group's
papers through the same pages; only a few decisions use `update_when`. Imports
copy a group's stream into a committee stream. All of them take their stores
from the registries of their process. A group can take its name and results from
a registration on the committee's main stream, which the committee may change or
delete meanwhile. A BRP sweep runs in the background of one process, and so do
the prober of the database, the renewer of the certificate and the refresh of
the routing service's metadata. The numbering reads all committee streams of the
election through the registry and the main stream of the committee.

### What is hard about it

- Lock, catch up, commit and apply are separate moments; other requests of the
  same process apply events in between (`EventStore`).
- Builds of different ages share the tables; an old one meets events it cannot
  decode (`EventStore`).
- Decisions are taken on copies: pages, snapshots, answers of an external
  service (`CandidateLists`, `Omissions`, `BrpCheck`, `Finalise`).
- One user action writes two events or two streams (`CandidateLists`,
  `Omissions`, `Finalise`).
- Splits and merges of omissions have to conserve what was reported
  (`Omissions`).
- A browser has one session and many pages of different contexts (`Sessions`).
- Redirects and signed challenges come late, twice or elsewhere (`Sessions`).
- Projections of other streams are cached without being reloaded (`Finalise`,
  `StoreRegistry`); several requests miss a cache at once, and handles outlive
  what the cache keeps (`StoreRegistry`).
- Limits are checked on a projection and hold for a stream (`StoreRegistry`).
- The gate in front of a download and the generator behind it judge the same
  data by separate code, and forms save whole records (`Submission`).
- Background tasks meet a database, a disk, a certificate authority and a
  routing service that come and go, and restarts between any two steps
  (`Health`, `Certificates`, `Metadata`).

### What makes each part correct

- Event store: no event is lost, doubled or skipped; a conditional write was
  decided on exactly what precedes it; answers are true; requests end.
- Registries: a caller is served by a store that has what the caller was told,
  a stream has one key, limits hold however many processes check them, and an
  import that was not confirmed is the first of its source.
- Candidate lists: candidates exist, hold one position, are entered once;
  nothing disappears unseen.
- Submission: what the gate lets through can be printed, forms undo nothing they
  do not show, and a bound name is the registration's.
- Omissions: parts are conserved, decisions independent and final, what is
  scrapped follows from them.
- BRP checks: findings are about the data on screen, handled marks stay,
  "finished" means that the BRP was consulted about everyone, sweeps end.
- Numbering: one number per group, the same in all documents, and the order the
  committee drew is not undone.
- Sessions: forms land where they were rendered, removed sessions stay removed,
  idle ones expire, a login counts once and is the user's own.
- Background tasks: the gate follows the database, a report is not slept on, a
  due certificate is replaced, only torn files stop a start, a withdrawn key
  expires, and a reachable routing service keeps logins possible.

## 2. Modules and their correspondence to the code

Conventions: a variable is a table or a part of a projection, a request is a
record with a `pc`, and a step between two `pc`s is what the code does between
two awaits that let others in. `Fail` is the database failing or the client
going away, at every such point. A `scene` (or `setting`) is fixed, and
chosen in `Init`: what there is at the start, who does what, and the bounds of
that scene. History variables are marked as such and never guard an action.

**EventLog** is the abstract specification: one sequence of events, an atomic
append that continues the chain, and projections that grow along prefixes.

**EventStore** is the PostgreSQL protocol. `rows` is the `events` table, `lock`
the row lock on `streams`, `proj` the projection of each process, `req` the
requests. `Arrive`, `ReadPosition`, `LockStream`, `CatchUp`, `EndLoad`,
`OpenHandle`, `Decide`, `Commit`, `ApplyPersisted` follow `load_from_database`
and `update_in_database`; `Expected` is what `PgStore::update` or `update_when`
compares; `Conflict` and `Finish` are the retries of `update_when`. The cipher
is what it checks: an event decrypts iff its associated data (id and hash of the
preceding event) are the reader's. `Crash` takes a process with its requests.
`ImplementsEventLog` instantiates `EventLog` with `rows` and `proj`.

**CandidateLists** has one action per handler of the persons, candidates and
lists sections; `MayWrite` is the `seen_event_id` comparison for a group's own
stream and TRUE for paper corrections. The handler that writes twice
(`CreateCandidate` then `AppendCreated`) takes two steps. A person is an identity (BSN, or name and date of birth).

**Omissions** has the omissions of one committee stream. An omission is about a
kind, a subject and parts (districts or lists); `RecordPart` decides one part,
splitting it off or merging it with one that is decided alike
(`SetOmissionPartStatus`, `MergeOmission`). No districts stands for all of them,
as in the code. `Derive` is `Scrapped::derive`.

**BrpCheck** has the candidates of one committee stream through the three layers
imported, paper corrected and corrected, the findings, and the sweeps of each
process, whose claims (`RUNNING_SWEEPS`) other processes do not see. What the BRP says about a value is the constant function `Finds`.

**Sessions** has session rows, pending requests, browsers with a cookie, flow
cookies and open pages, and the requests in flight. `Visit` requests go through
the middleware; `Login` requests through the callback of auth-service or the
finish of the key ceremony. A group's logout removes the row, then registers a
LogoutRequest in the same table of outstanding ids as the logins
(`AnswerLogout`); `HandleSls` consumes it and touches no session. The clock
ticks.

**Finalise** has the committee's main stream, one stream per group, and each
process's projections of them. The main stream is loaded when a request arrives,
the groups' streams when they are not cached; a cached one moves on by an append
of its process, and by `CatchUp`: a page of the paper corrections, or a refused
`update_when`, replays what other processes appended. `Numberings` is
`ListNumbering::new`: a set of sequences, since groups that tie in everything
come in the order in which PostgreSQL lists them. `Render` collects the lists
for the document that was just numbered; five documents make the ZIP, and `Shown`
is what each of them shows: the EML files and the overview leave out a group
without a remaining candidate, the publications one without a valid list.

**Submission** composes `CandidateLists` with the rest of what a group hands in.
`form` is the rest of `PgStoreData`: the political group (list type,
registration, appellation), name authorisations, submitter, substitutes,
districts per list, and the persons of whom the documents have what they need.
Every composed action is an action of `CandidateLists` together with `Saved`,
so what is proved of `CandidateLists` holds of it. `Downloadable` is
`AllProblems::find_all` restricted to errors; `Collected` is
`DocumentData::from_store_and_context` with `eml210`: they are two readings of
the same data, as in the code. `UpdateListDesignation` and
`UpdatePoliticalGroup` save the whole `PoliticalGroup` with the other fields as
the request read them; `registered` is the committee's main stream in so far as
the group's page reads it, `offered` the copy each request works with.
`GenDocuments` makes the documents from the request's copy and then records the
download; `GenPastDocuments` does so for an earlier version, from the audit log;
`open` remembers which versions a replay would find in order.

**StoreRegistry** has the rows of the streams, the caches of each process and
scope, and the `Store` objects, cached or merely held. A lookup takes the steps
of `StoreRegistry::lookup`: hit, or `EnsureStream`, `Build`, `LoadNew`,
`Insert`, which keeps whichever store came first. What follows depends on the
operation: a group's visit, login and logout load the store again and check the
limits before they write; a member examines or corrects on the projection as it
is cached; an import scans the committee's streams for the same source, takes a
snapshot of the group's stream, and writes a fresh one; the pre-submission
overview lists its scope. `PurgeIdle` evicts while handles are out. Appending and
loading are single steps here, which `EventStore`'s refinement of `EventLog`
justifies.

**Tasks, Health, Certificates, Metadata, Background.** `Tasks` is what the
background tasks share: the processes, and a database that comes and goes.
`Health` has one prober, one gate and callers per process; the migrations are
one step per table, since each statement can fail. `Certificates` follows one
process: its two files, the configuration it serves, the order in progress and
its token in the shared table, which other processes sweep. `Metadata` counts
time in units of the retry interval and keeps ages instead of a clock.
`Background` composes the three; a behaviour follows one of them at a time,
because none of them changes what another one reads.

`MC*` modules give the constants values.

## 3. Runs

| Run | Question | Bounds |
|---|---|---|
| `store` | a handle or an `update_when`, an unconditional writer of the same process, and a handle of a newer build in another process: no lost, doubled or hole-leaving event, conditional writes decided on their predecessors, no append past an undecodable event, answers true, requests end, and the protocol implements `EventLog` | 2 processes, 3 requests, 2 kinds of events, at most 4 writes, 2 attempts |
| `omissions` | the properties of a decision, for two members racing on overlapping reports and for one member with the full range of reports and paper corrections | 2 districts, 2 lists, 4 ids, 4 or 5 events |
| `brp` | what a sweep found is current, handled marks stay, finished means consulted, sweeps end and free their stream | 2 candidates, 2 sweeps of one process and 2 edits, or a sweep of each of 2 processes and 1 edit; single checks by one member |
| `submission` | the properties of persons, lists and the rest of what is handed in, for own streams (with several districts and with one) and for corrections | 3 persons, 2 lists, 2 identities, 2 districts, 2 authorisations, 1 substitute, 1 registration with 2 names, maximums of 1 or 2, 3 events, 2 requests; three scenes: the name against the registrations, the group's forms and downloads, entering and arranging candidates |
| `sessions` | seven scenes: two tabs, paper corrections, the clock, routing service logins, keys, a second user in the same browser, and logging out at the routing service and in again | 2 browsers, 2 groups, 1 member, 2 elections, 2 requests, idle 2 and absolute 3 ticks |
| `registry` | seven scenes: one group in several windows of one and of two processes at its limits, imported while it works, imported twice, and groups examined, corrected and deleted | 2 processes, 3 requests, 1 group's stream and 2 fresh ids, limits of 3 events in all, 2 events and 1 download in a window of 1 tick |
| `finalise` | four scenes: a download against a posted order and a deletion, against an import, of a package that was imported twice, and a posted order against a deletion | 2 groups, 2 processes, 2 requests, 2 appellations, results and districts of 0 or 1, 1 or 2 events on the main stream and 1 or 2 on the groups' |
| `background` | the three background tasks, one at a time | 2 processes with a caller each, 2 tables, 4 key pairs; 2 signing keys, documents with a validity but no hint, with a hint below the minimum, above the maximum, and with one that cannot be read; no bound on the length of a behaviour |

The largest are `finalise` (about 1,470,000 distinct states), `registry`
(850,000), `background` (840,000) and `submission` (610,000); each takes one to
three and a half minutes with two workers.

Four runs expect a violation. Each states what a comment in the code, or the
documentation, says and finds the behaviour in which the code does otherwise.

- `brp_single`: the check of one candidate records its answer unconditionally,
  so findings about old data can stay after a correction made meanwhile. The
  passing run `brp` shows that sweeps do not have this flaw.
- `registry_cap`: `docs/code-architecture.md` says that the cap on the events of a
  stream exempts session events; `check_rate_limits` counts and refuses every
  event, so a group at the cap cannot log in any more.
- `finalise_record`: a download that found no recorded order appends the
  starting order over the one another member posted meanwhile.
- `health_migration`: `migrate` swallows the error of a statement, so a
  connection lost between two tables leaves a prober that believes it has
  migrated, and an application in maintenance until it is restarted.

The bounds are small because the properties are about pairs. An interleaving
that breaks one takes a reader and a writer, or two writers, and one event of
each between the other's read and write; every run has at least two actors that
can each write, and one event to spare, or a second write by one of them where
the code treats it differently (`seen_event_id` moving on). Limits are set to 2
so that they are reached from a start with one element; the registry's windows
are one tick long, so that events both inside and outside occur. Three persons allow an
import to create one and reuse another. Two builds suffice because a build is
only compared with the events it cannot decode. Where a bound is an event count
the state space ends in states in which only reads are left, which is why those
configurations switch the deadlock check off; `store`, `finalise`,
`finalise_record`, `background` and `health_migration` keep it on.

Symmetry is used over requests, elections and fresh ids where they are
interchangeable and no liveness property is checked.

### Fairness

`store` assumes weak fairness of every step a request takes by itself, and
strong fairness of obtaining the row lock: PostgreSQL queues the waiters of a
row and tokio polls every ready task. Crashes and failures are never forced.
`brp` assumes weak fairness of the steps of a spawned sweep, which is a tokio
task of its own; its HTTP client has a timeout, so `Consult` or `ConsultFails`
happens. `background` assumes weak fairness of the prober's own steps and of its
waking up, of a request that is past the gate (it uses the database and reports
what it met), and of the renewer's steps: both are tokio tasks with timers, and
every call they make has a timeout. The database, the certificate authority and
the routing service owe nothing: `GateFollowsDatabase` and `DueIsReplaced` are
stated for the case that they keep working, or keep failing. Members' and
browsers' actions have no fairness anywhere. `Metadata` needs none: its timed
properties are invariants, because a task whose wait is over runs before time
goes on.

## 4. Theorems

| Module | Theorem | Shows |
|---|---|---|
| `EventStoreProofs` | `TypeCorrect`, `ProjectionsArePrefixes`, `ReplayNeverFails`, `ConditionalWritesSafe`, `WritersReadEverything`, `CallersAreTold` | `[]` of `TypeOK`, `ProjectionIsPrefix`, `NeverUnreadable`, `DecidedOnPredecessor`, `NoAppendPastGap`, `AnswersAreTrue` |
| | `StoreImplementsLog` | `Spec => Log!Spec` |
| `StoreRegistryProofs` | `OneKey`, `SeesTold`, `LimitsKept`, `UnconfirmedFirst` | `OneKeyPerStream`, `SeesWhatWasTold`, `LimitsHold`, `UnconfirmedIsFirst` |
| | `RegistryHolds`, `CareHolds` | the inductive invariants behind them |
| `CandidateListsProofs` | `TypeCorrect`, `PositionsStayDistinct`, `OwnCandidatesExist`, `OwnIdentitiesDistinct` | the invariants of the same names |
| | `OwnNothingLostUnseen`, `OwnReorderPermutes` | the action properties |
| | `SubmissionImplements`, `SubmissionKeepsTheLists` | `SubmissionSpec => Spec`, and the results above for `Submission` |
| | `GateHolds`, `FormsKeep`, `BoundStays` | `GateAgrees`, `FormsKeepTheRest`, `BoundIsTakenOver` |
| `OmissionsProofs` | `TypeCorrect`, `DecidedAlike`, `DecisionHeld`, `ScrappedFollows`, `Independent`, `ProgressHolds` | `TypeOK`, `DecidedAlikeIsOne`, `UndisturbedDecisionHolds`, `ScrappedFollowsDecisions`, `DecisionsIndependent`, `ProgressNeverGrows` |
| | `OmissionsHold` | the inductive invariant behind them |
| `BrpCheckProofs` | `TypeCorrect`, `SweptCurrent`, `FinishedConsulted`, `HandledKept` | `TypeOK`, `SweptIsCurrent`, `FinishedMeansConsulted`, `HandledStays` |
| `SessionsProofs` | `TypeCorrect`, `SavedAsShown`, `IdleExpire`, `LoginsOnce`, `LoginsOwn`, `RemovedForGood` | `TypeOK`, `SavesLandWhereRendered`, `IdleSessionsExpire`, `LoginsCountOnce`, `LoginsAreOwn`, `RemovedStaysRemoved` |
| `FinaliseProofs` | `TypeCorrect`, `OrderStaysDistinct`, `RemovalsKeepTheRest`, `UndisturbedDocumentsAgree` | `TypeOK`, `OrderNamesEachOnce`, `DeletionKeepsDrawnOrder`, `UndisturbedZipAgrees` |
| `BackgroundProofs` | `ReportsWakeTheProber`, `BrokenPairNeverInstalled`, `TrustEnds`, `RefreshedInTime` | `NoReportSleptOn`, `RefusedOnlyWhenTorn`, `RetiredKeysExpire`, `AvailableWhileReachable` |

They hold for any number of requests, processes, persons, lists, groups, streams
and sessions, and assume of the constants what the `ASSUME`s beside them say:
finite sets, functions of the right type, distinct model values, and starting
points that the program can be in. Three theorems have a hypothesis of their own,
because the code gives no more: `DecidedAlike`, `Independent` and `ProgressHolds`
(`NoRace`), which is explained below.

**EventStore.** `ProjectionIsPrefix` is not inductive: a projection stays a
prefix only because the event that is applied after a commit is the one in the
table at that place, and because what is replayed is what follows the
projection. `IInv` adds that rows are numbered and chained, that the lock is
held by whoever is inside a transaction, that the position read before the lock
is behind the projection, that the result of `catch_up` stays true while the
lock is held, that a committed event is where its writer thinks it is, and that
a handle never saw more than the snapshot its handler decided on
(`seen <= basis`). That last part is what makes comparing `seen_event_id` with
the stream enough. The refinement follows from the same invariant, step by step:
`Commit` is the log's append, replays and `ApplyPersisted` are observations, the
other steps stutter. `CallersAreTold` adds where each request's event is from
before its commit until its answer (`Told`).

**StoreRegistry.** `RegistryInv` says where a stream's key can be: in the
database, in the caches that loaded it, and in the hands of the requests that
are creating it, of which the first to insert wins, so that there is one. It
also places every load between what was in the table when it began and what is
there now. From it follow `OneKeyPerStream`, `UnconfirmedIsFirst` and the limits.
`CareInv` adds what each process acknowledged to its callers: a store in its
cache, or on its way there, is at least that far (`Floor`), which is
`SeesWhatWasTold`. A purge is the difficult step, since the store that replaces
a purged one is loaded anew.

**CandidateLists.** The invariant relates the projection to the copies that
requests hold: a request whose `seen_event_id` equals the version holds the
current data, so that a check on the copy is a check on the data at the moment
of the write. Distinct positions need no such argument and hold for paper
corrections too, because the event's application looks again.

**Submission.** Its steps are steps of `CandidateLists` or leave its variables
alone (`SubmissionImplements`), so that the results above carry over. `FInv` adds
that a request that may write shows the form that is recorded, and that only a
standalone list is bound to a registration, which the type `ListDesignation` says
in the code. `GateHolds` is an argument about the definitions: what the gate
refuses is everything the generator can miss, given that every candidate is a
person; that two lists get different contests rests on the least district of a
list being one of its districts.

**Omissions.** `OmissionsInv` says what a member's copy still tells about an
omission while others split it, merge it and decide on its parts, that what is
scrapped is derived from the omissions of the moment, and that two omissions with
the same details never have the same decision, except the one being decided on.
That last part needs `NoRace`: a report from before districts were required is
spelled out by an unconditional event with the copy that was read, and where two
members may do so at once, the second undoes the first one's decision. The
hypothesis excludes such a start for more than one member; it is about that race
only, and the other theorems do without. The progress is the size of the set of
questions that are asked, one for each part of an actionable omission or one for
the whole of it. `ProgressHolds` maps the questions after a decision one to one
to those before it: the question about a part that is split off to the one about
that part of the omission it came from, and what a holder is asked after a merge
to what it or the merged omission was asked.

**BrpCheck.** The invariant follows a sweep from the claim on: what it read, what
it has answers for, and what became of the events in between. For `HandledKept`
it adds that no sweep of a process still has to record an answer about a
candidate whose finding came from that process: one sweep of a process runs at a
time (`SweepClaim`), and a sweep sets out with the unchecked candidates. Sweeps
of two processes can both have the candidate, and the second records its answer
over the first's. `HandledStays` names that case, and no other one undoes a mark.

**Sessions.** The invariant ties a page to the session, the election and the
stream it was rendered for, a login to the one response it was answered by, a
removed session to the fact that nothing in flight can store it again, and the
counter on an election's main stream to the last login with that key for that
election.

**Finalise.** `OInv` says that every order anywhere (recorded, in a projection,
numbered, posted and checked, or prepared by a deletion) names each group once;
for a posted order that follows from `IsPermutation` with a numbering, by
counting. `KInv` says that a projection, or a decision, that is not behind in
events equals what is recorded, from which `RemovalsKeepTheRest` follows.
`UndisturbedDocumentsAgree` first shows that a group that ties with no other has
one place in every numbering, one more than the number of groups that precede it,
and that this stays so when a numbering is recorded; for the other groups the
property allows that two documents differ, since `ListNumbering::new` leaves ties
as the database happens to list them. `ZInv` then says of a download that nobody
disturbed that its process has the whole main stream, and, from the first
numbering on, every stream that can be numbered in its cache, so that what other
processes delete or decide is not seen until this process catches up with it,
which disturbs the download.

**Background.** `NoReportSleptOn` rests on a permit being kept for a prober that
is not waiting; `RefusedOnlyWhenTorn` on what each of the two files can hold while
a pair is written; `RetiredKeysExpire` and `AvailableWhileReachable` on bounds
between the clock, the next fetch and the validity of what is held.
`MetadataAssumption` asks for natural intervals and ages, the least age not above
the greatest, and documents whose validity is a number of at most `Never`.

`TypeOK` is proved wherever it is stated by itself and is then not part of a run.

Left to TLC: liveness (`RequestsEnd`, `SweepsEnd`, `GateFollowsDatabase`,
`DueIsReplaced`), which the prover cannot do. Every other property of the passing
runs is stated by a theorem.

## 5. What the models leave out within a modelled part

- Store: key rotation and wrapping of keys, the memory backend, `created_at`
  (which is in `StoreRegistry`).
- Registry: one election, one clock. A prefix of a hash that names two events is not
  modelled. A member on another process goes on seeing a deleted group until
  that process loads the stream again, which `SeesWhatWasTold` allows for
  committee streams. That a registry opens streams of its own scope only is part
  of the model (`StreamsByScope`) and of no property.
- Paper corrections are written unconditionally. `PositionsDistinct` holds for
  them; `CandidatesExist`, `IdentitiesDistinct`, `NothingLostUnseen`,
  `FormsKeepTheRest` and `BoundIsTakenOver` are stated for own streams only,
  because the code does not give them to two members who correct the same papers
  at once.
- Submission: problems that are warnings or information, the steps of a first
  visit (`initial`), the Frisian documents, which fields of a submitter,
  authorisation or person are filled in, and what is printed beyond folders and
  contests. The appellation stands for itself and the previous results that go
  with it. `gen_documents` on the finalise page is not refused during paper
  corrections, while the audit log's handler says "Downloading documents is not
  part of paper corrections" (`src/pg/audit_log/pages/detail.rs`); the pages hide
  the finalise section then, and the model has what the handler does.
- BRP: a finding of a member's own check can be overwritten by a sweep that read
  the candidate before it; `HandledStays` is about what sweeps found. A result
  that meets three conflicts is dropped without making the sweep look
  unfinished; `FinishedMeansConsulted` speaks of the answers, not of the
  records.
- Omissions: a report from before districts were required is spelled out by an
  unconditional event first; two members who assess one at the same time
  overwrite each other. The run has one member do so. Two members who toggle
  "finished" at once both record the same state.
- Sessions: the counter of a key is kept per election, on the main stream that the
  login is for, and `LoginsCountOnce` compares the logins for one election; that
  one election's counter says nothing of another's is what the code does and what
  the model has. Two logins of one user that are established at once leave two
  sessions, each found and removed by its own logout. The contents of SAML messages
  (signature, audience, status: valid or refused), locale, the in-memory
  backends, pinning of the default election, extending by POST, cookie
  attributes.
- Finalise: the streams of the groups are read in one step (the registry reads
  one after the other); registrations are abstracted to one result per
  appellation, and a group's lists to the number of districts with a valid list
  and of those with a candidate left; groups that tie in everything come in any
  order (`Numberings` is a set); objections and hearing details. `CatchUp` may
  come at any moment, while in the code it takes a request for the group's papers
  or an `update_when` that was refused.
- Background: time in `Health` and `Certificates` is a step that may come at any
  moment; a directory that hangs is one that fails; the XML of the metadata is a
  record of its key, hint and validity.

## 6. Plan

The modules are complete as planned, and every safety property that a passing
run checks has its theorem. What stays with TLC is named in section 4.

### Not modelled

Most of the repository's lines are not state that several actors share:

- tests, which are more than half of the Rust lines, and `playwright/`;
- templates, translations and layout: the models H and I, PDF, the pages;
- XML and cryptography: EML beyond which lists and contests it names, SAML
  messages, signatures, encryption, WebAuthn, key wrapping;
- parsing and validation of single fields, CSV and pagination: pure functions on
  text, whose content is the character classes and the wording;
- how the audit log and the committee's pages describe and filter what is
  recorded; letters and read-only views;
- configuration, the proxy protocol, routing tables, TLS;
- the front end's scripts, whose requests are inputs of the models;
- fixtures, development data, the memory backend, and tools.

What these do to shared state, they do through the operations that are modelled.
