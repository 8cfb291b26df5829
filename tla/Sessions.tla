------------------------------ MODULE Sessions ------------------------------
(* Logins, sessions and what a session is used for, as the instances of the *)
(* application share them in PostgreSQL (src/src/auth, src/src/app and      *)
(* src/auth-service).  A political group logs in through the routing        *)
(* service (RD) by SAML, a committee member with a security key.  A session *)
(* works in one context at a time: the election a group picked, or the      *)
(* stream whose papers a member corrects.  Every statement that goes to the *)
(* database is a step of its own, so that requests of one browser, of       *)
(* several browsers and of several instances interleave between them.       *)
EXTENDS Naturals, Sequences, FiniteSets

CONSTANTS
    Browsers,      \* each with its cookies and open pages
    Groups,        \* political groups: the stream an identity derives to
    Members,       \* committee members with a security key
    Contexts,      \* elections for a group, imported streams for a member
    Elections,     \* what a member logs in to: each has its own main stream
    Requests,      \* requests in flight, in any instance
    Idle,          \* SESSION_IDLE_TIMEOUT_SECS
    Absolute,      \* SESSION_ABSOLUTE_TIMEOUT_SECS
    Ttl,           \* PENDING_REQUEST_TTL
    MaxTabs,       \* bound: pages a browser keeps open
    MaxCount,      \* bound: the signature counter of a key
    MaxRotations,  \* bound: context switches in a session
    Scenes,        \* bounds and starting points, see Init
    NoContext, NoUser, NoPage

Users == Groups \cup Members

ASSUME ConstantsAssumption ==
    /\ Idle \in Nat \ {0} /\ Absolute \in Nat \ {0} /\ Ttl \in Nat
    /\ {MaxTabs, MaxCount, MaxRotations} \subseteq Nat
    /\ Groups \cap Members = {}
    /\ NoContext \notin Contexts \cup Elections /\ NoUser \notin Users \cup {"failed"}

VARIABLES
    now,        \* the clock
    pending,    \* pending_requests: when an outstanding id was registered
    flows,      \* every id given out, what for, and what the RD knows of it
    sessions,   \* the sessions table, by token
    made,       \* every session ever made: from which login, and when used
    browser,    \* cookies and open pages
    request,    \* requests in flight
    partitions, \* elections a stream is known for, in a cache or on disk
    counts,     \* on an election's main stream: the counter a key last reported
    keyLogins,  \* the counters of a key's logins there, in order
    saved,      \* the page of the last form that was saved, and where it went
    scene       \* the bounds and starting point of this behaviour

vars == <<now, pending, flows, sessions, made, browser, request, partitions,
          counts, keyLogins, saved, scene>>
loginVars == <<pending, flows, counts, keyLogins>>
workVars == <<partitions, saved>>

NoId == 0
NoToken == 0
CommitteeOf(u) == u \in Members

(* last_sign_count: a key's counter is kept on every main stream by itself. *)
KeyStreams == Members \X Elections

(* A session as a request reads it.  A CSRF token is random: it is told     *)
(* apart by the session it was made for and how often it was replaced.      *)
Session == [user : Users, context : Contexts \cup {NoContext}, csrf : Nat \ {0},
            created : Nat, active : Nat]
(* What a rendered page shows, and the token its forms carry.               *)
Page == [token : Nat, csrf : Nat, user : Users, context : Contexts \cup {NoContext}]

PageOf(t, s) == [token |-> t, csrf |-> s.csrf, user |-> s.user, context |-> s.context]

ASSUME NoPageAssumption == NoPage \notin Page

Kinds == {"view", "poll", "save", "switch", "logout", "refused"}

ASSUME ScenesAssumption ==
    \A x \in Scenes :
        /\ x.users \subseteq Users /\ x.kinds \subseteq Kinds
        /\ x.logins \in Nat /\ x.time \in Nat
        /\ x.start \in Seq([by : Browsers, user : Users, context : Contexts \cup {NoContext}])

Ready == [at |-> "idle"]
Ask == [at : {"get"}, by : Browsers, token : Nat, kind : Kinds,
        page : Page \cup {NoPage}, target : Contexts \cup {NoContext}]
Visit == [at : {"drop", "touch", "handle", "leave", "left"}, by : Browsers, token : Nat, kind : Kinds,
          page : Page \cup {NoPage}, target : Contexts \cup {NoContext},
          session : Session]
Login == [at : {"consume", "resolve", "end", "record", "remove", "others", "insert"},
          by : Browsers, token : Nat, id : Nat, answer : Nat,
          user : Users \cup {NoUser}, context : Contexts \cup {NoContext},
          election : Elections \cup {NoContext}, count : Nat, seen : Nat, born : Nat]

-----------------------------------------------------------------------------
(* Reading the tables.                                                      *)

(* is_expired: less than a second is left of the idle or absolute timeout.  *)
Expired(s) == s.active + Idle <= now \/ s.created + Absolute <= now
Alive(t) == t \in DOMAIN sessions /\ ~Expired(sessions[t])

Without(f, gone) == [x \in DOMAIN f \ gone |-> f[x]]
With(f, x, v) == [y \in DOMAIN f \cup {x} |-> IF y = x THEN v ELSE f[y]]

(* cleanup_expired, which keeps a session in its last second.               *)
Swept == {t \in DOMAIN sessions : \/ sessions[t].active + Idle < now
                                   \/ sessions[t].created + Absolute < now}

SessionsOf(u) == {t \in DOMAIN sessions : sessions[t].user = u}

At(r, kinds, phase) == request[r].at = phase /\ request[r].kind \in kinds
Answer(r) == request' = [request EXCEPT ![r] = Ready]

(* Mutant: the polls of a page count as well.                               *)
EveryRequestCounts(kind) == TRUE

(* Only requests of the user count as activity, not the polls of a page.    *)
IsActivity(kind) == kind # "poll"

-----------------------------------------------------------------------------
(* Outstanding ids, in one table: AuthnRequests of the SAML login,          *)
(* LogoutRequests, and challenges of the security-key login.  Registering   *)
(* sweeps the expired ones, and a failure is only logged.                   *)

Register(id) ==
    LET fresh == Without(pending, {i \in DOMAIN pending : pending[i] + Ttl < now})
    IN  pending' \in {With(fresh, id, now), fresh, pending}

Pending(id) == id \in DOMAIN pending /\ pending[id] + Ttl >= now

(* Mutant: the id is looked up and left in the table.                       *)
TakeNothing(id) == pending' = pending

(* The one DELETE that checks and consumes.                                 *)
Take(id) == pending' = Without(pending, {id})

(* handle_login: the browser is sent to the RD with a flow cookie.          *)
StartLogin(b) ==
    /\ Len(flows) < scene.logins
    /\ flows' = Append(flows, [by |-> b, of |-> "saml", answer |-> NoUser, resolved |-> FALSE])
    /\ Register(Len(flows'))
    /\ browser' = [browser EXCEPT ![b].flow = Len(flows')]
    /\ UNCHANGED <<now, sessions, made, request, counts, keyLogins, workVars, scene>>

(* login_page: a challenge for the key is rendered into the page.           *)
OpenLoginPage(b) ==
    /\ Len(flows) < scene.logins
    /\ flows' = Append(flows, [by |-> b, of |-> "key", answer |-> NoUser, resolved |-> FALSE])
    /\ Register(Len(flows'))
    /\ browser' = [browser EXCEPT ![b].challenge = Len(flows')]
    /\ UNCHANGED <<now, sessions, made, request, counts, keyLogins, workVars, scene>>

(* The RD, outside this code: a user identifies, cancels or fails.          *)
Identify(id) ==
    /\ flows[id].of = "saml" /\ flows[id].answer = NoUser
    /\ \E answer \in (Groups \cap scene.users) \cup {"failed"} :
         flows' = [flows EXCEPT ![id].answer = answer]
    /\ UNCHANGED <<now, pending, sessions, made, browser, request, counts,
                   keyLogins, workVars, scene>>

-----------------------------------------------------------------------------
(* Logging in.                                                              *)

(* handle_acs: the RD's redirect comes in with an artifact, not always in   *)
(* the browser that started the flow, nor for its latest flow.  Without a   *)
(* flow cookie it is refused at once.                                       *)
Callback(r, b, answer) ==
    /\ request[r] = Ready /\ browser[b].flow # NoId
    /\ flows[answer].of = "saml" /\ flows[answer].answer # NoUser
    /\ request' = [request EXCEPT ![r] =
         [at |-> "consume", by |-> b, token |-> browser[b].token,
          id |-> browser[b].flow, answer |-> answer, user |-> NoUser,
          context |-> NoContext, election |-> NoContext, count |-> 0, seen |-> 0, born |-> 0]]
    /\ UNCHANGED <<now, pending, flows, sessions, made, browser, counts, keyLogins,
                   workVars, scene>>

(* login_finish: the key signed the challenge of the page, and an election  *)
(* was chosen (DEFAULT_ELECTION, or the form; without one the login is      *)
(* refused).  The main stream of that election is loaded before the         *)
(* assertion is verified, and holds the counter it is verified against.     *)
FinishCeremony(r, b, m, e, count) ==
    /\ request[r] = Ready /\ browser[b].challenge # NoId
    /\ request' = [request EXCEPT ![r] =
         [at |-> "consume", by |-> b, token |-> browser[b].token,
          id |-> browser[b].challenge, answer |-> NoId, user |-> m,
          context |-> NoContext, election |-> e, count |-> count,
          seen |-> counts[<<m, e>>], born |-> 0]]
    /\ UNCHANGED <<now, pending, flows, sessions, made, browser, counts, keyLogins,
                   workVars, scene>>

(* The flow cookie is cleared by every response of the ACS.                 *)
ClearsFlow(r) == [browser EXCEPT ![request[r].by].flow =
                    IF request[r].answer = NoId THEN @ ELSE NoId]
Refuse(r) == Answer(r) /\ browser' = ClearsFlow(r)

(* consume_if_pending: once, within its time; an error counts as not.       *)
Consume(r) ==
    LET q == request[r] IN
    /\ q.at = "consume"
    /\ \/ /\ Pending(q.id) /\ Take(q.id)
          /\ request' = [request EXCEPT ![r].at = IF q.answer = NoId THEN "record" ELSE "resolve"]
          /\ UNCHANGED browser
       \/ Refuse(r) /\ UNCHANGED pending
    /\ UNCHANGED <<now, flows, sessions, made, counts, keyLogins, workVars, scene>>

(* Mutant: an answer to any request will do.                                *)
AnswersAnything(q) == TRUE

(* check_answers_bound_request: the RD's answer is to the flow's request.   *)
AnswersBound(q) == q.answer = q.id

(* resolve_artifact_to_claims: the RD gives an answer out once.  An answer  *)
(* to another request refuses the login; a failed identification also ends  *)
(* the session the browser has.                                             *)
Resolve(r) ==
    LET q == request[r]
        answer == flows[q.answer].answer
    IN
    /\ q.at = "resolve"
    /\ flows' = [flows EXCEPT ![q.answer].resolved = TRUE]
    /\ IF flows[q.answer].resolved \/ ~AnswersBound(q)
       THEN Refuse(r)
       ELSE /\ request' = [request EXCEPT ![r] =
                 IF answer = "failed" THEN [q EXCEPT !.at = "end"]
                 ELSE [q EXCEPT !.at = "record", !.user = answer]]
            /\ UNCHANGED browser
    /\ UNCHANGED <<now, pending, sessions, made, counts, keyLogins, workVars, scene>>

(* clear_session_cookie, after a failed identification.                     *)
EndSession(r) ==
    LET q == request[r] IN
    /\ q.at = "end"
    /\ sessions' = Without(sessions, {q.token})
    /\ browser' = [ClearsFlow(r) EXCEPT ![q.by].token = NoToken]
    /\ Answer(r)
    /\ UNCHANGED <<now, made, loginVars, workVars, scene>>

(* login_election: an election the stream has events in, if any is found;   *)
(* the login is then recorded on that stream.                               *)
RecordGroupLogin(r) ==
    LET q == request[r] IN
    /\ q.at = "record" /\ q.answer # NoId
    /\ \E c \in partitions[q.user] \cup {NoContext} :
         request' = [request EXCEPT ![r] =
                       [q EXCEPT !.at = "remove", !.context = c, !.born = now]]
    /\ UNCHANGED <<now, sessions, made, browser, loginVars, workVars, scene>>

(* sign_count_advanced: two zeroes mean that the key does not count.        *)
Advanced(stored, reported) == (stored = 0 /\ reported = 0) \/ reported > stored

(* Mutant: the login is recorded without a second look at the counter.      *)
CounterAsLoaded(q) == Advanced(q.seen, q.count)

(* record_security_key_login: verify_login looked at the counter as loaded; *)
(* the record is one step with a second look (update_when, see EventStore). *)
(* Both look at the election's own main stream, and the login is recorded   *)
(* there only: what the key reported for another election plays no part.    *)
CounterAccepted(q) ==
    Advanced(q.seen, q.count) /\ Advanced(counts[<<q.user, q.election>>], q.count)

RecordKeyLogin(r) ==
    LET q == request[r] IN
    /\ q.at = "record" /\ q.answer = NoId
    /\ CounterAccepted(q)
    /\ counts' = [counts EXCEPT ![<<q.user, q.election>>] = IF @ < q.count THEN q.count ELSE @]
    /\ keyLogins' = [keyLogins EXCEPT ![<<q.user, q.election>>] = Append(@, q.count)]
    /\ request' = [request EXCEPT ![r] = [q EXCEPT !.at = "remove", !.born = now]]
    /\ UNCHANGED <<now, pending, flows, sessions, made, browser, workVars, scene>>

(* establish_session: the session the browser came with is removed and the  *)
(* expired ones are swept, then the user's other sessions are removed, then *)
(* the new one is stored.                                                   *)
RemoveOld(r) ==
    LET q == request[r] IN
    /\ q.at = "remove"
    /\ sessions' \in {Without(sessions, {q.token}), Without(sessions, {q.token} \cup Swept)}
    /\ request' = [request EXCEPT ![r].at = "others"]
    /\ UNCHANGED <<now, made, browser, loginVars, workVars, scene>>

RemoveOthers(r) ==
    LET q == request[r] IN
    /\ q.at = "others"
    /\ sessions' = Without(sessions, SessionsOf(q.user))
    /\ request' = [request EXCEPT ![r].at = "insert"]
    /\ UNCHANGED <<now, made, browser, loginVars, workVars, scene>>

(* insert: a failure is only logged, and the cookie is set all the same.    *)
Insert(r) ==
    LET q == request[r]
        t == Len(made) + 1
    IN
    /\ q.at = "insert"
    /\ made' = Append(made, [id |-> q.id, by |-> q.by, user |-> q.user, used |-> q.born])
    /\ sessions' \in {sessions,
                      With(sessions, t, [user |-> q.user, context |-> q.context, csrf |-> 1,
                                         created |-> q.born, active |-> q.born])}
    /\ browser' = [ClearsFlow(r) EXCEPT ![q.by].token = t]
    /\ Answer(r)
    /\ UNCHANGED <<now, loginVars, workVars, scene>>

(* An error of the database while a session is established: the cookies     *)
(* staged so far are sent along.                                            *)
EstablishFails(r) ==
    /\ request[r].at \in {"end", "remove", "others"}
    /\ Refuse(r)
    /\ UNCHANGED <<now, sessions, made, loginVars, workVars, scene>>

-----------------------------------------------------------------------------
(* Using a session.                                                         *)

(* A request with the browser's session cookie.  A form is posted from one  *)
(* of the pages that are open, whatever happened since it was rendered.     *)
Send(r, b, kind, page, target) ==
    /\ request[r] = Ready /\ browser[b].token # NoToken
    /\ kind \in scene.kinds
    /\ IF kind \in {"save", "switch", "logout"} THEN page \in browser[b].pages ELSE page = NoPage
    /\ IF kind = "switch" THEN target # NoContext \/ CommitteeOf(page.user)
                           ELSE target = NoContext
    /\ request' = [request EXCEPT ![r] =
         [at |-> "get", by |-> b, token |-> browser[b].token, kind |-> kind,
          page |-> page, target |-> target]]
    /\ UNCHANGED <<now, sessions, made, browser, loginVars, workVars, scene>>

(* enforce_csrf: a form carries the token of the session it is sent with.   *)
CsrfMatches(q, s) == q.page # NoPage => q.page.token = q.token /\ q.page.csrf = s.csrf

(* session_middleware up to its second statement: the session is read once, *)
(* and what is read serves the whole request.  No session is a redirect to  *)
(* the login; an expired or refused one (another user agent, a key that was *)
(* taken from the configuration) is dropped first.                          *)
GetSession(r) ==
    LET q == request[r]
        s == sessions[q.token]
        take(phase, session) ==
            request' = [request EXCEPT ![r] = [at |-> phase, by |-> q.by, token |-> q.token,
                kind |-> q.kind, page |-> q.page, target |-> q.target, session |-> session]]
    IN
    /\ q.at = "get"
    /\ \/ q.token \notin DOMAIN sessions /\ Answer(r) /\ UNCHANGED made
       \/ /\ q.token \in DOMAIN sessions /\ (Expired(s) \/ q.kind = "refused")
          /\ take("drop", s) /\ UNCHANGED made
       \/ /\ Alive(q.token) /\ q.kind # "refused" /\ ~CsrfMatches(q, s)
          /\ Answer(r) /\ UNCHANGED made
       \/ /\ Alive(q.token) /\ q.kind # "refused" /\ CsrfMatches(q, s)
          /\ IF IsActivity(q.kind)
             THEN take("touch", [s EXCEPT !.active = now])
             ELSE take("handle", s)
          /\ made' = IF q.kind = "poll" THEN made ELSE [made EXCEPT ![q.token].used = now]
    /\ UNCHANGED <<now, sessions, browser, loginVars, workVars, scene>>

(* drop_token, or remove for a refused session; a member whose key was      *)
(* taken away also loses the cookie.                                        *)
Drop(r) ==
    LET q == request[r]
        cleared == [browser EXCEPT ![q.by].token = NoToken]
        revoked == q.kind = "refused" /\ CommitteeOf(q.session.user)
    IN
    /\ q.at = "drop"
    /\ sessions' = Without(sessions, {q.token})
    /\ browser' \in {browser} \cup (IF revoked THEN {cleared} ELSE {})
    /\ Answer(r)
    /\ UNCHANGED <<now, made, loginVars, workVars, scene>>

(* Mutant: the session is stored again.                                     *)
TouchedUpsert(t, s) == With(sessions, t, s)

(* touch: GREATEST, and only if the row is still there.                     *)
Touched(t, s) ==
    IF t \in DOMAIN sessions
    THEN [sessions EXCEPT ![t].active = IF @ < s.active THEN s.active ELSE @]
    ELSE sessions

Touch(r) ==
    /\ request[r].at = "touch"
    /\ sessions' \in {sessions, Touched(request[r].token, request[r].session)}
    /\ request' = [request EXCEPT ![r].at = "handle"]
    /\ UNCHANGED <<now, made, browser, loginVars, workVars, scene>>

(* A page is rendered from the session that was read; other tabs stay open  *)
(* or are closed.                                                           *)
View(r) ==
    LET q == request[r] IN
    /\ At(r, {"view"}, "handle")
    /\ \E kept \in SUBSET browser[q.by].pages :
         /\ Cardinality(kept) < MaxTabs
         /\ browser' = [browser EXCEPT ![q.by].pages = kept \cup {PageOf(q.token, q.session)}]
    /\ Answer(r)
    /\ UNCHANGED <<now, sessions, made, loginVars, workVars, scene>>

(* Mutant: the context is read anew.                                        *)
StoreContextNow(q) ==
    IF q.token \in DOMAIN sessions THEN sessions[q.token].context ELSE q.session.context

(* store_middleware resolves the store from the session that was read, and  *)
(* the handler writes to it.  Without a context it redirects.               *)
StoreContext(q) == q.session.context

Save(r) ==
    LET q == request[r] IN
    /\ At(r, {"save"}, "handle") /\ q.session.context # NoContext
    /\ saved' = [page |-> q.page, user |-> q.session.user, context |-> StoreContext(q)]
    /\ partitions' = IF CommitteeOf(q.session.user) THEN partitions
                     ELSE [partitions EXCEPT ![q.session.user] = @ \cup {StoreContext(q)}]
    /\ Answer(r)
    /\ UNCHANGED <<now, sessions, made, browser, loginVars, scene>>

(* set_election and set_paper_correction_stream_id: one conditional write   *)
(* of the context and a new CSRF token.                                     *)
SetContext(t, s, c) ==
    /\ t \in DOMAIN sessions /\ sessions[t].csrf = s.csrf
    /\ sessions' = [sessions EXCEPT ![t].context = c, ![t].csrf = @ + 1]

Switch(r) ==
    LET q == request[r] IN
    /\ At(r, {"switch"}, "handle") /\ q.session.csrf <= MaxRotations
    /\ SetContext(q.token, q.session, q.target)
    /\ Answer(r)
    /\ UNCHANGED <<now, made, browser, loginVars, workVars, scene>>

(* logout_session: the row is removed; an error of the database is not a   *)
(* logout (see Fail).  Only a session of a group that was still there has   *)
(* a subject to log out at the RD (ended_session).                          *)
Logout(r) ==
    LET q == request[r] IN
    /\ At(r, {"logout"}, "handle")
    /\ sessions' = Without(sessions, {q.token})
    /\ request' = [request EXCEPT ![r].at =
         IF q.token \in DOMAIN sessions /\ ~CommitteeOf(q.session.user) THEN "leave" ELSE "left"]
    /\ UNCHANGED <<now, made, browser, loginVars, workVars, scene>>

(* The rest of handle_logout: the cookie is cleared, and the browser is     *)
(* sent to the RD with a LogoutRequest, or, without a subject or without    *)
(* the metadata of the RD, to the front page.                               *)
AnswerLogout(r) ==
    LET q == request[r] IN
    /\ q.at \in {"leave", "left"}
    /\ \/ UNCHANGED <<pending, flows>>
       \/ /\ q.at = "leave" /\ Len(flows) < scene.logins
          /\ flows' = Append(flows, [by |-> q.by, of |-> "logout", answer |-> NoUser,
                                     resolved |-> FALSE])
          /\ Register(Len(flows'))
    /\ browser' = [browser EXCEPT ![q.by].token = NoToken]
    /\ Answer(r)
    /\ UNCHANGED <<now, sessions, made, counts, keyLogins, workVars, scene>>

(* handle_sls: the RD's signed LogoutResponse, which may come late or       *)
(* again, consumes the id it answers and touches no session.                *)
HandleSls(id) ==
    /\ flows[id].of = "logout" /\ Pending(id)
    /\ Take(id)
    /\ UNCHANGED <<now, flows, sessions, made, browser, request, counts, keyLogins,
                   workVars, scene>>

(* A request ends without further effect: a poll, a redirect, a refused     *)
(* write (a conflict, a limit), an error, or a client that went away.       *)
Fail(r) ==
    /\ request[r] # Ready
    /\ Answer(r)
    /\ UNCHANGED <<now, sessions, made, browser, loginVars, workVars, scene>>

(* run_session_sweeper.                                                     *)
Sweep ==
    /\ Swept # {}
    /\ sessions' = Without(sessions, Swept)
    /\ UNCHANGED <<now, made, browser, request, loginVars, workVars, scene>>

Tick ==
    /\ now < scene.time
    /\ now' = now + 1
    /\ UNCHANGED <<sessions, made, browser, request, loginVars, workVars, scene>>

-----------------------------------------------------------------------------
(* A behaviour starts without sessions, or with browsers that logged in and *)
(* have a page open: scene.start lists who is logged in where.              *)
StartSession(entry) == [user |-> entry.user, context |-> entry.context, csrf |-> 1,
                        created |-> 0, active |-> 0]

Init ==
    /\ scene \in Scenes
    /\ now = 0 /\ pending = << >> /\ flows = << >>
    /\ sessions = [t \in DOMAIN scene.start |-> StartSession(scene.start[t])]
    /\ made = [t \in DOMAIN scene.start |->
                 [id |-> NoId, by |-> scene.start[t].by, user |-> scene.start[t].user, used |-> 0]]
    /\ browser = [b \in Browsers |->
         LET own == {t \in DOMAIN scene.start : scene.start[t].by = b}
         IN  [token |-> IF own = {} THEN NoToken ELSE CHOOSE t \in own : TRUE,
              flow |-> NoId, challenge |-> NoId,
              pages |-> {PageOf(t, StartSession(scene.start[t])) : t \in own}]]
    /\ request = [r \in Requests |-> Ready]
    /\ partitions = [u \in Users |-> {scene.start[t].context : t \in
                        {t \in DOMAIN scene.start : scene.start[t].user = u}} \ {NoContext}]
    /\ counts = [k \in KeyStreams |-> 0]
    /\ keyLogins = [k \in KeyStreams |-> << >>]
    /\ saved = NoPage

LoginStep(r) ==
    \/ Consume(r) \/ Resolve(r) \/ EndSession(r)
    \/ RecordGroupLogin(r) \/ RecordKeyLogin(r)
    \/ RemoveOld(r) \/ RemoveOthers(r) \/ Insert(r) \/ EstablishFails(r)

VisitStep(r) ==
    \/ GetSession(r) \/ Drop(r) \/ Touch(r)
    \/ View(r) \/ Save(r) \/ Switch(r) \/ Logout(r) \/ AnswerLogout(r)

Next ==
    \/ \E b \in Browsers :
         \/ scene.users \cap Groups # {} /\ StartLogin(b)
         \/ scene.users \cap Members # {} /\ OpenLoginPage(b)
         \/ \E r \in Requests :
              \/ \E id \in DOMAIN flows : Callback(r, b, id)
              \/ \E m \in Members \cap scene.users, e \in Elections, n \in 0 .. MaxCount :
                   FinishCeremony(r, b, m, e, n)
              \/ \E kind \in Kinds, page \in browser[b].pages \cup {NoPage},
                    c \in Contexts \cup {NoContext} : Send(r, b, kind, page, c)
    \/ \E id \in DOMAIN flows : Identify(id) \/ HandleSls(id)
    \/ \E r \in Requests : LoginStep(r) \/ VisitStep(r) \/ Fail(r)
    \/ Sweep \/ Tick

Spec == Init /\ [][Next]_vars

-----------------------------------------------------------------------------
(* Tables, cookies and requests in flight keep their types; a session's     *)
(* CSRF token is never the empty one.                                       *)
TypeOK ==
    /\ now \in Nat /\ scene \in Scenes
    /\ DOMAIN pending \subseteq DOMAIN flows /\ \A i \in DOMAIN pending : pending[i] \in 0 .. now
    /\ \A i \in DOMAIN flows : flows[i] \in
         [by : Browsers, of : {"saml", "key", "logout"}, answer : Groups \cup {NoUser, "failed"},
          resolved : BOOLEAN]
    /\ DOMAIN sessions \subseteq DOMAIN made
    /\ \A t \in DOMAIN sessions : sessions[t] \in Session
    /\ \A t \in DOMAIN made : made[t] \in [id : Nat, by : Browsers, user : Users, used : Nat]
    /\ browser \in [Browsers -> [token : Nat, flow : Nat, challenge : Nat, pages : SUBSET Page]]
    /\ request \in [Requests -> {Ready} \cup Ask \cup Visit \cup Login]
    /\ partitions \in [Users -> SUBSET Contexts]
    /\ counts \in [KeyStreams -> Nat] /\ keyLogins \in [KeyStreams -> Seq(Nat)]
    /\ saved \in {NoPage} \cup [page : Page, user : Users, context : Contexts]

(* A form is saved for the user and in the context its page showed, though  *)
(* the election was switched in another tab, the paper corrections of       *)
(* another stream were opened, or another user logged in, between rendering *)
(* and posting it, or while it was being handled (enforce_csrf, the CSRF    *)
(* rotation of set_election, and one session read per request).             *)
SavesLandWhereRendered ==
    saved # NoPage => saved.user = saved.page.user /\ saved.context = saved.page.context

(* A session that was logged out, replaced, refused or expired never comes  *)
(* back: a row only appears for a login, whatever requests of the removed   *)
(* session are still being handled (touch never re-creates it).             *)
RemovedStaysRemoved ==
    [][\A t \in DOMAIN sessions' : t \in DOMAIN sessions \/ t \notin DOMAIN made]_vars

(* A session is only alive within the idle timeout of a request its user    *)
(* made, however often a page polls for the expiry or for a BRP check.      *)
IdleSessionsExpire ==
    \A t \in DOMAIN sessions : Alive(t) => now < made[t].used + Idle

(* A login counts once: an answer or a signed challenge that comes in       *)
(* twice, also at once in two instances or for two elections, leads to one  *)
(* session at most (consume_if_pending), and of two logins with one key for *)
(* one election that race, the one whose counter was overtaken is refused   *)
(* (record_security_key_login).  The counters of two elections are apart:   *)
(* the code does not compare them.                                          *)
LoginsCountOnce ==
    /\ \A t, u \in DOMAIN made : made[t].id = made[u].id /\ made[t].id # NoId => t = u
    /\ \A k \in KeyStreams : \A i \in 1 .. Len(keyLogins[k]) - 1 :
           Advanced(keyLogins[k][i], keyLogins[k][i + 1])

(* A browser gets a session from the routing service only for the user who  *)
(* identified in a flow that this same browser started, though answers come *)
(* late, in another browser or after a newer flow was started.              *)
LoginsAreOwn ==
    \A t \in DOMAIN made : made[t].id # NoId =>
        LET flow == flows[made[t].id]
        IN  flow.by = made[t].by /\ (flow.of = "saml" => flow.answer = made[t].user)
=============================================================================
