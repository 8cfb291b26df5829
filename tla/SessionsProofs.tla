--------------------------- MODULE SessionsProofs ---------------------------
(***************************************************************************)
(* Proofs about Sessions, for any browsers, users, contexts, requests,     *)
(* timeouts and starting points.                                           *)
(***************************************************************************)
EXTENDS Sessions, SequenceTheorems, TLAPS

Flow == [by : Browsers, of : {"saml", "key", "logout"}, answer : Groups \cup {NoUser, "failed"},
         resolved : BOOLEAN]
Made == [id : Nat, by : Browsers, user : Users, used : Nat]

VisitPlaces == {"drop", "touch", "handle", "leave", "left"}
TakenPlaces == {"resolve", "end", "record", "remove", "others", "insert"}
Posts == {"save", "switch", "logout"}

Asking(r) == request[r].at = "get"
Visiting(r) == request[r].at \in VisitPlaces
Taken(r) == request[r].at \in TakenPlaces
LoggingIn(r) == request[r].at \in TakenPlaces \cup {"consume"}

Held(x) ==
    /\ x \in {Ready} \cup Ask \cup Visit \cup Login
    /\ x.at \in VisitPlaces \cup {"get"} /\ x.kind \in Posts => x.page \in Page

RequestTypes == request \in [Requests -> {Ready} \cup Ask \cup Visit \cup Login]
                /\ \A r \in Requests : Held(request[r])

LoginTypes ==
    /\ flows \in Seq(Flow)
    /\ DOMAIN pending \subseteq DOMAIN flows /\ \A i \in DOMAIN pending : pending[i] \in 0 .. now
    /\ counts \in [KeyStreams -> Nat] /\ keyLogins \in [KeyStreams -> Seq(Nat)]

SessionTypes ==
    /\ made \in Seq(Made)
    /\ DOMAIN sessions \subseteq DOMAIN made
    /\ \A t \in DOMAIN sessions : sessions[t] \in Session

BrowserTypes ==
    browser \in [Browsers -> [token : Nat, flow : Nat, challenge : Nat, pages : SUBSET Page]]

WorkTypes ==
    /\ partitions \in [Users -> SUBSET Contexts]
    /\ saved \in {NoPage} \cup [page : Page, user : Users, context : Contexts]

TimeTypes == now \in Nat /\ scene \in Scenes

(* Where a login comes from: the browser that has its flow or challenge,    *)
(* and, from the answer of the RD on, the user who identified in it.        *)
OriginOf(q, fl) ==
    /\ q.id \in DOMAIN fl /\ fl[q.id].by = q.by
    /\ q.answer = NoId => fl[q.id].of = "key" /\ q.user \in Members /\ q.election \in Elections
    /\ q.answer # NoId => /\ fl[q.id].of = "saml" /\ q.answer \in DOMAIN fl
                          /\ fl[q.answer].answer # NoUser
    /\ q.at \in {"resolve", "end"} => q.answer # NoId
    /\ q.at \in {"record", "remove", "others", "insert"} /\ q.answer # NoId =>
           q.user \in Groups /\ q.user = fl[q.id].answer

MadeFrom(x, fl) ==
    x.id # NoId => /\ x.id \in DOMAIN fl /\ fl[x.id].by = x.by
                   /\ fl[x.id].of = "saml" => fl[x.id].answer = x.user
                   /\ fl[x.id].answer = NoUser => fl[x.id].of # "saml"

CookieOf(b, id, of, fl) == id # NoId => id \in DOMAIN fl /\ fl[id].by = b /\ fl[id].of = of

Origins ==
    /\ \A b \in Browsers : /\ CookieOf(b, browser[b].flow, "saml", flows)
                            /\ CookieOf(b, browser[b].challenge, "key", flows)
    /\ \A r \in Requests : LoggingIn(r) => OriginOf(request[r], flows)
    /\ \A t \in DOMAIN made : MadeFrom(made[t], flows)

Types == /\ RequestTypes /\ LoginTypes /\ SessionTypes /\ BrowserTypes
         /\ WorkTypes /\ TimeTypes

-----------------------------------------------------------------------------
(* Where a request is tells what it holds.                                  *)

LEMMA Places ==
    ASSUME Types, NEW r \in Requests
    PROVE  /\ Asking(r) => request[r] \in Ask
           /\ Visiting(r) => request[r] \in Visit
           /\ LoggingIn(r) => request[r] \in Login
           /\ request[r] = Ready \/ Asking(r) \/ Visiting(r) \/ LoggingIn(r)
           /\ request[r] = Ready => ~Asking(r) /\ ~Visiting(r) /\ ~LoggingIn(r)
<1>1. request[r] \in {Ready} \cup Ask \cup Visit \cup Login
    BY DEF Types, RequestTypes
<1> QED
    BY <1>1 DEF Ready, Ask, Visit, Login, Asking, Visiting, LoggingIn, VisitPlaces, TakenPlaces

LEMMA DomainsOfSeqs ==
    ASSUME Types
    PROVE  /\ Len(flows) \in Nat /\ DOMAIN flows = 1 .. Len(flows)
           /\ Len(made) \in Nat /\ DOMAIN made = 1 .. Len(made)
BY DEF Types, LoginTypes, SessionTypes

LEMMA InitTypes == Init => Types
<1> SUFFICES ASSUME Init PROVE Types
    OBVIOUS
<1> DEFINE Entry == [by : Browsers, user : Users, context : Contexts \cup {NoContext}]
           n == Len(scene.start)
<1>1. scene \in Scenes /\ scene.start \in Seq(Entry)
    BY ScenesAssumption DEF Init
<1> HIDE DEF Entry
<1>2. n \in Nat /\ DOMAIN scene.start = 1 .. n /\ \A t \in 1 .. n : scene.start[t] \in Entry
    BY <1>1
<1> HIDE DEF n
<1>3. \A t \in 1 .. n : StartSession(scene.start[t]) \in Session
    BY <1>2 DEF StartSession, Session, Entry
<1>4. \A t \in 1 .. n : PageOf(t, StartSession(scene.start[t])) \in Page
    BY <1>2 DEF StartSession, Page, PageOf, Entry
<1>5. made \in Seq(Made)
    BY <1>2 DEF Init, Made, NoId, Entry
<1>6. browser \in [Browsers -> [token : Nat, flow : Nat, challenge : Nat, pages : SUBSET Page]]
    <2> SUFFICES ASSUME NEW b \in Browsers
                 PROVE  LET own == {t \in DOMAIN scene.start : scene.start[t].by = b}
                        IN  /\ (IF own = {} THEN NoToken ELSE CHOOSE t \in own : TRUE) \in Nat
                            /\ {PageOf(t, StartSession(scene.start[t])) : t \in own} \subseteq Page
        BY DEF Init, NoId
    <2> QED
        BY <1>2, <1>4 DEF NoToken
<1>7. partitions \in [Users -> SUBSET Contexts]
    BY <1>2 DEF Init, Entry
<1>8. flows \in Seq(Flow) /\ DOMAIN pending = {} /\ DOMAIN flows = {}
    BY DEF Init
<1>9. /\ DOMAIN sessions = DOMAIN made
      /\ \A t \in DOMAIN sessions : sessions[t] \in Session
      /\ \A t \in DOMAIN made : made[t] \in Made
    BY <1>2, <1>3, <1>5 DEF Init
<1>10. request \in [Requests -> {Ready}] /\ saved = NoPage /\ now \in Nat
       /\ counts \in [KeyStreams -> Nat] /\ keyLogins \in [KeyStreams -> Seq(Nat)]
    BY DEF Init
<1> QED
    BY <1>1, <1>5, <1>6, <1>7, <1>8, <1>9, <1>10
       DEF Types, RequestTypes, LoginTypes, SessionTypes, BrowserTypes, WorkTypes, TimeTypes,
           Held, Ready, VisitPlaces

LEMMA TypesSuffice == Types => TypeOK
<1> SUFFICES ASSUME Types PROVE TypeOK
    OBVIOUS
<1>1. (\A i \in DOMAIN flows : flows[i] \in Flow) /\ (\A t \in DOMAIN made : made[t] \in Made)
    BY DEF Types, LoginTypes, SessionTypes
<1> QED
    BY <1>1 DEF Types, TypeOK, RequestTypes, LoginTypes, SessionTypes, BrowserTypes, WorkTypes,
                TimeTypes, Flow, Made

-----------------------------------------------------------------------------
(* Types are kept, by the variables that a step changes.                    *)

LEMMA ReadyHeld == Held(Ready)
BY DEF Held, Ready, VisitPlaces

LEMMA RequestSet ==
    ASSUME Types, NEW r \in Requests, NEW x, Held(x), request' = [request EXCEPT ![r] = x]
    PROVE  RequestTypes'
<1>1. x \in {Ready} \cup Ask \cup Visit \cup Login
    BY DEF Held
<1> QED
    BY <1>1 DEF Types, RequestTypes

LEMMA RequestKept == Types /\ UNCHANGED request => RequestTypes'
BY DEF Types, RequestTypes

LEMMA KeptTypes ==
    ASSUME Types
    PROVE  /\ UNCHANGED <<loginVars, now>> => LoginTypes'
           /\ UNCHANGED <<made, sessions>> => SessionTypes'
           /\ UNCHANGED browser => BrowserTypes'
           /\ UNCHANGED workVars => WorkTypes'
           /\ UNCHANGED <<now, scene>> => TimeTypes'
<1> USE DEF Types
<1>1. UNCHANGED <<loginVars, now>> => LoginTypes'
    BY DEF LoginTypes, loginVars
<1>2. UNCHANGED <<made, sessions>> => SessionTypes'
    BY DEF SessionTypes
<1>3. UNCHANGED browser => BrowserTypes'
    BY DEF BrowserTypes
<1>4. UNCHANGED workVars => WorkTypes'
    BY DEF WorkTypes, workVars
<1>5. UNCHANGED <<now, scene>> => TimeTypes'
    BY DEF TimeTypes
<1> QED
    BY <1>1, <1>2, <1>3, <1>4, <1>5

(* Removing sessions keeps the others.                                      *)
LEMMA SessionsRemoved ==
    ASSUME Types, UNCHANGED made, NEW gone, sessions' = Without(sessions, gone)
    PROVE  SessionTypes'
BY DEF Types, SessionTypes, Without

(* A new id is registered, or it is not.                                    *)
LEMMA Registered ==
    ASSUME Types, NEW f \in Flow, flows' = Append(flows, f), Register(Len(flows')),
           UNCHANGED <<counts, keyLogins, now>>
    PROVE  LoginTypes' /\ DOMAIN pending' \subseteq DOMAIN pending \cup {Len(flows) + 1}
<1>1. /\ flows \in Seq(Flow) /\ now \in Nat
      /\ DOMAIN pending \subseteq DOMAIN flows /\ \A i \in DOMAIN pending : pending[i] \in 0 .. now
      /\ counts \in [KeyStreams -> Nat] /\ keyLogins \in [KeyStreams -> Seq(Nat)]
    BY DEF Types, LoginTypes, TimeTypes
<1>2. /\ flows' \in Seq(Flow) /\ Len(flows') = Len(flows) + 1
      /\ DOMAIN flows' = 1 .. Len(flows) + 1 /\ DOMAIN flows = 1 .. Len(flows) /\ Len(flows) \in Nat
    BY <1>1
<1>3. /\ DOMAIN pending' \subseteq DOMAIN pending \cup {Len(flows')}
      /\ \A i \in DOMAIN pending' : pending'[i] = now \/ (i \in DOMAIN pending /\ pending'[i] = pending[i])
    BY DEF Register, Without, With
<1> QED
    BY <1>1, <1>2, <1>3 DEF LoginTypes

(* An entry of flows is replaced.                                           *)
LEMMA FlowSet ==
    ASSUME Types, NEW id \in DOMAIN flows, NEW f \in Flow, flows' = [flows EXCEPT ![id] = f]
    PROVE  flows' \in Seq(Flow) /\ DOMAIN flows' = DOMAIN flows /\ Len(flows') = Len(flows)
BY DEF Types, LoginTypes

LEMMA StepTypes == Types /\ Origins /\ [Next]_vars => Types'
<1> SUFFICES ASSUME Types, Origins, [Next]_vars PROVE Types'
    OBVIOUS
<1> USE KeptTypes, ReadyHeld DEF Types, loginVars, workVars
<1>0. ASSUME NEW r \in Requests, Answer(r) PROVE RequestTypes'
    BY <1>0, RequestSet DEF Answer
<1>1. ASSUME NEW b \in Browsers, StartLogin(b) \/ OpenLoginPage(b) PROVE Types'
    <2>1. PICK f \in Flow : flows' = Append(flows, f)
        BY <1>1 DEF StartLogin, OpenLoginPage, Flow
    <2>2. LoginTypes'
        BY <1>1, <2>1, Registered DEF StartLogin, OpenLoginPage
    <2>3. Len(flows') \in Nat
        BY <2>2 DEF LoginTypes
    <2>4. BrowserTypes'
        BY <1>1, <2>3, ZenonT(40) DEF StartLogin, OpenLoginPage, BrowserTypes
    <2> QED
        BY <1>1, <2>2, <2>4, RequestKept DEF StartLogin, OpenLoginPage
<1>2. ASSUME NEW id \in DOMAIN flows, Identify(id) PROVE Types'
    <2>1. PICK answer \in Groups \cup {"failed"} : flows' = [flows EXCEPT ![id].answer = answer]
        BY <1>2 DEF Identify
    <2>2. flows[id] \in Flow
        BY DEF LoginTypes
    <2>a. [flows[id] EXCEPT !.answer = answer] \in Flow
        BY <2>2 DEF Flow
    <2>3. flows' \in Seq(Flow) /\ DOMAIN flows' = DOMAIN flows
        BY <2>1, <2>a, FlowSet
    <2>4. LoginTypes'
        BY <1>2, <2>3 DEF Identify, LoginTypes
    <2> QED
        BY <1>2, <2>4, RequestKept DEF Identify
<1>3. ASSUME NEW r \in Requests, NEW b \in Browsers, NEW a \in DOMAIN flows, Callback(r, b, a)
      PROVE  Types'
    <2> DEFINE x == [at |-> "consume", by |-> b, token |-> browser[b].token,
                     id |-> browser[b].flow, answer |-> a, user |-> NoUser,
                     context |-> NoContext, election |-> NoContext, count |-> 0, seen |-> 0, born |-> 0]
    <2>1. a \in Nat
        BY DEF LoginTypes
    <2>2. Held(x)
        BY <2>1 DEF Held, Login, VisitPlaces, BrowserTypes
    <2>3. request' = [request EXCEPT ![r] = x]
        BY <1>3 DEF Callback
    <2> HIDE DEF x
    <2> QED
        BY <1>3, <2>2, <2>3, RequestSet DEF Callback
<1>4. ASSUME NEW r \in Requests, NEW b \in Browsers, NEW m \in Members, NEW e \in Elections,
             NEW n \in Nat, FinishCeremony(r, b, m, e, n)
      PROVE  Types'
    <2> DEFINE x == [at |-> "consume", by |-> b, token |-> browser[b].token,
                     id |-> browser[b].challenge, answer |-> NoId, user |-> m,
                     context |-> NoContext, election |-> e, count |-> n,
                     seen |-> counts[<<m, e>>], born |-> 0]
    <2>1. counts[<<m, e>>] \in Nat
        BY DEF LoginTypes, KeyStreams
    <2>2. Held(x)
        BY <2>1 DEF Held, Login, VisitPlaces, BrowserTypes, NoId, Users
    <2>3. request' = [request EXCEPT ![r] = x]
        BY <1>4 DEF FinishCeremony
    <2> HIDE DEF x
    <2> QED
        BY <1>4, <2>2, <2>3, RequestSet DEF FinishCeremony
<1>5. ASSUME NEW r \in Requests, NEW b \in Browsers, NEW kind \in Kinds,
             NEW page \in browser[b].pages \cup {NoPage}, NEW c \in Contexts \cup {NoContext},
             Send(r, b, kind, page, c)
      PROVE  Types'
    <2> DEFINE x == [at |-> "get", by |-> b, token |-> browser[b].token, kind |-> kind,
                     page |-> page, target |-> c]
    <2>1. kind \in Posts => page \in browser[b].pages
        BY <1>5 DEF Send, Posts
    <2>2. Held(x)
        BY <2>1 DEF Held, Ask, BrowserTypes
    <2>3. request' = [request EXCEPT ![r] = x]
        BY <1>5 DEF Send
    <2> HIDE DEF x
    <2> QED
        BY <1>5, <2>2, <2>3, RequestSet DEF Send
<1>6. ASSUME NEW r \in Requests, LoginStep(r) PROVE Types'
    <2>0. ASSUME LoggingIn(r) PROVE request[r] \in Login
        BY <2>0, Places
    <2>1. ASSUME NEW at \in TakenPlaces, LoggingIn(r), request' = [request EXCEPT ![r].at = at]
          PROVE  RequestTypes'
        <3>1. Held([request[r] EXCEPT !.at = at])
            BY <2>0, <2>1 DEF Held, Login, TakenPlaces, VisitPlaces
        <3> QED
            BY <2>1, <3>1, RequestSet
    <2>2. ASSUME LoggingIn(r) PROVE ClearsFlow(r) \in
              [Browsers -> [token : Nat, flow : Nat, challenge : Nat, pages : SUBSET Page]]
        BY <2>0, <2>2 DEF ClearsFlow, BrowserTypes, NoId
    <2>3. ASSUME LoggingIn(r), Refuse(r) PROVE BrowserTypes' /\ RequestTypes'
        BY <1>0, <2>2, <2>3 DEF Refuse, BrowserTypes
    <2> USE DEF LoggingIn, TakenPlaces
    <2>4. CASE Consume(r)
        <3>1. LoginTypes'
            BY <2>4 DEF Consume, Take, Without, LoginTypes
        <3>2. BrowserTypes' /\ RequestTypes'
            BY <2>1, <2>3, <2>4 DEF Consume
        <3> QED
            BY <2>4, <3>1, <3>2 DEF Consume
    <2>5. CASE Resolve(r)
        <3> DEFINE q == request[r]
                   f == [flows[q.answer] EXCEPT !.resolved = TRUE]
        <3>0. q \in Login /\ OriginOf(q, flows) /\ q.at = "resolve"
            BY <2>0, <2>5 DEF Resolve, Origins
        <3>a. q.answer \in DOMAIN flows /\ flows[q.answer] \in Flow
            BY <3>0 DEF OriginOf, LoginTypes
        <3>1. q.answer \in DOMAIN flows /\ flows[q.answer] \in Flow /\ f \in Flow
            BY <3>a DEF Flow
        <3>2. LoginTypes'
            BY <2>5, <3>1, FlowSet DEF Resolve, LoginTypes
        <3>3. BrowserTypes' /\ RequestTypes'
            <4>1. CASE Refuse(r)
                BY <2>3, <4>1, <3>0
            <4>2. CASE UNCHANGED browser /\ request' = [request EXCEPT ![r].at = "end"]
                BY <2>1, <4>2, <3>0
            <4>3. CASE /\ UNCHANGED browser
                       /\ request' = [request EXCEPT ![r] =
                              [q EXCEPT !.at = "record", !.user = flows[q.answer].answer]]
                       /\ flows[q.answer].answer # "failed"
                <5>1. flows[q.answer].answer \in Groups
                    BY <3>0, <3>1, <4>3 DEF Flow, OriginOf
                <5>2. Held([q EXCEPT !.at = "record", !.user = flows[q.answer].answer])
                    BY <3>0, <5>1 DEF Held, Login, Users, VisitPlaces
                <5> QED
                    BY <4>3, <5>2, RequestSet
            <4> QED
                BY <2>5, <4>1, <4>2, <4>3 DEF Resolve
        <3> QED
            BY <2>5, <3>2, <3>3 DEF Resolve
    <2>6. CASE EndSession(r)
        BY <2>6, <1>0, <2>2, SessionsRemoved DEF EndSession, BrowserTypes, NoToken
    <2>7. CASE RecordGroupLogin(r)
        <3> DEFINE q == request[r]
        <3>1. q \in Login /\ OriginOf(q, flows) /\ q.at = "record" /\ q.answer # NoId
            BY <2>0, <2>7 DEF RecordGroupLogin, Origins
        <3>2. PICK c \in partitions[q.user] \cup {NoContext} :
                  request' = [request EXCEPT ![r] = [q EXCEPT !.at = "remove", !.context = c, !.born = now]]
            BY <2>7 DEF RecordGroupLogin
        <3>3. c \in Contexts \cup {NoContext} /\ now \in Nat
            BY <3>1, <3>2 DEF OriginOf, WorkTypes, TimeTypes, Users
        <3>4. Held([q EXCEPT !.at = "remove", !.context = c, !.born = now])
            BY <3>1, <3>3 DEF Held, Login, VisitPlaces
        <3> QED
            BY <2>7, <3>2, <3>4, RequestSet DEF RecordGroupLogin
    <2>8. CASE RecordKeyLogin(r)
        <3> DEFINE q == request[r]
        <3>1. q \in Login /\ OriginOf(q, flows) /\ q.at = "record" /\ q.answer = NoId
            BY <2>0, <2>8 DEF RecordKeyLogin, Origins
        <3>2. <<q.user, q.election>> \in KeyStreams /\ q.count \in Nat /\ now \in Nat
            BY <3>1 DEF OriginOf, Login, TimeTypes, KeyStreams
        <3>3. Held([q EXCEPT !.at = "remove", !.born = now])
            BY <3>1, <3>2 DEF Held, Login, VisitPlaces
        <3>c. /\ counts' = [counts EXCEPT ![<<q.user, q.election>>] = IF @ < q.count THEN q.count ELSE @]
              /\ keyLogins' = [keyLogins EXCEPT ![<<q.user, q.election>>] = Append(@, q.count)]
            BY <2>8 DEF RecordKeyLogin
        <3>4. counts' \in [KeyStreams -> Nat] /\ keyLogins' \in [KeyStreams -> Seq(Nat)]
            BY <3>2, <3>c DEF LoginTypes
        <3>5. LoginTypes'
            BY <2>8, <3>4 DEF RecordKeyLogin, LoginTypes
        <3> QED
            BY <2>8, <3>3, <3>5, RequestSet DEF RecordKeyLogin
    <2>9. CASE RemoveOld(r)
        BY <2>9, <2>1, SessionsRemoved DEF RemoveOld
    <2>10. CASE RemoveOthers(r)
        BY <2>10, <2>1, SessionsRemoved DEF RemoveOthers
    <2>11. CASE Insert(r)
        <3> DEFINE q == request[r]
                   t == Len(made) + 1
                   x == [id |-> q.id, by |-> q.by, user |-> q.user, used |-> q.born]
                   s == [user |-> q.user, context |-> q.context, csrf |-> 1,
                         created |-> q.born, active |-> q.born]
        <3>1. q \in Login /\ OriginOf(q, flows) /\ q.at = "insert"
            BY <2>0, <2>11 DEF Insert, Origins
        <3>2. q.user \in Users
            BY <3>1 DEF OriginOf, Users
        <3>3. x \in Made /\ s \in Session
            BY <3>1, <3>2 DEF Login, Made, Session
        <3>4. made' = Append(made, x) /\ sessions' \in {sessions, With(sessions, t, s)}
              /\ browser' = [ClearsFlow(r) EXCEPT ![q.by].token = t]
            BY <2>11 DEF Insert
        <3> HIDE DEF x, s
        <3>5. made' \in Seq(Made) /\ DOMAIN made' = DOMAIN made \cup {t} /\ t \in Nat
            BY <3>3, <3>4 DEF SessionTypes
        <3>6. SessionTypes'
            BY <3>3, <3>4, <3>5 DEF SessionTypes, With
        <3>7. BrowserTypes'
            BY <2>2, <3>1, <3>4, <3>5, ZenonT(40) DEF BrowserTypes
        <3> QED
            BY <2>11, <1>0, <3>6, <3>7 DEF Insert
    <2>12. CASE EstablishFails(r)
        BY <2>12, <2>3 DEF EstablishFails
    <2> QED
        BY <1>6, <2>4, <2>5, <2>6, <2>7, <2>8, <2>9, <2>10, <2>11, <2>12 DEF LoginStep
<1>7. ASSUME NEW r \in Requests, VisitStep(r) PROVE Types'
    <2> DEFINE q == request[r]
    <2>0. (Asking(r) => q \in Ask) /\ (Visiting(r) => q \in Visit) /\ Held(q)
        BY Places DEF RequestTypes
    <2>1. ASSUME NEW at \in VisitPlaces, Visiting(r), request' = [request EXCEPT ![r].at = at]
          PROVE  RequestTypes'
        <3>1. Held([q EXCEPT !.at = at])
            BY <2>0, <2>1 DEF Held, Visit, VisitPlaces, Visiting
        <3> QED
            BY <2>1, <3>1, RequestSet
    <2>2. CASE GetSession(r)
        <3>1. ASSUME NEW phase \in VisitPlaces, NEW s \in Session,
                     request' = [request EXCEPT ![r] = [at |-> phase, by |-> q.by, token |-> q.token,
                         kind |-> q.kind, page |-> q.page, target |-> q.target, session |-> s]]
              PROVE  RequestTypes'
            <4> DEFINE x == [at |-> phase, by |-> q.by, token |-> q.token,
                             kind |-> q.kind, page |-> q.page, target |-> q.target, session |-> s]
            <4>1. q \in Ask /\ q.at = "get"
                BY <2>0, <2>2 DEF GetSession, Asking
            <4>2. Held(x)
                BY <2>0, <4>1 DEF Held, Ask, Visit, VisitPlaces
            <4> HIDE DEF x
            <4> QED
                BY <3>1, <4>2, RequestSet DEF x
        <3>2. ASSUME q.token \in DOMAIN sessions
              PROVE  sessions[q.token] \in Session /\ [sessions[q.token] EXCEPT !.active = now] \in Session
            <4>1. sessions[q.token] \in Session /\ now \in Nat
                BY <3>2 DEF SessionTypes, TimeTypes
            <4> QED
                BY <4>1 DEF Session
        <3>3. RequestTypes'
            <4> USE DEF VisitPlaces
            <4>1. CASE Answer(r)
                BY <1>0, <4>1
            <4>2. CASE ~Answer(r)
                BY <2>2, <3>1, <3>2, <4>2 DEF GetSession, Alive
            <4> QED
                BY <4>1, <4>2
        <3>4. SessionTypes'
            <4>1. CASE UNCHANGED made
                BY <2>2, <4>1 DEF GetSession
            <4>2. CASE made' = [made EXCEPT ![q.token].used = now] /\ q.token \in DOMAIN sessions
                <5>1. q.token \in DOMAIN made /\ made[q.token] \in Made /\ now \in Nat
                    BY <4>2 DEF SessionTypes, TimeTypes
                <5>2. [made[q.token] EXCEPT !.used = now] \in Made
                    BY <5>1 DEF Made
                <5>3. made' \in Seq(Made) /\ DOMAIN made' = DOMAIN made
                    BY <4>2, <5>1, <5>2 DEF SessionTypes
                <5> QED
                    BY <2>2, <5>3 DEF GetSession, SessionTypes
            <4> QED
                BY <2>2, <4>1, <4>2 DEF GetSession, Alive
        <3> QED
            BY <2>2, <3>3, <3>4 DEF GetSession
    <2> USE DEF Visiting, VisitPlaces
    <2>3. CASE Drop(r)
        <3>1. BrowserTypes'
            BY <2>0, <2>3 DEF Drop, BrowserTypes, Visit, NoToken
        <3> QED
            BY <2>3, <3>1, <1>0, SessionsRemoved DEF Drop
    <2>4. CASE Touch(r)
        <3>1. q \in Visit /\ q.session \in Session
            BY <2>0, <2>4 DEF Touch, Visit
        <3>2. SessionTypes'
            <4> DEFINE n == IF sessions[q.token].active < q.session.active
                            THEN q.session.active ELSE sessions[q.token].active
            <4>1. CASE sessions' = sessions
                BY <2>4, <4>1 DEF Touch
            <4>2. CASE q.token \in DOMAIN sessions /\ sessions' = [sessions EXCEPT ![q.token].active = n]
                <5>1. sessions[q.token] \in Session
                    BY <4>2 DEF SessionTypes
                <5>2. [sessions[q.token] EXCEPT !.active = n] \in Session
                    BY <3>1, <5>1 DEF Session
                <5> HIDE DEF n
                <5> QED
                    BY <2>4, <4>2, <5>2 DEF Touch, SessionTypes
            <4> QED
                BY <2>4, <4>1, <4>2 DEF Touch, Touched
        <3> QED
            BY <2>1, <2>4, <3>2 DEF Touch
    <2>5. CASE View(r)
        <3>1. q \in Visit /\ PageOf(q.token, q.session) \in Page /\ q.by \in Browsers
            BY <2>0, <2>5 DEF View, At, Visit, Session, PageOf, Page
        <3>2. BrowserTypes'
            BY <2>5, <3>1 DEF View, BrowserTypes
        <3> QED
            BY <2>5, <3>2, <1>0 DEF View
    <2>6. CASE Save(r)
        <3>1. q \in Visit /\ q.page \in Page /\ q.session.user \in Users /\ q.session.context \in Contexts
            BY <2>0, <2>6 DEF Save, At, Visit, Session, Held, Posts
        <3>2. WorkTypes'
            BY <2>6, <3>1 DEF Save, WorkTypes, StoreContext
        <3> QED
            BY <2>6, <3>2, <1>0 DEF Save
    <2>7. CASE Switch(r)
        <3>1. q \in Visit /\ q.target \in Contexts \cup {NoContext}
            BY <2>0, <2>7 DEF Switch, At, Visit
        <3>2. SessionTypes'
            <4>1. sessions' = [sessions EXCEPT ![q.token].context = q.target, ![q.token].csrf = @ + 1]
                  /\ q.token \in DOMAIN sessions /\ UNCHANGED made
                BY <2>7 DEF Switch, SetContext
            <4>2. sessions[q.token] \in Session /\ sessions[q.token].csrf + 1 \in Nat \ {0}
                BY <4>1 DEF SessionTypes, Session
            <4>3. [sessions[q.token] EXCEPT !.context = q.target, !.csrf = @ + 1] \in Session
                BY <3>1, <4>2 DEF Session
            <4> QED
                BY <4>1, <4>3 DEF SessionTypes
        <3> QED
            BY <2>7, <3>2, <1>0 DEF Switch
    <2>8. CASE Logout(r)
        <3>1. RequestTypes'
            BY <2>1, <2>8 DEF Logout, At
        <3> QED
            BY <2>8, <3>1, SessionsRemoved DEF Logout
    <2>9. CASE AnswerLogout(r)
        <3>1. q \in Visit /\ q.by \in Browsers
            BY <2>0, <2>9 DEF AnswerLogout, Visit
        <3>2. BrowserTypes'
            BY <2>9, <3>1 DEF AnswerLogout, BrowserTypes, NoToken
        <3>3. LoginTypes'
            <4>1. CASE UNCHANGED <<pending, flows>>
                BY <2>9, <4>1 DEF AnswerLogout
            <4>2. CASE ~UNCHANGED <<pending, flows>>
                <5>1. PICK f \in Flow : flows' = Append(flows, f) /\ Register(Len(flows'))
                    BY <2>9, <4>2, <3>1 DEF AnswerLogout, Flow
                <5> QED
                    BY <2>9, <5>1, Registered DEF AnswerLogout
            <4> QED
                BY <4>1, <4>2
        <3> QED
            BY <2>9, <3>2, <3>3, <1>0 DEF AnswerLogout
    <2> QED
        BY <1>7, <2>2, <2>3, <2>4, <2>5, <2>6, <2>7, <2>8, <2>9 DEF VisitStep
<1>8. ASSUME NEW r \in Requests, Fail(r) PROVE Types'
    BY <1>8, <1>0 DEF Fail
<1>9. ASSUME NEW id \in DOMAIN flows, HandleSls(id) PROVE Types'
    BY <1>9, RequestKept DEF HandleSls, Take, Without, LoginTypes
<1>10. CASE Sweep
    BY <1>10, RequestKept, SessionsRemoved DEF Sweep
<1>11. CASE Tick
    BY <1>11, RequestKept DEF Tick, LoginTypes, TimeTypes
<1>12. CASE UNCHANGED vars
    BY <1>12, RequestKept DEF vars
<1> QED
    BY <1>1, <1>2, <1>3, <1>4, <1>5, <1>6, <1>7, <1>8, <1>9, <1>10, <1>11, <1>12, SMTT(40) DEF Next

-----------------------------------------------------------------------------
(* A login keeps where it came from.                                        *)

FlowsGrow ==
    /\ DOMAIN flows \subseteq DOMAIN flows'
    /\ \A i \in DOMAIN flows : /\ flows'[i].by = flows[i].by /\ flows'[i].of = flows[i].of
                               /\ flows[i].answer # NoUser => flows'[i].answer = flows[i].answer

CookiesKept ==
    \A b \in Browsers : /\ \/ browser'[b].flow \in {NoId, browser[b].flow}
                           \/ CookieOf(b, browser'[b].flow, "saml", flows')
                        /\ \/ browser'[b].challenge \in {NoId, browser[b].challenge}
                           \/ CookieOf(b, browser'[b].challenge, "key", flows')

LoginsKept ==
    \A r \in Requests : LoggingIn(r)' =>
        (LoggingIn(r) /\ request'[r] = request[r]) \/ OriginOf(request'[r], flows')

MadeKept ==
    \A t \in DOMAIN made' :
        \/ /\ t \in DOMAIN made /\ made'[t].id = made[t].id
           /\ made'[t].by = made[t].by /\ made'[t].user = made[t].user
        \/ MadeFrom(made'[t], flows')

LEMMA OriginLater ==
    ASSUME FlowsGrow, NEW q, OriginOf(q, flows)
    PROVE  OriginOf(q, flows')
BY ConstantsAssumption DEF FlowsGrow, OriginOf, Users

LEMMA OriginsKept ==
    ASSUME Origins, FlowsGrow, CookiesKept, LoginsKept, MadeKept
    PROVE  Origins'
<1>1. ASSUME NEW b \in Browsers
      PROVE  /\ CookieOf(b, browser'[b].flow, "saml", flows')
             /\ CookieOf(b, browser'[b].challenge, "key", flows')
    BY DEF Origins, FlowsGrow, CookiesKept, CookieOf
<1>2. ASSUME NEW r \in Requests, LoggingIn(r)' PROVE OriginOf(request'[r], flows')
    BY <1>2, OriginLater DEF Origins, LoginsKept
<1>3. ASSUME NEW t \in DOMAIN made' PROVE MadeFrom(made'[t], flows')
    BY DEF Origins, FlowsGrow, MadeKept, MadeFrom
<1> QED
    BY <1>1, <1>2, <1>3 DEF Origins

LEMMA KeptOrigins ==
    /\ UNCHANGED flows => FlowsGrow
    /\ UNCHANGED browser => CookiesKept
    /\ UNCHANGED request => LoginsKept
    /\ UNCHANGED made => MadeKept
BY DEF FlowsGrow, CookiesKept, LoginsKept, MadeKept, LoggingIn

(* A request that is not logging in any more, or is further on.             *)
LEMMA RequestReplaced ==
    ASSUME Types, NEW r \in Requests, NEW x, request' = [request EXCEPT ![r] = x],
           x.at \in TakenPlaces \cup {"consume"} => OriginOf(x, flows')
    PROVE  LoginsKept
<1>1. request'[r] = x /\ \A y \in Requests \ {r} : request'[y] = request[y]
    BY DEF Types, RequestTypes
<1> QED
    BY <1>1 DEF LoginsKept, LoggingIn, OriginOf

LEMMA FlowAppended ==
    ASSUME Types, NEW f, flows' = Append(flows, f)
    PROVE  /\ FlowsGrow /\ Len(flows') = Len(flows) + 1 /\ Len(flows') \in DOMAIN flows'
           /\ flows'[Len(flows')] = f
<1>1. flows \in Seq(Flow)
    BY DEF Types, LoginTypes
<1>2. /\ Len(flows) \in Nat /\ DOMAIN flows = 1 .. Len(flows)
      /\ Len(flows') = Len(flows) + 1 /\ DOMAIN flows' = 1 .. Len(flows) + 1
      /\ flows'[Len(flows) + 1] = f
      /\ \A i \in 1 .. Len(flows) : flows'[i] = flows[i]
    BY <1>1
<1> QED
    BY <1>2 DEF FlowsGrow

(* Reading a session only moves when it was last used.                      *)
LEMMA MadeRead ==
    ASSUME Types, NEW r \in Requests, GetSession(r)
    PROVE  /\ DOMAIN made' = DOMAIN made
           /\ \A t \in DOMAIN made :
                /\ made'[t].id = made[t].id /\ made'[t].by = made[t].by
                /\ made'[t].user = made[t].user /\ made'[t].used \in {made[t].used, now}
<1> DEFINE k == request[r].token
<1>1. CASE UNCHANGED made
    BY <1>1
<1>2. CASE made' = [made EXCEPT ![k].used = now] /\ k \in DOMAIN made
    <2> DEFINE x == [made[k] EXCEPT !.used = now]
    <2>1. made[k] \in Made
        BY <1>2 DEF Types, SessionTypes
    <2>2. x.id = made[k].id /\ x.by = made[k].by /\ x.user = made[k].user /\ x.used = now
        BY <2>1 DEF Made
    <2>3. made' = [made EXCEPT ![k] = x] /\ k \in DOMAIN made
        BY <1>2
    <2> HIDE DEF x
    <2> QED
        BY <2>2, <2>3
<1>3. UNCHANGED made \/ (made' = [made EXCEPT ![k].used = now] /\ k \in DOMAIN made)
    BY DEF GetSession, Alive, Types, SessionTypes
<1> QED
    BY <1>1, <1>2, <1>3

LEMMA StepOrigins == Types /\ Origins /\ [Next]_vars => Origins'
<1> SUFFICES ASSUME Types, Origins, [Next]_vars PROVE Origins'
    OBVIOUS
<1> USE KeptOrigins, OriginsKept DEF loginVars, workVars
<1>0. ASSUME NEW r \in Requests, Answer(r) PROVE LoginsKept
    BY <1>0, RequestReplaced DEF Answer, Ready, TakenPlaces
<1>1. ASSUME NEW b \in Browsers, StartLogin(b) PROVE Origins'
    <2> DEFINE f == [by |-> b, of |-> "saml", answer |-> NoUser, resolved |-> FALSE]
    <2>1. flows' = Append(flows, f) /\ browser' = [browser EXCEPT ![b].flow = Len(flows')]
        BY <1>1 DEF StartLogin
    <2>2. CookiesKept
        BY <2>1, FlowAppended DEF CookiesKept, CookieOf, Types, BrowserTypes
    <2> QED
        BY <1>1, <2>1, <2>2, FlowAppended DEF StartLogin
<1>2. ASSUME NEW b \in Browsers, OpenLoginPage(b) PROVE Origins'
    <2> DEFINE f == [by |-> b, of |-> "key", answer |-> NoUser, resolved |-> FALSE]
    <2>1. flows' = Append(flows, f) /\ browser' = [browser EXCEPT ![b].challenge = Len(flows')]
        BY <1>2 DEF OpenLoginPage
    <2>2. CookiesKept
        BY <2>1, FlowAppended DEF CookiesKept, CookieOf, Types, BrowserTypes
    <2> QED
        BY <1>2, <2>1, <2>2, FlowAppended DEF OpenLoginPage
<1>3. ASSUME NEW id \in DOMAIN flows, Identify(id) PROVE Origins'
    <2>1. FlowsGrow
        BY <1>3 DEF Identify, FlowsGrow
    <2> QED
        BY <1>3, <2>1 DEF Identify
<1>4. ASSUME NEW r \in Requests, NEW b \in Browsers, NEW a \in DOMAIN flows, Callback(r, b, a)
      PROVE  Origins'
    <2> DEFINE x == [at |-> "consume", by |-> b, token |-> browser[b].token,
                     id |-> browser[b].flow, answer |-> a, user |-> NoUser,
                     context |-> NoContext, election |-> NoContext, count |-> 0, seen |-> 0, born |-> 0]
    <2>1. request' = [request EXCEPT ![r] = x] /\ UNCHANGED flows /\ a # NoId
        BY <1>4, DomainsOfSeqs DEF Callback, NoId
    <2>2. OriginOf(x, flows')
        BY <1>4, <2>1 DEF Callback, OriginOf, Origins, CookieOf
    <2> HIDE DEF x
    <2>3. LoginsKept
        BY <2>1, <2>2, RequestReplaced
    <2> QED
        BY <1>4, <2>3 DEF Callback
<1>5. ASSUME NEW r \in Requests, NEW b \in Browsers, NEW m \in Members, NEW e \in Elections,
             NEW n \in Nat, FinishCeremony(r, b, m, e, n)
      PROVE  Origins'
    <2> DEFINE x == [at |-> "consume", by |-> b, token |-> browser[b].token,
                     id |-> browser[b].challenge, answer |-> NoId, user |-> m,
                     context |-> NoContext, election |-> e, count |-> n,
                     seen |-> counts[<<m, e>>], born |-> 0]
    <2>1. request' = [request EXCEPT ![r] = x] /\ UNCHANGED flows
        BY <1>5 DEF FinishCeremony
    <2>2. OriginOf(x, flows')
        BY <1>5, <2>1 DEF FinishCeremony, OriginOf, Origins, CookieOf
    <2> HIDE DEF x
    <2>3. LoginsKept
        BY <2>1, <2>2, RequestReplaced
    <2> QED
        BY <1>5, <2>3 DEF FinishCeremony
<1>6. ASSUME NEW r \in Requests, NEW b \in Browsers, NEW kind, NEW page, NEW c,
             Send(r, b, kind, page, c)
      PROVE  Origins'
    BY <1>6, RequestReplaced DEF Send, TakenPlaces
<1>7. ASSUME NEW r \in Requests, LoginStep(r) PROVE Origins'
    <2> DEFINE q == request[r]
    <2>0. ASSUME LoggingIn(r) PROVE q \in Login /\ OriginOf(q, flows)
        BY <2>0, Places DEF Origins
    <2>1. ASSUME LoggingIn(r), Refuse(r) PROVE CookiesKept /\ LoginsKept
        <3>1. CookiesKept
            BY <2>0, <2>1 DEF Refuse, ClearsFlow, CookiesKept, Types, BrowserTypes
        <3> QED
            BY <1>0, <2>1, <3>1 DEF Refuse
    <2>2. ASSUME NEW at \in TakenPlaces, LoggingIn(r), request' = [request EXCEPT ![r].at = at],
                 OriginOf([q EXCEPT !.at = at], flows')
          PROVE  LoginsKept
        BY <2>2, RequestReplaced
    <2> USE DEF LoggingIn, TakenPlaces
    <2>3. CASE Consume(r)
        <3>1. CASE Refuse(r)
            BY <2>1, <2>3, <3>1 DEF Consume
        <3>2. CASE ~Refuse(r)
            <4> DEFINE at == IF q.answer = NoId THEN "record" ELSE "resolve"
            <4>1. q.at = "consume" /\ UNCHANGED <<browser, flows, made>>
                  /\ request' = [request EXCEPT ![r].at = at]
                BY <2>3, <3>2 DEF Consume
            <4>2. OriginOf([q EXCEPT !.at = at], flows')
                BY <2>0, <4>1 DEF OriginOf, Login
            <4> QED
                BY <2>2, <4>1, <4>2
        <3> QED
            BY <3>1, <3>2
    <2>4. CASE Resolve(r)
        <3>1. q \in Login /\ OriginOf(q, flows) /\ q.at = "resolve" /\ q.answer \in DOMAIN flows
            BY <2>0, <2>4 DEF Resolve, OriginOf
        <3>2. FlowsGrow /\ UNCHANGED made /\ flows'[q.answer].answer = flows[q.answer].answer
            <4> DEFINE f == [flows[q.answer] EXCEPT !.resolved = TRUE]
            <4>1. flows[q.answer] \in Flow
                BY <3>1 DEF Types, LoginTypes
            <4>2. f.by = flows[q.answer].by /\ f.of = flows[q.answer].of
                  /\ f.answer = flows[q.answer].answer
                BY <4>1 DEF Flow
            <4>3. flows' = [flows EXCEPT ![q.answer] = f] /\ UNCHANGED made
                BY <2>4 DEF Resolve
            <4> HIDE DEF f
            <4> QED
                BY <3>1, <4>2, <4>3 DEF FlowsGrow
        <3>3. CASE Refuse(r)
            BY <2>1, <3>1, <3>2, <3>3
        <3>4. CASE ~Refuse(r)
            <4>1. AnswersBound(q) /\ UNCHANGED browser
                BY <2>4, <3>4 DEF Resolve
            <4>2. CASE request' = [request EXCEPT ![r].at = "end"]
                <5>1. OriginOf([q EXCEPT !.at = "end"], flows')
                    BY <3>1, <3>2 DEF OriginOf, Login, FlowsGrow
                <5> QED
                    BY <2>2, <3>1, <3>2, <4>1, <4>2, <5>1
            <4>3. CASE /\ request' = [request EXCEPT ![r] =
                              [q EXCEPT !.at = "record", !.user = flows[q.answer].answer]]
                       /\ flows[q.answer].answer # "failed"
                <5>1. flows[q.answer] \in Flow
                    BY <3>1 DEF Types, LoginTypes
                <5>2. flows[q.answer].answer \in Groups
                    BY <3>1, <4>3, <5>1 DEF Flow, OriginOf
                <5>3. OriginOf([q EXCEPT !.at = "record", !.user = flows[q.answer].answer], flows')
                    BY <3>1, <3>2, <4>1, <5>2 DEF OriginOf, Login, FlowsGrow, AnswersBound
                <5> QED
                    BY <3>2, <4>1, <4>3, <5>3, RequestReplaced
            <4> QED
                BY <2>4, <3>4, <4>2, <4>3 DEF Resolve
        <3> QED
            BY <3>3, <3>4
    <2>5. CASE EndSession(r)
        <3>1. CookiesKept
            BY <2>0, <2>5 DEF EndSession, ClearsFlow, CookiesKept, Types, BrowserTypes
        <3> QED
            BY <2>5, <3>1, <1>0, SMTT(40) DEF EndSession
    <2>6. CASE RecordGroupLogin(r)
        <3>1. PICK c : request' = [request EXCEPT ![r] =
                                     [q EXCEPT !.at = "remove", !.context = c, !.born = now]]
            BY <2>6 DEF RecordGroupLogin
        <3>2. OriginOf([q EXCEPT !.at = "remove", !.context = c, !.born = now], flows')
            BY <2>0, <2>6 DEF RecordGroupLogin, OriginOf, Login
        <3> QED
            BY <2>6, <3>1, <3>2, RequestReplaced DEF RecordGroupLogin
    <2>7. CASE RecordKeyLogin(r)
        <3>1. OriginOf([q EXCEPT !.at = "remove", !.born = now], flows')
            BY <2>0, <2>7 DEF RecordKeyLogin, OriginOf, Login
        <3> QED
            BY <2>7, <3>1, RequestReplaced DEF RecordKeyLogin
    <2>8. CASE RemoveOld(r)
        <3>1. OriginOf([q EXCEPT !.at = "others"], flows')
            BY <2>0, <2>8 DEF RemoveOld, OriginOf, Login
        <3> QED
            BY <2>8, <2>2, <3>1 DEF RemoveOld
    <2>9. CASE RemoveOthers(r)
        <3>1. OriginOf([q EXCEPT !.at = "insert"], flows')
            BY <2>0, <2>9 DEF RemoveOthers, OriginOf, Login
        <3> QED
            BY <2>9, <2>2, <3>1 DEF RemoveOthers
    <2>10. CASE Insert(r)
        <3> DEFINE x == [id |-> q.id, by |-> q.by, user |-> q.user, used |-> q.born]
        <3>1. q \in Login /\ OriginOf(q, flows) /\ q.at = "insert" /\ made' = Append(made, x)
            BY <2>0, <2>10 DEF Insert
        <3>2. UNCHANGED flows /\ MadeFrom(x, flows')
            BY <2>10, <3>1, ConstantsAssumption DEF Insert, MadeFrom, OriginOf, Users
        <3> HIDE DEF x
        <3>3. MadeKept
            BY <3>1, <3>2, SMTT(40) DEF MadeKept, Types, SessionTypes, MadeFrom
        <3>4. CookiesKept
            BY <2>10, <3>1 DEF Insert, ClearsFlow, CookiesKept, Types, BrowserTypes
        <3> QED
            BY <2>10, <3>3, <3>4, <1>0 DEF Insert
    <2>11. CASE EstablishFails(r)
        BY <2>11, <2>1 DEF EstablishFails
    <2> QED
        BY <1>7, <2>3, <2>4, <2>5, <2>6, <2>7, <2>8, <2>9, <2>10, <2>11 DEF LoginStep
<1>8. ASSUME NEW r \in Requests, VisitStep(r) PROVE Origins'
    <2> DEFINE q == request[r]
    <2>0. Visiting(r) => q \in Visit
        BY Places
    <2> USE DEF Visiting, VisitPlaces, TakenPlaces
    <2>1. ASSUME NEW at \in VisitPlaces, Visiting(r), request' = [request EXCEPT ![r].at = at]
          PROVE  LoginsKept
        BY <2>0, <2>1, RequestReplaced DEF Visit
    <2>2. CASE GetSession(r)
        <3>1. LoginsKept
            BY <2>2, <1>0, RequestReplaced DEF GetSession
        <3>2. MadeKept
            BY <2>2, MadeRead DEF MadeKept
        <3> QED
            BY <2>2, <3>1, <3>2 DEF GetSession
    <2>3. CASE Drop(r)
        <3>1. CookiesKept
            BY <2>0, <2>3 DEF Drop, CookiesKept, Types, BrowserTypes
        <3> QED
            BY <2>3, <3>1, <1>0 DEF Drop
    <2>4. CASE Touch(r)
        BY <2>1, <2>4 DEF Touch
    <2>5. CASE View(r)
        <3>1. CookiesKept
            BY <2>0, <2>5 DEF View, At, CookiesKept, Types, BrowserTypes
        <3> QED
            BY <2>5, <3>1, <1>0 DEF View
    <2>6. CASE Save(r) \/ Switch(r)
        BY <2>6, <1>0 DEF Save, Switch
    <2>7. CASE Logout(r)
        <3>1. LoginsKept
            BY <2>1, <2>7 DEF Logout, At
        <3> QED
            BY <2>7, <3>1 DEF Logout
    <2>8. CASE AnswerLogout(r)
        <3>1. CookiesKept
            BY <2>0, <2>8 DEF AnswerLogout, CookiesKept, Types, BrowserTypes
        <3>2. FlowsGrow
            BY <2>8, FlowAppended DEF AnswerLogout
        <3> QED
            BY <2>8, <3>1, <3>2, <1>0 DEF AnswerLogout
    <2> QED
        BY <1>8, <2>2, <2>3, <2>4, <2>5, <2>6, <2>7, <2>8 DEF VisitStep
<1>9. ASSUME NEW r \in Requests, Fail(r) PROVE Origins'
    BY <1>9, <1>0 DEF Fail
<1>10. ASSUME NEW id \in DOMAIN flows, HandleSls(id) PROVE Origins'
    BY <1>10 DEF HandleSls
<1>11. CASE Sweep \/ Tick \/ UNCHANGED vars
    BY <1>11 DEF Sweep, Tick, vars
<1> QED
    BY <1>1, <1>2, <1>3, <1>4, <1>5, <1>6, <1>7, <1>8, <1>9, <1>10, <1>11, ConstantsAssumption DEF Next

LEMMA InitOrigins == Init => Origins
<1> SUFFICES ASSUME Init PROVE Origins
    OBVIOUS
<1>1. \A b \in Browsers : browser[b].flow = NoId /\ browser[b].challenge = NoId
    BY DEF Init
<1>2. \A r \in Requests : ~LoggingIn(r)
    BY DEF Init, LoggingIn, TakenPlaces, Ready
<1>3. \A t \in DOMAIN made : made[t].id = NoId
    BY DEF Init
<1> QED
    BY <1>1, <1>2, <1>3 DEF Origins, CookieOf, MadeFrom

-----------------------------------------------------------------------------
(* An id that was taken is nobody else's: not outstanding any more, not     *)
(* held by a second request, and not the id of a session.                   *)

Once ==
    /\ \A r \in Requests : Taken(r) => request[r].id \notin DOMAIN pending
    /\ \A r, s \in Requests : Taken(r) /\ Taken(s) /\ request[r].id = request[s].id => r = s
    /\ \A t \in DOMAIN made : made[t].id \notin DOMAIN pending
    /\ \A t \in DOMAIN made : \A r \in Requests : Taken(r) => made[t].id # request[r].id
    /\ \A t, u \in DOMAIN made : made[t].id = made[u].id /\ made[t].id # NoId => t = u

NoneReturns == \A i \in DOMAIN pending' : i \in DOMAIN pending \/ i \notin DOMAIN flows \cup {NoId}

TakenKept == \A r \in Requests : Taken(r)' => Taken(r) /\ request'[r].id = request[r].id

IdsKept == DOMAIN made' = DOMAIN made /\ \A t \in DOMAIN made : made'[t].id = made[t].id

LEMMA OnceKept ==
    ASSUME Types, Origins, Once, NoneReturns, TakenKept, IdsKept
    PROVE  Once'
<1>1. \A r \in Requests : Taken(r) => request[r].id \in DOMAIN flows
    BY DEF Origins, OriginOf, Taken, LoggingIn
<1>2. \A t \in DOMAIN made : made[t].id \in DOMAIN flows \cup {NoId}
    BY DEF Origins, MadeFrom
<1> QED
    BY <1>1, <1>2 DEF Once, NoneReturns, TakenKept, IdsKept

LEMMA KeptOnce ==
    /\ UNCHANGED pending => NoneReturns
    /\ UNCHANGED request => TakenKept
    /\ UNCHANGED made => IdsKept
BY DEF NoneReturns, TakenKept, IdsKept, Taken

(* A request that has no id, or keeps the one it took.                      *)
LEMMA TakenReplaced ==
    ASSUME Types, NEW r \in Requests, NEW x, request' = [request EXCEPT ![r] = x],
           x.at \in TakenPlaces => Taken(r) /\ x.id = request[r].id
    PROVE  TakenKept
<1>1. request'[r] = x /\ \A y \in Requests \ {r} : request'[y] = request[y]
    BY DEF Types, RequestTypes
<1> QED
    BY <1>1 DEF TakenKept, Taken

LEMMA RegisteredOnce ==
    ASSUME Types, NEW f \in Flow, flows' = Append(flows, f), Register(Len(flows'))
    PROVE  NoneReturns
<1>1. /\ Len(flows) \in Nat /\ DOMAIN flows = 1 .. Len(flows) /\ Len(flows') = Len(flows) + 1
    BY DEF Types, LoginTypes
<1>2. DOMAIN pending' \subseteq DOMAIN pending \cup {Len(flows')}
    BY DEF Register, Without, With
<1> QED
    BY <1>1, <1>2 DEF NoneReturns, NoId

LEMMA TakenOnce ==
    ASSUME NEW id, Take(id)
    PROVE  DOMAIN pending' = DOMAIN pending \ {id} /\ NoneReturns
BY DEF Take, Without, NoneReturns

LEMMA StepOnce == Types /\ Origins /\ Once /\ [Next]_vars => Once'
<1> SUFFICES ASSUME Types, Origins, Once, [Next]_vars PROVE Once'
    OBVIOUS
<1> USE KeptOnce, OnceKept DEF loginVars, workVars
<1>0. ASSUME NEW r \in Requests, Answer(r) PROVE TakenKept
    BY <1>0, TakenReplaced DEF Answer, Ready, TakenPlaces
<1>1. ASSUME NEW b \in Browsers, StartLogin(b) \/ OpenLoginPage(b) PROVE Once'
    <2>1. PICK f \in Flow : flows' = Append(flows, f)
        BY <1>1 DEF StartLogin, OpenLoginPage, Flow
    <2> QED
        BY <1>1, <2>1, RegisteredOnce DEF StartLogin, OpenLoginPage
<1>2. ASSUME NEW id, Identify(id) PROVE Once'
    BY <1>2 DEF Identify
<1>3. ASSUME NEW r \in Requests, NEW b, NEW a, Callback(r, b, a) PROVE Once'
    BY <1>3, TakenReplaced DEF Callback, TakenPlaces
<1>4. ASSUME NEW r \in Requests, NEW b, NEW m, NEW e, NEW n, FinishCeremony(r, b, m, e, n) PROVE Once'
    BY <1>4, TakenReplaced DEF FinishCeremony, TakenPlaces
<1>5. ASSUME NEW r \in Requests, NEW b, NEW kind, NEW page, NEW c, Send(r, b, kind, page, c)
      PROVE  Once'
    BY <1>5, TakenReplaced DEF Send, TakenPlaces
<1>6. ASSUME NEW r \in Requests, LoginStep(r) PROVE Once'
    <2> DEFINE q == request[r]
    <2>0. LoggingIn(r) => q \in Login /\ OriginOf(q, flows)
        BY Places DEF Origins
    <2>1. ASSUME Taken(r), NEW at, request' = [request EXCEPT ![r].at = at] PROVE TakenKept
        <3>1. [q EXCEPT !.at = at].id = q.id
            BY <2>0, <2>1 DEF Login, Taken, LoggingIn
        <3> QED
            BY <2>1, <3>1, TakenReplaced
    <2> USE DEF LoggingIn, TakenPlaces
    <2>2. CASE Consume(r)
        <3>1. CASE Refuse(r) /\ UNCHANGED pending
            BY <2>2, <3>1, <1>0 DEF Consume, Refuse
        <3>2. CASE ~(Refuse(r) /\ UNCHANGED pending)
            <4> DEFINE at == IF q.answer = NoId THEN "record" ELSE "resolve"
            <4>1. q.at = "consume" /\ UNCHANGED <<made>> /\ Pending(q.id) /\ Take(q.id)
                  /\ request' = [request EXCEPT ![r] = [q EXCEPT !.at = at]]
                BY <2>2, <3>2 DEF Consume
            <4>2. q.id \in DOMAIN pending /\ DOMAIN pending' = DOMAIN pending \ {q.id}
                BY <4>1, TakenOnce DEF Pending
            <4>3. /\ request'[r].id = q.id
                  /\ \A y \in Requests \ {r} : request'[y] = request[y]
                BY <2>0, <4>1 DEF Types, RequestTypes, Login
            <4>4. \A y \in Requests : Taken(y)' => y = r \/ (Taken(y) /\ request'[y] = request[y])
                BY <4>3 DEF Taken
            <4> QED
                BY <4>1, <4>2, <4>3, <4>4 DEF Once
        <3> QED
            BY <3>1, <3>2
    <2> USE DEF Taken
    <2>3. CASE Resolve(r)
        <3>1. CASE Refuse(r)
            BY <2>3, <3>1, <1>0 DEF Resolve, Refuse
        <3>2. CASE request' = [request EXCEPT ![r].at = "end"]
            BY <2>1, <2>3, <3>2 DEF Resolve
        <3>3. CASE request' = [request EXCEPT ![r] =
                     [q EXCEPT !.at = "record", !.user = flows[q.answer].answer]]
            <4>1. [q EXCEPT !.at = "record", !.user = flows[q.answer].answer].id = q.id
                BY <2>0, <2>3 DEF Login, Resolve
            <4> QED
                BY <2>3, <3>3, <4>1, TakenReplaced DEF Resolve
        <3> QED
            BY <2>3, <3>1, <3>2, <3>3 DEF Resolve
    <2>4. CASE EndSession(r)
        BY <2>4, <1>0 DEF EndSession
    <2>5. CASE RecordGroupLogin(r)
        <3>1. PICK c : request' = [request EXCEPT ![r] =
                                     [q EXCEPT !.at = "remove", !.context = c, !.born = now]]
            BY <2>5 DEF RecordGroupLogin
        <3>2. [q EXCEPT !.at = "remove", !.context = c, !.born = now].id = q.id
            BY <2>0, <2>5 DEF Login, RecordGroupLogin
        <3> QED
            BY <2>5, <3>1, <3>2, TakenReplaced DEF RecordGroupLogin
    <2>6. CASE RecordKeyLogin(r)
        <3>1. [q EXCEPT !.at = "remove", !.born = now].id = q.id
            BY <2>0, <2>6 DEF Login, RecordKeyLogin
        <3> QED
            BY <2>6, <3>1, TakenReplaced DEF RecordKeyLogin
    <2>7. CASE RemoveOld(r) \/ RemoveOthers(r)
        BY <2>1, <2>7 DEF RemoveOld, RemoveOthers
    <2>8. CASE Insert(r)
        <3> DEFINE x == [id |-> q.id, by |-> q.by, user |-> q.user, used |-> q.born]
                   n == Len(made) + 1
        <3>1. q.at = "insert" /\ made' = Append(made, x) /\ UNCHANGED pending /\ Answer(r)
              /\ x.id = q.id
            BY <2>8 DEF Insert
        <3> HIDE DEF x
        <3>2. /\ DOMAIN made' = DOMAIN made \cup {n} /\ made'[n].id = q.id
              /\ n \notin DOMAIN made /\ \A t \in DOMAIN made : made'[t] = made[t]
            BY <3>1 DEF Types, SessionTypes
        <3>3. \A y \in Requests : Taken(y)' => y # r /\ Taken(y) /\ request'[y] = request[y]
            BY <3>1 DEF Answer, Types, RequestTypes, Ready
        <3> QED
            BY <3>1, <3>2, <3>3 DEF Once
    <2>9. CASE EstablishFails(r)
        BY <2>9, <1>0 DEF EstablishFails, Refuse
    <2> QED
        BY <1>6, <2>2, <2>3, <2>4, <2>5, <2>6, <2>7, <2>8, <2>9 DEF LoginStep
<1>7. ASSUME NEW r \in Requests, VisitStep(r) PROVE Once'
    <2> DEFINE q == request[r]
    <2>0. Visiting(r) => q \in Visit
        BY Places
    <2> USE DEF Visiting, VisitPlaces, TakenPlaces
    <2>1. ASSUME NEW at \in VisitPlaces, Visiting(r), request' = [request EXCEPT ![r].at = at]
          PROVE  TakenKept
        BY <2>0, <2>1, TakenReplaced DEF Visit
    <2>2. CASE GetSession(r)
        <3>1. TakenKept
            BY <2>2, <1>0, TakenReplaced DEF GetSession
        <3>2. IdsKept
            BY <2>2, MadeRead DEF IdsKept
        <3> QED
            BY <2>2, <3>1, <3>2 DEF GetSession
    <2>3. CASE Drop(r) \/ View(r) \/ Save(r) \/ Switch(r)
        BY <2>3, <1>0 DEF Drop, View, Save, Switch
    <2>4. CASE Touch(r)
        BY <2>4, <2>1 DEF Touch
    <2>5. CASE Logout(r)
        <3>1. TakenKept
            BY <2>1, <2>5 DEF Logout, At
        <3> QED
            BY <2>5, <3>1 DEF Logout
    <2>6. CASE AnswerLogout(r)
        <3>1. NoneReturns
            <4>1. CASE UNCHANGED pending
                BY <4>1
            <4>2. CASE ~UNCHANGED pending
                <5>1. q.by \in Browsers
                    BY <2>0, <2>6 DEF AnswerLogout, Visit
                <5>2. PICK f \in Flow : flows' = Append(flows, f) /\ Register(Len(flows'))
                    BY <2>6, <4>2, <5>1 DEF AnswerLogout, Flow
                <5> QED
                    BY <5>2, RegisteredOnce
            <4> QED
                BY <4>1, <4>2
        <3> QED
            BY <2>6, <3>1, <1>0 DEF AnswerLogout
    <2> QED
        BY <1>7, <2>2, <2>3, <2>4, <2>5, <2>6 DEF VisitStep
<1>8. ASSUME NEW r \in Requests, Fail(r) PROVE Once'
    BY <1>8, <1>0 DEF Fail
<1>9. ASSUME NEW id, HandleSls(id) PROVE Once'
    BY <1>9, TakenOnce DEF HandleSls
<1>10. CASE Sweep \/ Tick \/ UNCHANGED vars
    BY <1>10 DEF Sweep, Tick, vars
<1> QED
    BY <1>1, <1>2, <1>3, <1>4, <1>5, <1>6, <1>7, <1>8, <1>9, <1>10 DEF Next

LEMMA InitOnce == Init => Once
<1> SUFFICES ASSUME Init PROVE Once
    OBVIOUS
<1>1. \A r \in Requests : ~Taken(r)
    BY DEF Init, Taken, TakenPlaces, Ready
<1>2. \A t \in DOMAIN made : made[t].id = NoId
    BY DEF Init
<1>3. DOMAIN pending = {}
    BY DEF Init
<1> QED
    BY <1>1, <1>2, <1>3 DEF Once

-----------------------------------------------------------------------------
(* The counter an election's main stream holds for a key is the one of the  *)
(* key's last login there.                                                  *)

KeysInOrder ==
    \A k \in KeyStreams :
        /\ keyLogins[k] # << >> => counts[k] = keyLogins[k][Len(keyLogins[k])]
        /\ \A i \in 1 .. Len(keyLogins[k]) - 1 : Advanced(keyLogins[k][i], keyLogins[k][i + 1])

LEMMA KeyLoginAppended ==
    ASSUME NEW s \in Seq(Nat), NEW n \in Nat, NEW stored \in Nat,
           s # << >> => stored = s[Len(s)],
           \A i \in 1 .. Len(s) - 1 : Advanced(s[i], s[i + 1]), Advanced(stored, n)
    PROVE  /\ Append(s, n)[Len(Append(s, n))] = n /\ Append(s, n) # << >>
           /\ \A i \in 1 .. Len(Append(s, n)) - 1 : Advanced(Append(s, n)[i], Append(s, n)[i + 1])
<1> DEFINE z == Append(s, n)
<1>1. /\ Len(s) \in Nat /\ Len(z) = Len(s) + 1 /\ z[Len(s) + 1] = n
      /\ \A i \in 1 .. Len(s) : z[i] = s[i]
    OBVIOUS
<1>2. s # << >> <=> Len(s) # 0
    OBVIOUS
<1>3. z # << >>
    <2>1. Len(z) # 0
        BY <1>1
    <2> HIDE DEF z
    <2> QED
        BY <2>1
<1> HIDE DEF z
<1>4. ASSUME NEW i \in 1 .. Len(z) - 1 PROVE Advanced(z[i], z[i + 1])
    <2>1. CASE i = Len(s)
        BY <1>1, <1>2, <2>1
    <2>2. CASE i # Len(s)
        <3>1. i \in 1 .. Len(s) - 1 /\ z[i] = s[i] /\ z[i + 1] = s[i + 1]
            BY <1>1, <2>2
        <3> QED
            BY <3>1
    <2> QED
        BY <2>1, <2>2
<1> QED
    BY <1>1, <1>3, <1>4 DEF z

LEMMA StepKeys == Types /\ Origins /\ KeysInOrder /\ [Next]_vars => KeysInOrder'
<1> SUFFICES ASSUME Types, Origins, KeysInOrder, [Next]_vars PROVE KeysInOrder'
    OBVIOUS
<1>1. CASE UNCHANGED <<counts, keyLogins>>
    BY <1>1 DEF KeysInOrder
<1>2. ASSUME NEW r \in Requests, RecordKeyLogin(r) PROVE KeysInOrder'
    <2> DEFINE q == request[r]
               u == <<q.user, q.election>>
               n == q.count
    <2>1. LoggingIn(r) /\ q.at = "record" /\ q.answer = NoId
        BY <1>2 DEF RecordKeyLogin, LoggingIn, TakenPlaces
    <2>2. q \in Login /\ u \in KeyStreams /\ n \in Nat
        BY <2>1, Places DEF Origins, OriginOf, Login, KeyStreams
    <2>3. /\ counts \in [KeyStreams -> Nat] /\ keyLogins \in [KeyStreams -> Seq(Nat)]
        BY DEF Types, LoginTypes
    <2>4. /\ Advanced(counts[u], n)
          /\ counts' = [counts EXCEPT ![u] = IF counts[u] < n THEN n ELSE counts[u]]
          /\ keyLogins' = [keyLogins EXCEPT ![u] = Append(keyLogins[u], n)]
        BY <1>2 DEF RecordKeyLogin, CounterAccepted
    <2> HIDE DEF u, n
    <2>5. counts'[u] = n /\ keyLogins'[u] = Append(keyLogins[u], n)
        BY <2>2, <2>3, <2>4 DEF Advanced
    <2>6. \A k \in KeyStreams \ {u} : counts'[k] = counts[k] /\ keyLogins'[k] = keyLogins[k]
        BY <2>2, <2>3, <2>4
    <2>7. /\ Append(keyLogins[u], n)[Len(Append(keyLogins[u], n))] = n
          /\ \A i \in 1 .. Len(Append(keyLogins[u], n)) - 1 :
                Advanced(Append(keyLogins[u], n)[i], Append(keyLogins[u], n)[i + 1])
        <3> USE DEF KeysInOrder
        <3> QED
            BY <2>2, <2>3, <2>4, KeyLoginAppended, SMTT(40)
    <2> QED
        BY <2>5, <2>6, <2>7 DEF KeysInOrder
<1>3. \/ UNCHANGED <<counts, keyLogins>>
      \/ \E r \in Requests : RecordKeyLogin(r)
    <2>1. ASSUME NEW r \in Requests, LoginStep(r)
          PROVE  UNCHANGED <<counts, keyLogins>> \/ RecordKeyLogin(r)
        BY <2>1 DEF LoginStep, Consume, Resolve, EndSession, RecordGroupLogin, RemoveOld,
                    RemoveOthers, Insert, EstablishFails, loginVars
    <2>2. ASSUME NEW r \in Requests, VisitStep(r) PROVE UNCHANGED <<counts, keyLogins>>
        BY <2>2 DEF VisitStep, GetSession, Drop, Touch, View, Save, Switch, Logout, AnswerLogout,
                    loginVars
    <2>3. ASSUME NEW r, NEW b, NEW a, NEW m, NEW e, NEW n, NEW kind, NEW page,
                 Callback(r, b, a) \/ FinishCeremony(r, b, m, e, n) \/ Send(r, b, kind, page, a)
          PROVE  UNCHANGED <<counts, keyLogins>>
        BY <2>3 DEF Callback, FinishCeremony, Send, loginVars
    <2>a. ASSUME NEW b \in Browsers, StartLogin(b) \/ OpenLoginPage(b)
          PROVE  UNCHANGED <<counts, keyLogins>>
        BY <2>a DEF StartLogin, OpenLoginPage
    <2>4. ASSUME NEW id, Identify(id) \/ HandleSls(id) PROVE UNCHANGED <<counts, keyLogins>>
        BY <2>4 DEF Identify, HandleSls
    <2>5. ASSUME NEW r, Fail(r) PROVE UNCHANGED <<counts, keyLogins>>
        BY <2>5 DEF Fail, loginVars
    <2>6. CASE Sweep \/ Tick \/ UNCHANGED vars
        BY <2>6 DEF Sweep, Tick, vars, loginVars
    <2> QED
        BY <2>1, <2>2, <2>3, <2>a, <2>4, <2>5, <2>6 DEF Next
<1> QED
    BY <1>1, <1>2, <1>3

LEMMA InitKeys == Init => KeysInOrder
BY DEF Init, KeysInOrder

-----------------------------------------------------------------------------
(* No row and no request knows of a use of a session that was not made.     *)

Clock ==
    /\ \A t \in DOMAIN made : made[t].used <= now
    /\ \A t \in DOMAIN sessions : sessions[t].active <= made[t].used
    /\ \A r \in Requests : Visiting(r) =>
         /\ request[r].token \in DOMAIN made
         /\ request[r].session.active <= made[request[r].token].used
    /\ \A r \in Requests : LoggingIn(r) => request[r].born <= now

UsesGrow ==
    \A t \in DOMAIN made : t \in DOMAIN made' /\ made[t].used <= made'[t].used

UsesPast == \A t \in DOMAIN made' : made'[t].used <= now'

RowsKept ==
    \A t \in DOMAIN sessions' :
        \/ t \in DOMAIN sessions /\ sessions'[t].active = sessions[t].active
        \/ sessions'[t].active <= made'[t].used

ActiveOf(x, m) == x.token \in DOMAIN m /\ x.session.active <= m[x.token].used

VisitsKept ==
    \A r \in Requests : Visiting(r)' =>
        \/ /\ Visiting(r) /\ request'[r].token = request[r].token
           /\ request'[r].session = request[r].session
        \/ ActiveOf(request'[r], made')

BornKept ==
    \A r \in Requests : LoggingIn(r)' =>
        (LoggingIn(r) /\ request'[r].born = request[r].born) \/ request'[r].born <= now'

LEMMA UsedIsTime ==
    ASSUME NEW m \in Seq(Made)
    PROVE  \A t \in DOMAIN m : m[t].used \in Nat
<1>1. \A t \in DOMAIN m : m[t] \in Made
    OBVIOUS
<1> QED
    BY <1>1 DEF Made

LEMMA ClockKept ==
    ASSUME Types, Types', Clock, now <= now', UsesGrow, UsesPast, RowsKept, VisitsKept, BornKept
    PROVE  Clock'
<1>0. /\ now \in Nat /\ now' \in Nat
      /\ \A t \in DOMAIN made : made[t].used \in Nat
      /\ \A t \in DOMAIN made' : made'[t].used \in Nat
      /\ DOMAIN sessions \subseteq DOMAIN made /\ DOMAIN sessions' \subseteq DOMAIN made'
      /\ \A t \in DOMAIN sessions : sessions[t].active \in Nat
    <2>1. made \in Seq(Made) /\ made' \in Seq(Made)
        BY DEF Types, SessionTypes
    <2>2. /\ \A t \in DOMAIN made : made[t].used \in Nat
          /\ \A t \in DOMAIN made' : made'[t].used \in Nat
        BY <2>1, UsedIsTime
    <2>3. \A t \in DOMAIN sessions : sessions[t].active \in Nat
        BY DEF Types, SessionTypes, Session
    <2> QED
        BY <2>2, <2>3 DEF Types, TimeTypes, SessionTypes
<1>1. \A t \in DOMAIN sessions' : sessions'[t].active <= made'[t].used
    BY <1>0 DEF Clock, RowsKept, UsesGrow
<1>2. ASSUME NEW r \in Requests, Visiting(r)' PROVE ActiveOf(request'[r], made')
    <2>1. CASE /\ Visiting(r) /\ request'[r].token = request[r].token
               /\ request'[r].session = request[r].session
        <3>1. request[r] \in Visit
            BY <2>1, Places
        <3>2. request[r].session.active \in Nat
            BY <3>1 DEF Visit, Session
        <3> QED
            BY <1>0, <2>1, <3>2 DEF Clock, UsesGrow, ActiveOf
    <2> QED
        BY <1>2, <2>1 DEF VisitsKept
<1>3. ASSUME NEW r \in Requests, LoggingIn(r)' PROVE request'[r].born <= now'
    <2>1. CASE LoggingIn(r) /\ request'[r].born = request[r].born
        <3>1. request[r].born \in Nat
            BY <2>1, Places DEF Login
        <3> QED
            BY <1>0, <2>1, <3>1 DEF Clock
    <2> QED
        BY <1>3, <2>1 DEF BornKept
<1> QED
    BY <1>1, <1>2, <1>3 DEF Clock, UsesPast, ActiveOf

LEMMA KeptClock ==
    ASSUME Types, Clock
    PROVE  /\ UNCHANGED now => now <= now'
           /\ UNCHANGED <<made>> => UsesGrow
           /\ UNCHANGED <<made, now>> => UsesPast
           /\ UNCHANGED <<sessions>> => RowsKept
           /\ UNCHANGED request => VisitsKept /\ BornKept
<1>1. now \in Nat /\ \A t \in DOMAIN made : made[t].used \in Nat
    BY UsedIsTime DEF Types, TimeTypes, SessionTypes
<1> QED
    BY <1>1 DEF Clock, UsesGrow, UsesPast, RowsKept, VisitsKept, BornKept, Visiting, LoggingIn

LEMMA RequestMoved ==
    ASSUME Types, NEW r \in Requests, NEW x, request' = [request EXCEPT ![r] = x],
           x.at \in VisitPlaces => \/ /\ Visiting(r) /\ x.token = request[r].token
                                      /\ x.session = request[r].session
                                   \/ ActiveOf(x, made'),
           x.at \in TakenPlaces \cup {"consume"} =>
               (LoggingIn(r) /\ x.born = request[r].born) \/ x.born <= now'
    PROVE  VisitsKept /\ BornKept
<1>1. request'[r] = x /\ \A y \in Requests \ {r} : request'[y] = request[y]
    BY DEF Types, RequestTypes
<1>2. VisitsKept
    BY <1>1 DEF VisitsKept, Visiting
<1>3. BornKept
    BY <1>1 DEF BornKept, LoggingIn
<1> QED
    BY <1>2, <1>3

LEMMA RowsRemoved ==
    ASSUME NEW gone, sessions' = Without(sessions, gone)
    PROVE  RowsKept
BY DEF RowsKept, Without

(* What a request holds once its session was read.                          *)
ReadBy(r, phase, session) ==
    [at |-> phase, by |-> request[r].by, token |-> request[r].token, kind |-> request[r].kind,
     page |-> request[r].page, target |-> request[r].target, session |-> session]

LEMMA SessionRead ==
    ASSUME Types, NEW r \in Requests, GetSession(r)
    PROVE  \/ Answer(r) /\ UNCHANGED made
           \/ /\ request[r].token \in DOMAIN sessions /\ Asking(r) /\ request[r] \in Ask
              /\ sessions[request[r].token] \in Session
              /\ \/ \E phase \in {"drop", "handle"} :
                      /\ request' = [request EXCEPT ![r] =
                                       ReadBy(r, phase, sessions[request[r].token])]
                      /\ phase = "handle" => CsrfMatches(request[r], sessions[request[r].token])
                 \/ /\ request' = [request EXCEPT ![r] =
                         ReadBy(r, "touch", [sessions[request[r].token] EXCEPT !.active = now])]
                    /\ made' = [made EXCEPT ![request[r].token].used = now]
                    /\ CsrfMatches(request[r], sessions[request[r].token])
<1> DEFINE k == request[r].token
<1>1. CASE Answer(r) /\ UNCHANGED made
    BY <1>1
<1>2. CASE ~(Answer(r) /\ UNCHANGED made)
    <2>1. k \in DOMAIN sessions
        BY <1>2 DEF GetSession, Alive
    <2>2. Asking(r) /\ request[r] \in Ask /\ sessions[k] \in Session
        BY <2>1, Places DEF GetSession, Asking, Types, SessionTypes
    <2> QED
        BY <1>2, <2>1, <2>2 DEF GetSession, ReadBy, IsActivity
<1> QED
    BY <1>1, <1>2

LEMMA StepClock == Types /\ Types' /\ Origins /\ Clock /\ [Next]_vars => Clock'
<1> SUFFICES ASSUME Types, Types', Origins, Clock, [Next]_vars PROVE Clock'
    OBVIOUS
<1> USE KeptClock, ClockKept DEF loginVars, workVars
<1>0. ASSUME NEW r \in Requests, Answer(r) PROVE VisitsKept /\ BornKept
    BY <1>0, RequestMoved DEF Answer, Ready, TakenPlaces, VisitPlaces
<1>1. ASSUME NEW b, StartLogin(b) \/ OpenLoginPage(b) PROVE Clock'
    BY <1>1 DEF StartLogin, OpenLoginPage
<1>2. ASSUME NEW id, Identify(id) \/ HandleSls(id) PROVE Clock'
    BY <1>2 DEF Identify, HandleSls
<1>3. ASSUME NEW r \in Requests, NEW b, NEW a, Callback(r, b, a) PROVE Clock'
    <2>1. now' = now /\ 0 <= now
        BY <1>3 DEF Callback, Types, TimeTypes
    <2> QED
        BY <1>3, <2>1, RequestMoved DEF Callback, TakenPlaces, VisitPlaces
<1>4. ASSUME NEW r \in Requests, NEW b, NEW m, NEW e, NEW n, FinishCeremony(r, b, m, e, n) PROVE Clock'
    <2>1. now' = now /\ 0 <= now
        BY <1>4 DEF FinishCeremony, Types, TimeTypes
    <2> QED
        BY <1>4, <2>1, RequestMoved DEF FinishCeremony, TakenPlaces, VisitPlaces
<1>5. ASSUME NEW r \in Requests, NEW b, NEW kind, NEW page, NEW c, Send(r, b, kind, page, c)
      PROVE  Clock'
    BY <1>5, RequestMoved DEF Send, TakenPlaces, VisitPlaces
<1>6. ASSUME NEW r \in Requests, LoginStep(r) PROVE Clock'
    <2> DEFINE q == request[r]
    <2>0. LoggingIn(r) => q \in Login /\ q.born <= now
        BY Places DEF Clock
    <2> USE DEF LoggingIn, TakenPlaces
    <2>1. ASSUME LoggingIn(r), NEW at \in TakenPlaces, request' = [request EXCEPT ![r].at = at]
          PROVE  VisitsKept /\ BornKept
        <3>1. [q EXCEPT !.at = at].born = q.born /\ [q EXCEPT !.at = at].at = at
            BY <2>0, <2>1 DEF Login
        <3> QED
            BY <2>1, <3>1, RequestMoved DEF VisitPlaces
    <2>2. CASE Consume(r)
        BY <2>2, <2>1, <1>0 DEF Consume, Refuse
    <2>3. CASE Resolve(r)
        <3>1. CASE Refuse(r)
            BY <2>3, <3>1, <1>0 DEF Resolve, Refuse
        <3>2. CASE request' = [request EXCEPT ![r].at = "end"]
            BY <2>1, <2>3, <3>2 DEF Resolve
        <3>3. CASE request' = [request EXCEPT ![r] =
                     [q EXCEPT !.at = "record", !.user = flows[q.answer].answer]]
            <4> DEFINE x == [q EXCEPT !.at = "record", !.user = flows[q.answer].answer]
            <4>1. x.born = q.born /\ x.at = "record"
                BY <2>0, <2>3 DEF Login, Resolve
            <4> HIDE DEF x
            <4>2. VisitsKept /\ BornKept
                BY <2>3, <3>3, <4>1, RequestMoved DEF Resolve, VisitPlaces, x
            <4> QED
                BY <2>3, <4>2 DEF Resolve
        <3> QED
            BY <2>3, <3>1, <3>2, <3>3 DEF Resolve
    <2>4. CASE EndSession(r)
        BY <2>4, <1>0, RowsRemoved DEF EndSession
    <2>5. CASE RecordGroupLogin(r)
        <3>1. PICK c : request' = [request EXCEPT ![r] =
                                     [q EXCEPT !.at = "remove", !.context = c, !.born = now]]
            BY <2>5 DEF RecordGroupLogin
        <3> DEFINE x == [q EXCEPT !.at = "remove", !.context = c, !.born = now]
        <3>2. x.born = now /\ x.at = "remove" /\ now' = now /\ now \in Nat
            BY <2>0, <2>5 DEF Login, RecordGroupLogin, Types, TimeTypes
        <3> HIDE DEF x
        <3>3. VisitsKept /\ BornKept
            BY <3>1, <3>2, RequestMoved DEF VisitPlaces, x
        <3> QED
            BY <2>5, <3>3 DEF RecordGroupLogin
    <2>6. CASE RecordKeyLogin(r)
        <3> DEFINE x == [q EXCEPT !.at = "remove", !.born = now]
        <3>1. request' = [request EXCEPT ![r] = x]
            BY <2>6 DEF RecordKeyLogin
        <3>2. x.born = now /\ x.at = "remove" /\ now' = now /\ now \in Nat
            BY <2>0, <2>6 DEF Login, RecordKeyLogin, Types, TimeTypes
        <3> HIDE DEF x
        <3>3. VisitsKept /\ BornKept
            BY <3>1, <3>2, RequestMoved DEF VisitPlaces
        <3> QED
            BY <2>6, <3>3 DEF RecordKeyLogin
    <2>7. CASE RemoveOld(r)
        BY <2>7, <2>1, RowsRemoved DEF RemoveOld
    <2>8. CASE RemoveOthers(r)
        BY <2>8, <2>1, RowsRemoved DEF RemoveOthers
    <2>9. CASE Insert(r)
        <3> DEFINE x == [id |-> q.id, by |-> q.by, user |-> q.user, used |-> q.born]
                   n == Len(made) + 1
                   s == [user |-> q.user, context |-> q.context, csrf |-> 1,
                         created |-> q.born, active |-> q.born]
        <3>1. /\ q.born \in Nat /\ q.born <= now /\ now' = now /\ x.used = q.born
              /\ made' = Append(made, x) /\ Answer(r)
              /\ sessions' \in {sessions, With(sessions, n, s)} /\ s.active = q.born
            BY <2>0, <2>9 DEF Insert, Login
        <3> HIDE DEF x, s
        <3>2. /\ DOMAIN made' = DOMAIN made \cup {n} /\ made'[n] = x
              /\ \A t \in DOMAIN made : made'[t] = made[t] /\ t # n
            BY <3>1 DEF Types, SessionTypes
        <3>3. made'[n].used = q.born
            BY <3>1, <3>2
        <3>4. UsesGrow
            BY <3>2, UsedIsTime DEF UsesGrow, Types, SessionTypes
        <3>5. UsesPast
            BY <3>1, <3>2, <3>3 DEF UsesPast, Clock
        <3>6. RowsKept
            BY <3>1, <3>3 DEF RowsKept, With
        <3> QED
            BY <3>1, <3>4, <3>5, <3>6, <1>0
    <2>10. CASE EstablishFails(r)
        BY <2>10, <1>0 DEF EstablishFails, Refuse
    <2> QED
        BY <1>6, <2>2, <2>3, <2>4, <2>5, <2>6, <2>7, <2>8, <2>9, <2>10 DEF LoginStep
<1>7. ASSUME NEW r \in Requests, VisitStep(r) PROVE Clock'
    <2> DEFINE q == request[r]
    <2>0. Visiting(r) => q \in Visit /\ ActiveOf(q, made)
        BY Places DEF Clock, ActiveOf
    <2> USE DEF Visiting, VisitPlaces, TakenPlaces
    <2>1. ASSUME NEW at \in VisitPlaces, Visiting(r), request' = [request EXCEPT ![r].at = at]
          PROVE  VisitsKept /\ BornKept
        <3> DEFINE x == [q EXCEPT !.at = at]
        <3>1. x.at = at /\ x.token = q.token /\ x.session = q.session
            BY <2>0, <2>1 DEF Visit
        <3> HIDE DEF x
        <3> QED
            BY <2>1, <3>1, RequestMoved DEF x
    <2>2. CASE GetSession(r)
        <3>0. now' = now /\ now \in Nat /\ UNCHANGED sessions
            BY <2>2 DEF GetSession, Types, TimeTypes
        <3>1. UsesGrow /\ UsesPast
            <4>1. \A t \in DOMAIN made : made[t].used \in Nat /\ made[t].used <= now
                BY UsedIsTime DEF Types, SessionTypes, Clock
            <4> QED
                BY <2>2, <3>0, <4>1, MadeRead DEF UsesGrow, UsesPast
        <3>2. VisitsKept /\ BornKept
            <4>1. CASE Answer(r)
                BY <4>1, <1>0
            <4>2. CASE ~Answer(r)
                <5> DEFINE k == q.token
                <5>1. /\ k \in DOMAIN sessions /\ k \in DOMAIN made /\ k \in DOMAIN made'
                      /\ sessions[k] \in Session
                    BY <2>2, <4>2, SessionRead, MadeRead DEF Types, SessionTypes
                <5>2. sessions[k].active <= made'[k].used
                    <6>1. sessions[k].active \in Nat /\ made[k].used \in Nat /\ made'[k].used \in Nat
                        BY <5>1, UsedIsTime DEF Session, Types, SessionTypes
                    <6> QED
                        BY <5>1, <6>1, <3>1 DEF Clock, UsesGrow
                <5>3. CASE \E phase \in {"drop", "handle"} :
                             request' = [request EXCEPT ![r] = ReadBy(r, phase, sessions[k])]
                    <6>1. PICK phase \in {"drop", "handle"} :
                             request' = [request EXCEPT ![r] = ReadBy(r, phase, sessions[k])]
                        BY <5>3
                    <6> DEFINE x == ReadBy(r, phase, sessions[k])
                    <6>2. x.at = phase /\ x.token = k /\ x.session = sessions[k]
                        BY DEF ReadBy
                    <6> HIDE DEF x
                    <6>3. ActiveOf(x, made')
                        BY <5>1, <5>2, <6>2 DEF ActiveOf
                    <6> QED
                        BY <6>1, <6>2, <6>3, RequestMoved DEF x
                <5>4. CASE /\ request' = [request EXCEPT ![r] =
                                            ReadBy(r, "touch", [sessions[k] EXCEPT !.active = now])]
                           /\ made' = [made EXCEPT ![k].used = now]
                    <6> DEFINE x == ReadBy(r, "touch", [sessions[k] EXCEPT !.active = now])
                    <6>1. x.at = "touch" /\ x.token = k /\ x.session = [sessions[k] EXCEPT !.active = now]
                        BY DEF ReadBy
                    <6>2. x.session.active = now
                        BY <5>1, <6>1 DEF Session
                    <6>3. made[k] \in Made
                        BY <5>1 DEF Types, SessionTypes
                    <6>4. made'[k].used = now
                        BY <5>1, <5>4, <6>3 DEF Made
                    <6> HIDE DEF x
                    <6>5. ActiveOf(x, made')
                        BY <3>0, <5>1, <6>1, <6>2, <6>4 DEF ActiveOf
                    <6> QED
                        BY <5>4, <6>1, <6>5, RequestMoved DEF x
                <5> QED
                    BY <2>2, <4>2, <5>3, <5>4, SessionRead
            <4> QED
                BY <4>1, <4>2
        <3> QED
            BY <3>0, <3>1, <3>2
    <2>3. CASE Drop(r)
        BY <2>3, <1>0, RowsRemoved DEF Drop
    <2>4. CASE Touch(r)
        <3>1. q \in Visit /\ ActiveOf(q, made) /\ UNCHANGED made
            BY <2>0, <2>4 DEF Touch
        <3>2. RowsKept
            <4> DEFINE k == q.token
                       n == IF sessions[k].active < q.session.active
                            THEN q.session.active ELSE sessions[k].active
            <4>1. CASE sessions' = sessions
                BY <4>1
            <4>2. CASE k \in DOMAIN sessions /\ sessions' = [sessions EXCEPT ![k].active = n]
                <5>1. sessions[k] \in Session /\ sessions[k].active \in Nat
                    BY <4>2 DEF Types, SessionTypes, Session
                <5>2. [sessions[k] EXCEPT !.active = n].active = n
                    BY <5>1 DEF Session
                <5>3. n <= made[k].used
                    BY <3>1, <4>2 DEF ActiveOf, Clock
                <5> HIDE DEF n
                <5>4. /\ DOMAIN sessions' = DOMAIN sessions /\ sessions'[k].active = n
                      /\ \A t \in DOMAIN sessions \ {k} : sessions'[t] = sessions[t]
                    BY <4>2, <5>2
                <5> QED
                    BY <3>1, <5>3, <5>4 DEF RowsKept
            <4> QED
                BY <2>4, <4>1, <4>2 DEF Touch, Touched
        <3> QED
            BY <2>1, <2>4, <3>2 DEF Touch
    <2>5. CASE View(r) \/ Save(r)
        BY <2>5, <1>0 DEF View, Save
    <2>6. CASE Switch(r)
        <3> DEFINE k == q.token
        <3>1. /\ sessions' = [sessions EXCEPT ![k] =
                                [sessions[k] EXCEPT !.context = q.target, !.csrf = @ + 1]]
              /\ k \in DOMAIN sessions
            BY <2>6 DEF Switch, SetContext
        <3> DEFINE s == [sessions[k] EXCEPT !.context = q.target, !.csrf = @ + 1]
        <3>2. sessions[k] \in Session
            BY <3>1 DEF Types, SessionTypes
        <3>3. s.active = sessions[k].active
            BY <3>2 DEF Session
        <3> HIDE DEF s
        <3>4. RowsKept
            BY <3>1, <3>3 DEF RowsKept, s
        <3> QED
            BY <2>6, <3>4, <1>0 DEF Switch
    <2>7. CASE Logout(r)
        BY <2>7, <2>1, RowsRemoved DEF Logout, At
    <2>8. CASE AnswerLogout(r)
        BY <2>8, <1>0 DEF AnswerLogout
    <2> QED
        BY <1>7, <2>2, <2>3, <2>4, <2>5, <2>6, <2>7, <2>8 DEF VisitStep
<1>8. ASSUME NEW r \in Requests, Fail(r) PROVE Clock'
    BY <1>8, <1>0 DEF Fail
<1>9. CASE Sweep
    BY <1>9, RowsRemoved DEF Sweep
<1>10. CASE Tick
    <2>1. now' = now + 1 /\ now \in Nat /\ UNCHANGED <<made, sessions, request>>
        BY <1>10 DEF Tick, Types, TimeTypes
    <2>2. \A t \in DOMAIN made : made[t].used \in Nat
        BY UsedIsTime DEF Types, SessionTypes
    <2>3. UsesPast
        BY <2>1, <2>2 DEF Clock, UsesPast
    <2> QED
        BY <2>1, <2>3
<1>11. CASE UNCHANGED vars
    BY <1>11 DEF vars
<1> QED
    BY <1>1, <1>2, <1>3, <1>4, <1>5, <1>6, <1>7, <1>8, <1>9, <1>10, <1>11 DEF Next

LEMMA InitClock == Init => Clock
<1> SUFFICES ASSUME Init PROVE Clock
    OBVIOUS
<1>1. now = 0 /\ \A r \in Requests : ~Visiting(r) /\ ~LoggingIn(r)
    BY DEF Init, Visiting, LoggingIn, VisitPlaces, TakenPlaces, Ready
<1>2. \A t \in DOMAIN made : made[t].used = 0
    BY DEF Init
<1>3. \A t \in DOMAIN sessions : sessions[t].active = 0 /\ t \in DOMAIN made
    BY DEF Init, StartSession
<1> QED
    BY <1>1, <1>2, <1>3 DEF Clock

-----------------------------------------------------------------------------
(* A CSRF token stands for one user and one context of one session: pages   *)
(* in the tables, in browsers and in requests that have the same token show *)
(* the same.  A session in the table has its newest token.                  *)

Carries(r) == Asking(r) \/ Visiting(r)
AdmittedPlaces == {"touch", "handle", "leave", "left"}
Admitted(r) == request[r].at \in AdmittedPlaces

Seen(v) ==
    \/ \E t \in DOMAIN sessions : v = PageOf(t, sessions[t])
    \/ \E b \in Browsers : v \in browser[b].pages
    \/ \E r \in Requests : Carries(r) /\ v = request[r].page
    \/ \E r \in Requests : Visiting(r) /\ v = PageOf(request[r].token, request[r].session)

Pages ==
    /\ \A v, w \in Page : Seen(v) /\ Seen(w) /\ v.token = w.token /\ v.csrf = w.csrf => v = w
    /\ \A v \in Page : Seen(v) =>
         /\ v.token \in DOMAIN made
         /\ v.token \in DOMAIN sessions => v.csrf <= sessions[v.token].csrf
    /\ \A r \in Requests : Admitted(r) => CsrfMatches(request[r], request[r].session)
    /\ SavesLandWhereRendered

(* A step shows what was seen before, and maybe new pages of the table.     *)
TableFrom(new) ==
    \A t \in DOMAIN sessions' :
        \/ t \in DOMAIN sessions /\ PageOf(t, sessions'[t]) = PageOf(t, sessions[t])
        \/ PageOf(t, sessions'[t]) \in new

BrowsersFrom == \A b \in Browsers : \A v \in browser'[b].pages : Seen(v)

CarriedBy(x) ==
    /\ x.at \in VisitPlaces \cup {"get"} => x.page = NoPage \/ Seen(x.page)
    /\ x.at \in VisitPlaces => Seen(PageOf(x.token, x.session))

RequestsFrom == \A r \in Requests : CarriedBy(request'[r])

AdmittedKept == \A r \in Requests : Admitted(r)' => CsrfMatches(request'[r], request'[r].session)

LEMMA SeenFrom ==
    ASSUME NEW new, TableFrom(new), BrowsersFrom, RequestsFrom, NEW v \in Page, Seen(v)'
    PROVE  Seen(v) \/ v \in new
<1>1. CASE \E t \in DOMAIN sessions' : v = PageOf(t, sessions'[t])
    <2>1. PICK t \in DOMAIN sessions' : v = PageOf(t, sessions'[t])
        BY <1>1
    <2>2. (t \in DOMAIN sessions /\ v = PageOf(t, sessions[t])) \/ v \in new
        BY <2>1 DEF TableFrom
    <2> QED
        BY <2>2 DEF Seen
<1>2. CASE \E b \in Browsers : v \in browser'[b].pages
    BY <1>2 DEF BrowsersFrom
<1>3. CASE \E r \in Requests : Carries(r)' /\ v = request'[r].page
    BY <1>3, NoPageAssumption DEF RequestsFrom, CarriedBy, Carries, Asking, Visiting
<1>4. CASE \E r \in Requests : Visiting(r)' /\ v = PageOf(request'[r].token, request'[r].session)
    BY <1>4 DEF RequestsFrom, CarriedBy, Visiting
<1> QED
    BY <1>1, <1>2, <1>3, <1>4 DEF Seen

LEMMA PagesFrom ==
    ASSUME Types, Types', Pages, DOMAIN made \subseteq DOMAIN made',
           NEW new \in SUBSET Page, TableFrom(new), BrowsersFrom, RequestsFrom, AdmittedKept,
           \A v, w \in new : v = w,
           \A n \in new : n.token \in DOMAIN made' /\ n.csrf <= sessions'[n.token].csrf,
           \A v \in Page, n \in new : Seen(v) => v.token # n.token \/ v.csrf < n.csrf,
           \A t \in DOMAIN sessions' :
               \/ t \in DOMAIN sessions /\ sessions[t].csrf <= sessions'[t].csrf
               \/ t \notin DOMAIN made,
           SavesLandWhereRendered'
    PROVE  Pages'
<1>1. \A v \in Page : Seen(v)' => Seen(v) \/ v \in new
    BY SeenFrom
<1>2. \A v \in Page : v.csrf \in Nat
    BY DEF Page
<1>3. ASSUME NEW v \in Page, NEW w \in Page, Seen(v)', Seen(w)', v.token = w.token, v.csrf = w.csrf
      PROVE  v = w
    BY <1>1, <1>2, <1>3 DEF Pages
<1>4. ASSUME NEW v \in Page, Seen(v)'
      PROVE  v.token \in DOMAIN made' /\ (v.token \in DOMAIN sessions' => v.csrf <= sessions'[v.token].csrf)
    <2>1. CASE v \in new
        BY <2>1
    <2>2. CASE Seen(v) /\ v.token \in DOMAIN sessions'
        <3>1. v.token \in DOMAIN sessions /\ v.csrf <= sessions[v.token].csrf
              /\ sessions[v.token].csrf <= sessions'[v.token].csrf
            BY <2>2 DEF Pages
        <3>2. sessions[v.token].csrf \in Nat /\ sessions'[v.token].csrf \in Nat
            BY <2>2, <3>1 DEF Types, SessionTypes, Session
        <3> QED
            BY <1>2, <2>2, <3>1, <3>2 DEF Pages
    <2> QED
        BY <1>1, <1>4, <2>1, <2>2 DEF Pages
<1> QED
    BY <1>3, <1>4 DEF Pages, AdmittedKept

(* Nothing new.                                                             *)
LEMMA PagesKept ==
    ASSUME Types, Types', Pages, DOMAIN made \subseteq DOMAIN made', UNCHANGED saved,
           TableFrom({}), BrowsersFrom, RequestsFrom, AdmittedKept
    PROVE  Pages'
<1>1. SavesLandWhereRendered'
    BY DEF Pages, SavesLandWhereRendered
<1>2. ASSUME NEW t \in DOMAIN sessions'
      PROVE  t \in DOMAIN sessions /\ sessions[t].csrf <= sessions'[t].csrf
    <2>1. t \in DOMAIN sessions /\ PageOf(t, sessions'[t]).csrf = PageOf(t, sessions[t]).csrf
        BY DEF TableFrom
    <2>2. sessions[t].csrf = sessions'[t].csrf /\ sessions[t].csrf \in Nat
        BY <2>1 DEF PageOf, Types, SessionTypes, Session
    <2> QED
        BY <2>1, <2>2
<1> QED
    BY <1>1, <1>2, PagesFrom

LEMMA OwnPagesSeen ==
    ASSUME Types, NEW r \in Requests
    PROVE  /\ CarriedBy(request[r])
           /\ Visiting(r) => Seen(PageOf(request[r].token, request[r].session))
           /\ Asking(r) \/ Visiting(r) => request[r].page = NoPage \/ Seen(request[r].page)
BY DEF CarriedBy, Seen, Carries, Asking, Visiting

LEMMA KeptPages ==
    ASSUME Types, Pages
    PROVE  /\ UNCHANGED <<sessions>> => TableFrom({})
           /\ UNCHANGED <<made>> => DOMAIN made \subseteq DOMAIN made'
           /\ UNCHANGED browser => BrowsersFrom
           /\ UNCHANGED request => RequestsFrom /\ AdmittedKept
<1>1. UNCHANGED <<sessions>> => TableFrom({})
    BY DEF TableFrom
<1>2. UNCHANGED browser => BrowsersFrom
    BY DEF BrowsersFrom, Seen
<1>3. UNCHANGED request => RequestsFrom
    BY OwnPagesSeen DEF RequestsFrom
<1>4. UNCHANGED request => AdmittedKept
    BY DEF AdmittedKept, Admitted, Pages
<1> QED
    BY <1>1, <1>2, <1>3, <1>4

LEMMA CarrierReplaced ==
    ASSUME Types, Pages, NEW r \in Requests, NEW x, request' = [request EXCEPT ![r] = x],
           CarriedBy(x), x.at \in AdmittedPlaces => CsrfMatches(x, x.session)
    PROVE  RequestsFrom /\ AdmittedKept
<1>1. request'[r] = x /\ \A y \in Requests \ {r} : request'[y] = request[y]
    BY DEF Types, RequestTypes
<1>2. RequestsFrom
    BY <1>1, OwnPagesSeen DEF RequestsFrom
<1>3. AdmittedKept
    BY <1>1 DEF AdmittedKept, Admitted, Pages
<1> QED
    BY <1>2, <1>3

LEMMA TableRemoved ==
    ASSUME NEW gone, sessions' = Without(sessions, gone)
    PROVE  TableFrom({})
BY DEF TableFrom, Without

(* Tokens and cookies of a browser move, its pages do not.                  *)
LEMMA PagesStay ==
    ASSUME \A b \in Browsers : browser'[b].pages = browser[b].pages
    PROVE  BrowsersFrom
BY DEF BrowsersFrom, Seen

LEMMA StepPages == Types /\ Types' /\ Origins /\ Pages /\ [Next]_vars => Pages'
<1> SUFFICES ASSUME Types, Types', Origins, Pages, [Next]_vars PROVE Pages'
    OBVIOUS
<1> USE KeptPages, PagesKept DEF loginVars, workVars
<1>0. ASSUME NEW r \in Requests, Answer(r) PROVE RequestsFrom /\ AdmittedKept
    BY <1>0, CarrierReplaced DEF Answer, Ready, CarriedBy, VisitPlaces, AdmittedPlaces
<1>a. ASSUME NEW r \in Requests, NEW x, request' = [request EXCEPT ![r] = x],
             x.at \in TakenPlaces \cup {"consume"}
      PROVE  RequestsFrom /\ AdmittedKept
    BY <1>a, CarrierReplaced DEF CarriedBy, VisitPlaces, AdmittedPlaces, TakenPlaces
<1>1. ASSUME NEW b \in Browsers, StartLogin(b) \/ OpenLoginPage(b) PROVE Pages'
    <2>1. \A y \in Browsers : browser'[y].pages = browser[y].pages
        <3>1. CASE StartLogin(b)
            BY <3>1 DEF StartLogin, Types, BrowserTypes
        <3>2. CASE OpenLoginPage(b)
            BY <3>2 DEF OpenLoginPage, Types, BrowserTypes
        <3> QED
            BY <1>1, <3>1, <3>2
    <2> QED
        BY <1>1, <2>1, PagesStay DEF StartLogin, OpenLoginPage
<1>2. ASSUME NEW id, Identify(id) \/ HandleSls(id) PROVE Pages'
    BY <1>2 DEF Identify, HandleSls
<1>3. ASSUME NEW r \in Requests, NEW b, NEW a, Callback(r, b, a) PROVE Pages'
    BY <1>3, <1>a DEF Callback
<1>4. ASSUME NEW r \in Requests, NEW b, NEW m, NEW e, NEW n, FinishCeremony(r, b, m, e, n) PROVE Pages'
    BY <1>4, <1>a DEF FinishCeremony
<1>5. ASSUME NEW r \in Requests, NEW b \in Browsers, NEW kind,
             NEW page \in browser[b].pages \cup {NoPage}, NEW c, Send(r, b, kind, page, c)
      PROVE  Pages'
    <2> DEFINE x == [at |-> "get", by |-> b, token |-> browser[b].token, kind |-> kind,
                     page |-> page, target |-> c]
    <2>1. request' = [request EXCEPT ![r] = x]
        BY <1>5 DEF Send
    <2>2. CarriedBy(x) /\ x.at = "get"
        BY DEF CarriedBy, VisitPlaces, Seen
    <2> HIDE DEF x
    <2>3. RequestsFrom /\ AdmittedKept
        BY <2>1, <2>2, CarrierReplaced DEF AdmittedPlaces
    <2> QED
        BY <1>5, <2>3 DEF Send
<1>6. ASSUME NEW r \in Requests, LoginStep(r) PROVE Pages'
    <2> DEFINE q == request[r]
    <2>0. LoggingIn(r) => q \in Login
        BY Places
    <2> USE DEF LoggingIn, TakenPlaces
    <2>1. ASSUME LoggingIn(r), NEW at \in TakenPlaces, request' = [request EXCEPT ![r].at = at]
          PROVE  RequestsFrom /\ AdmittedKept
        <3>1. [q EXCEPT !.at = at].at = at
            BY <2>0, <2>1 DEF Login
        <3> QED
            BY <1>a, <2>1, <3>1
    <2>2. LoggingIn(r) => \A y \in Browsers : ClearsFlow(r)[y].pages = browser[y].pages
        BY <2>0 DEF ClearsFlow, Types, BrowserTypes
    <2>3. ASSUME LoggingIn(r), Refuse(r) PROVE BrowsersFrom /\ RequestsFrom /\ AdmittedKept
        BY <1>0, <2>2, <2>3, PagesStay DEF Refuse
    <2>4. CASE Consume(r)
        BY <2>1, <2>3, <2>4 DEF Consume
    <2>5. CASE Resolve(r)
        <3>1. CASE Refuse(r)
            BY <2>3, <2>5, <3>1 DEF Resolve
        <3>2. CASE ~Refuse(r)
            <4> DEFINE x == IF flows[q.answer].answer = "failed" THEN [q EXCEPT !.at = "end"]
                            ELSE [q EXCEPT !.at = "record", !.user = flows[q.answer].answer]
            <4>1. UNCHANGED browser /\ request' = [request EXCEPT ![r] = x]
                BY <2>5, <3>2 DEF Resolve
            <4>2. x.at \in TakenPlaces
                BY <2>0, <2>5 DEF Login, Resolve
            <4> HIDE DEF x
            <4>3. RequestsFrom /\ AdmittedKept
                BY <1>a, <4>1, <4>2
            <4> QED
                BY <2>5, <4>1, <4>3 DEF Resolve
        <3> QED
            BY <3>1, <3>2
    <2>6. CASE EndSession(r)
        <3>1. \A y \in Browsers : browser'[y].pages = browser[y].pages
            BY <2>0, <2>2, <2>6 DEF EndSession, ClearsFlow, Types, BrowserTypes
        <3> QED
            BY <2>6, <3>1, <1>0, PagesStay, TableRemoved DEF EndSession
    <2>7. CASE RecordGroupLogin(r)
        <3>1. PICK c : request' = [request EXCEPT ![r] =
                                     [q EXCEPT !.at = "remove", !.context = c, !.born = now]]
            BY <2>7 DEF RecordGroupLogin
        <3>2. [q EXCEPT !.at = "remove", !.context = c, !.born = now].at = "remove"
            BY <2>0, <2>7 DEF Login, RecordGroupLogin
        <3>3. RequestsFrom /\ AdmittedKept
            BY <1>a, <3>1, <3>2
        <3> QED
            BY <2>7, <3>3 DEF RecordGroupLogin
    <2>8. CASE RecordKeyLogin(r)
        <3>1. [q EXCEPT !.at = "remove", !.born = now].at = "remove"
            BY <2>0, <2>8 DEF Login, RecordKeyLogin
        <3>2. RequestsFrom /\ AdmittedKept
            BY <1>a, <2>8, <3>1 DEF RecordKeyLogin
        <3> QED
            BY <2>8, <3>2 DEF RecordKeyLogin
    <2>9. CASE RemoveOld(r)
        BY <2>9, <2>1, TableRemoved DEF RemoveOld
    <2>10. CASE RemoveOthers(r)
        BY <2>10, <2>1, TableRemoved DEF RemoveOthers
    <2>11. CASE Insert(r)
        <3> DEFINE n == Len(made) + 1
                   x == [id |-> q.id, by |-> q.by, user |-> q.user, used |-> q.born]
                   s == [user |-> q.user, context |-> q.context, csrf |-> 1,
                         created |-> q.born, active |-> q.born]
        <3>1. /\ made' = Append(made, x) /\ Answer(r) /\ UNCHANGED saved
              /\ sessions' \in {sessions, With(sessions, n, s)}
            BY <2>11 DEF Insert
        <3>2. BrowsersFrom
            <4>1. \A y \in Browsers : browser'[y].pages = browser[y].pages
                BY <2>0, <2>2, <2>11 DEF Insert, ClearsFlow, Types, BrowserTypes
            <4> QED
                BY <4>1, PagesStay, SMTT(40)
        <3> HIDE DEF x, s
        <3>3. DOMAIN made' = DOMAIN made \cup {n} /\ n \notin DOMAIN made
            BY <3>1 DEF Types, SessionTypes
        <3>4. CASE sessions' = sessions
            BY <3>1, <3>2, <3>3, <3>4, <1>0
        <3>5. CASE sessions' = With(sessions, n, s)
            <4> DEFINE v == PageOf(n, s)
            <4>1. n \in DOMAIN sessions' /\ n \notin DOMAIN sessions /\ sessions'[n] = s
                  /\ \A t \in DOMAIN sessions' \ {n} : t \in DOMAIN sessions /\ sessions'[t] = sessions[t]
                BY <3>3, <3>5 DEF With, Types, SessionTypes
            <4>2. s \in Session /\ n \in Nat
                BY <4>1 DEF Types, SessionTypes
            <4>3. v \in Page /\ v.token = n /\ v.csrf = s.csrf /\ s.csrf \in Nat
                BY <4>2 DEF Session, Page, PageOf
            <4>4. TableFrom({v})
                BY <4>1 DEF TableFrom
            <4>5. \A w \in Page : Seen(w) => w.token # n
                BY <3>3 DEF Pages
            <4>6. \A t \in DOMAIN sessions' :
                     (t \in DOMAIN sessions /\ sessions[t].csrf <= sessions'[t].csrf) \/ t \notin DOMAIN made
                <5>1. \A t \in DOMAIN sessions : sessions[t].csrf \in Nat
                    BY DEF Types, SessionTypes, Session
                <5> QED
                    BY <3>3, <4>1, <5>1
            <4>7. SavesLandWhereRendered'
                BY <3>1 DEF Pages, SavesLandWhereRendered
            <4>8. v.token \in DOMAIN made' /\ v.csrf <= sessions'[v.token].csrf
                BY <3>3, <4>1, <4>3
            <4>9. RequestsFrom /\ AdmittedKept
                BY <3>1, <1>0
            <4> HIDE DEF v
            <4>10. {v} \in SUBSET Page /\ DOMAIN made \subseteq DOMAIN made'
                BY <4>3, <3>3
            <4>11. \A w \in Page, z \in {v} : Seen(w) => w.token # z.token \/ w.csrf < z.csrf
                BY <4>3, <4>5
            <4>12. \A z \in {v} : z.token \in DOMAIN made' /\ z.csrf <= sessions'[z.token].csrf
                BY <4>8
            <4>13. \A y, z \in {v} : y = z
                OBVIOUS
            <4> QED
                BY <3>2, <4>4, <4>6, <4>7, <4>9, <4>10, <4>11, <4>12, <4>13, PagesFrom
        <3> QED
            BY <3>1, <3>4, <3>5
    <2>12. CASE EstablishFails(r)
        BY <2>3, <2>12 DEF EstablishFails
    <2> QED
        BY <1>6, <2>4, <2>5, <2>6, <2>7, <2>8, <2>9, <2>10, <2>11, <2>12 DEF LoginStep
<1>7. ASSUME NEW r \in Requests, VisitStep(r) PROVE Pages'
    <2> DEFINE q == request[r]
               k == q.token
    <2>0. /\ Visiting(r) => q \in Visit /\ Seen(PageOf(k, q.session))
          /\ Asking(r) \/ Visiting(r) => q.page = NoPage \/ Seen(q.page)
          /\ Admitted(r) => CsrfMatches(q, q.session)
        BY Places, OwnPagesSeen DEF Pages
    <2>1. ASSUME NEW at \in VisitPlaces, Admitted(r), request' = [request EXCEPT ![r].at = at]
          PROVE  RequestsFrom /\ AdmittedKept
        <3> DEFINE x == [q EXCEPT !.at = at]
        <3>1. Visiting(r) /\ q \in Visit
            BY <2>0, <2>1 DEF Visiting, VisitPlaces, Admitted, AdmittedPlaces
        <3>2. x.at = at /\ x.token = k /\ x.session = q.session /\ x.page = q.page
            BY <3>1 DEF Visit
        <3> HIDE DEF x
        <3>3. CarriedBy(x)
            BY <2>0, <3>1, <3>2 DEF CarriedBy
        <3>4. CsrfMatches(x, x.session)
            BY <2>0, <2>1, <3>2 DEF CsrfMatches
        <3> QED
            BY <2>1, <3>3, <3>4, CarrierReplaced DEF x
    <2> USE DEF Visiting, VisitPlaces, Admitted, AdmittedPlaces
    <2>2. CASE GetSession(r)
        <3>1. RequestsFrom /\ AdmittedKept
            <4>1. CASE Answer(r)
                BY <4>1, <1>0
            <4>2. CASE ~Answer(r)
                <5>1. PICK phase \in {"drop", "handle", "touch"},
                           s \in {sessions[k], [sessions[k] EXCEPT !.active = now]} :
                         /\ request' = [request EXCEPT ![r] = ReadBy(r, phase, s)]
                         /\ phase # "drop" => CsrfMatches(q, sessions[k])
                    BY <2>2, <4>2, SessionRead
                <5>2. k \in DOMAIN sessions /\ sessions[k] \in Session /\ Asking(r)
                    BY <2>2, <4>2, SessionRead
                <5>3. PageOf(k, s) = PageOf(k, sessions[k]) /\ s.csrf = sessions[k].csrf
                    BY <5>1, <5>2 DEF PageOf, Session
                <5>4. Seen(PageOf(k, s))
                    BY <5>2, <5>3 DEF Seen
                <5> DEFINE x == ReadBy(r, phase, s)
                <5>5. x.at = phase /\ x.token = k /\ x.page = q.page /\ x.session = s
                    BY DEF ReadBy
                <5> HIDE DEF x
                <5>6. CarriedBy(x)
                    BY <2>0, <5>2, <5>4, <5>5 DEF CarriedBy
                <5>7. phase # "drop" => CsrfMatches(x, x.session)
                    BY <5>1, <5>3, <5>5 DEF CsrfMatches
                <5> QED
                    BY <5>1, <5>5, <5>6, <5>7, CarrierReplaced DEF x
            <4> QED
                BY <4>1, <4>2
        <3>2. DOMAIN made' = DOMAIN made
            BY <2>2, MadeRead
        <3> QED
            BY <2>2, <3>1, <3>2 DEF GetSession
    <2>3. CASE Drop(r)
        <3>1. \A y \in Browsers : browser'[y].pages = browser[y].pages
            BY <2>3 DEF Drop, Types, BrowserTypes
        <3> QED
            BY <2>3, <3>1, <1>0, TableRemoved, PagesStay DEF Drop
    <2>4. CASE Touch(r)
        <3>1. TableFrom({})
            <4> DEFINE n == IF sessions[k].active < q.session.active
                            THEN q.session.active ELSE sessions[k].active
                       z == [sessions[k] EXCEPT !.active = n]
            <4>1. CASE sessions' = sessions
                BY <4>1
            <4>2. CASE k \in DOMAIN sessions /\ sessions' = [sessions EXCEPT ![k] = z]
                <5>1. sessions[k] \in Session
                    BY <4>2 DEF Types, SessionTypes
                <5>2. PageOf(k, z) = PageOf(k, sessions[k])
                    BY <5>1 DEF PageOf, Session
                <5> HIDE DEF z
                <5>3. \A t \in DOMAIN sessions' :
                         t \in DOMAIN sessions /\ sessions'[t] = IF t = k THEN z ELSE sessions[t]
                    BY <4>2
                <5> QED
                    BY <5>2, <5>3 DEF TableFrom
            <4> QED
                BY <2>4, <4>1, <4>2 DEF Touch, Touched
        <3> QED
            BY <2>1, <2>4, <3>1 DEF Touch
    <2>5. CASE View(r)
        <3>1. q \in Visit /\ q.by \in Browsers /\ Seen(PageOf(k, q.session))
            BY <2>0, <2>5 DEF View, At, Visit
        <3>2. PICK kept \in SUBSET browser[q.by].pages :
                 browser' = [browser EXCEPT ![q.by].pages = kept \cup {PageOf(k, q.session)}]
            BY <2>5 DEF View
        <3>3. ASSUME NEW b \in Browsers, NEW v \in browser'[b].pages PROVE Seen(v)
            <4>1. v \in browser[b].pages \/ v = PageOf(k, q.session)
                BY <3>1, <3>2 DEF Types, BrowserTypes
            <4> QED
                BY <3>1, <4>1 DEF Seen
        <3>4. BrowsersFrom
            BY <3>3 DEF BrowsersFrom
        <3> QED
            BY <2>5, <3>4, <1>0 DEF View
    <2>6. CASE Save(r)
        <3>1. q \in Visit /\ q.page \in Page /\ Seen(q.page) /\ Seen(PageOf(k, q.session))
              /\ CsrfMatches(q, q.session)
            <4>1. Held(q) /\ q.kind \in Posts /\ q.at = "handle"
                BY <2>6 DEF Save, At, Posts, Types, RequestTypes
            <4> QED
                BY <2>0, <4>1, NoPageAssumption DEF Held
        <3> DEFINE v == PageOf(k, q.session)
        <3>2. /\ v \in Page /\ v.token = k /\ v.csrf = q.session.csrf
              /\ v.user = q.session.user /\ v.context = q.session.context
            BY <3>1 DEF Visit, Session, PageOf, Page
        <3> HIDE DEF v
        <3>3. q.page.token = k /\ q.page.csrf = q.session.csrf
            BY <3>1, NoPageAssumption DEF CsrfMatches
        <3>4. q.page = v
            BY <3>1, <3>2, <3>3 DEF Pages, v
        <3>5. saved' = [page |-> q.page, user |-> q.session.user, context |-> q.session.context]
            BY <2>6 DEF Save, StoreContext
        <3>6. SavesLandWhereRendered'
            BY <3>2, <3>4, <3>5 DEF SavesLandWhereRendered
        <3>7. \A t \in DOMAIN sessions : sessions[t].csrf \in Nat
            BY DEF Types, SessionTypes, Session
        <3>8. TableFrom({}) /\ BrowsersFrom /\ RequestsFrom /\ AdmittedKept
              /\ UNCHANGED <<made, sessions>>
            BY <2>6, <1>0 DEF Save
        <3> QED
            BY <3>6, <3>7, <3>8, PagesFrom
    <2>7. CASE Switch(r)
        <3> DEFINE z == [sessions[k] EXCEPT !.context = q.target, !.csrf = @ + 1]
                   v == PageOf(k, z)
        <3>1. /\ sessions' = [sessions EXCEPT ![k] = z] /\ k \in DOMAIN sessions
              /\ UNCHANGED <<made, browser, saved>> /\ Answer(r)
            BY <2>7 DEF Switch, SetContext
        <3>2. sessions[k] \in Session /\ k \in DOMAIN made /\ k \in Nat
            BY <3>1 DEF Types, SessionTypes
        <3>3. z.csrf = sessions[k].csrf + 1 /\ sessions[k].csrf \in Nat
            BY <3>2 DEF Session
        <3> HIDE DEF z
        <3>4. /\ DOMAIN sessions' = DOMAIN sessions /\ sessions'[k] = z
              /\ \A t \in DOMAIN sessions \ {k} : sessions'[t] = sessions[t]
            BY <3>1
        <3>5. z \in Session
            BY <3>1, <3>4 DEF Types, SessionTypes
        <3>6. v \in Page /\ v.token = k /\ v.csrf = z.csrf
            BY <3>2, <3>5 DEF PageOf, Page, Session
        <3>7. TableFrom({v})
            BY <3>4 DEF TableFrom
        <3> HIDE DEF v
        <3>8. \A w \in Page, y \in {v} : Seen(w) => w.token # y.token \/ w.csrf < y.csrf
            <4>1. \A w \in Page : w.csrf \in Nat
                BY DEF Page
            <4> QED
                BY <3>1, <3>3, <3>6, <4>1 DEF Pages
        <3>9. \A t \in DOMAIN sessions' : t \in DOMAIN sessions /\ sessions[t].csrf <= sessions'[t].csrf
            <4>1. \A t \in DOMAIN sessions : sessions[t].csrf \in Nat
                BY DEF Types, SessionTypes, Session
            <4> QED
                BY <3>3, <3>4, <4>1
        <3>10. \A y \in {v} : y.token \in DOMAIN made' /\ y.csrf <= sessions'[y.token].csrf
            BY <3>1, <3>2, <3>3, <3>4, <3>6
        <3>11. SavesLandWhereRendered'
            BY <3>1 DEF Pages, SavesLandWhereRendered
        <3>12. BrowsersFrom /\ RequestsFrom /\ AdmittedKept /\ DOMAIN made \subseteq DOMAIN made'
            BY <3>1, <1>0
        <3>13. {v} \in SUBSET Page /\ \A w, y \in {v} : w = y
            BY <3>6
        <3> QED
            BY <3>7, <3>8, <3>9, <3>10, <3>11, <3>12, <3>13, PagesFrom
    <2>8. CASE Logout(r)
        BY <2>8, <2>1, TableRemoved DEF Logout, At
    <2>9. CASE AnswerLogout(r)
        <3>1. \A y \in Browsers : browser'[y].pages = browser[y].pages
            BY <2>9 DEF AnswerLogout, Types, BrowserTypes
        <3> QED
            BY <2>9, <3>1, <1>0, PagesStay DEF AnswerLogout
    <2> QED
        BY <1>7, <2>2, <2>3, <2>4, <2>5, <2>6, <2>7, <2>8, <2>9 DEF VisitStep
<1>8. ASSUME NEW r \in Requests, Fail(r) PROVE Pages'
    BY <1>8, <1>0 DEF Fail
<1>9. CASE Sweep
    BY <1>9, TableRemoved DEF Sweep
<1>10. CASE Tick \/ UNCHANGED vars
    BY <1>10 DEF Tick, vars
<1> QED
    BY <1>1, <1>2, <1>3, <1>4, <1>5, <1>6, <1>7, <1>8, <1>9, <1>10 DEF Next

LEMMA InitPages == Init => Pages
<1> SUFFICES ASSUME Init PROVE Pages
    OBVIOUS
<1>0. Types
    BY InitTypes
<1>1. DOMAIN sessions = DOMAIN made
    BY DEF Init
<1>2. \A r \in Requests : ~Carries(r) /\ ~Visiting(r) /\ ~Admitted(r)
    BY DEF Init, Carries, Asking, Visiting, Admitted, AdmittedPlaces, VisitPlaces, Ready
<1>3. ASSUME NEW b \in Browsers, NEW v \in browser[b].pages
      PROVE  \E t \in DOMAIN sessions : v = PageOf(t, sessions[t])
    BY DEF Init
<1>4. \A v \in Page : Seen(v) => v.token \in DOMAIN sessions /\ v = PageOf(v.token, sessions[v.token])
    BY <1>2, <1>3 DEF Seen, PageOf
<1>5. \A t \in DOMAIN sessions : sessions[t].csrf \in Nat
    BY <1>0 DEF Types, SessionTypes, Session
<1>6. \A v \in Page : Seen(v) => v.csrf <= sessions[v.token].csrf
    BY <1>4, <1>5 DEF PageOf
<1>7. SavesLandWhereRendered
    BY DEF Init, SavesLandWhereRendered
<1> QED
    BY <1>1, <1>2, <1>4, <1>6, <1>7 DEF Pages

-----------------------------------------------------------------------------
(* The whole invariant, and what it means.                                  *)

SessionsInv == Types /\ Origins /\ Once /\ KeysInOrder /\ Clock /\ Pages

LEMMA SessionsInductive == Spec => []SessionsInv
<1>1. Init => SessionsInv
    BY InitTypes, InitOrigins, InitOnce, InitKeys, InitClock, InitPages DEF SessionsInv
<1>2. SessionsInv /\ [Next]_vars => SessionsInv'
    BY StepTypes, StepOrigins, StepOnce, StepKeys, StepClock, StepPages DEF SessionsInv
<1> QED
    BY <1>1, <1>2, PTL DEF Spec

(* Sessions, cookies, challenges and requests in flight keep their types,   *)
(* however requests of all browsers and instances interleave.               *)
THEOREM TypeCorrect == Spec => []TypeOK
<1>1. SessionsInv => TypeOK
    BY TypesSuffice DEF SessionsInv
<1> QED
    BY <1>1, SessionsInductive, PTL

(* A form is saved for the user and in the context its page showed: a CSRF  *)
(* token stands for one of each (enforce_csrf with the rotation of          *)
(* set_election), and a request uses the session it read throughout.        *)
THEOREM SavedAsShown == Spec => []SavesLandWhereRendered
<1>1. SessionsInv => SavesLandWhereRendered
    BY DEF SessionsInv, Pages
<1> QED
    BY <1>1, SessionsInductive, PTL

(* A session is alive only within the idle timeout of a request its user    *)
(* made: neither the table nor a request in flight knows of a later use.    *)
THEOREM IdleExpire == Spec => []IdleSessionsExpire
<1>1. SessionsInv => IdleSessionsExpire
    <2> SUFFICES ASSUME SessionsInv, NEW t \in DOMAIN sessions, Alive(t)
                 PROVE  now < made[t].used + Idle
        BY DEF IdleSessionsExpire
    <2>1. /\ sessions[t] \in Session /\ sessions[t].active <= made[t].used
          /\ t \in DOMAIN made /\ now \in Nat
        BY DEF SessionsInv, Types, SessionTypes, TimeTypes, Clock
    <2>2. sessions[t].active \in Nat /\ made[t].used \in Nat
        BY <2>1, UsedIsTime DEF Session, SessionsInv, Types, SessionTypes
    <2>3. ~(sessions[t].active + Idle <= now)
        BY DEF Alive, Expired
    <2> QED
        BY <2>1, <2>2, <2>3, ConstantsAssumption
<1> QED
    BY <1>1, SessionsInductive, PTL

(* An answer or a signed challenge leads to one session at most, and the    *)
(* counters of the logins with one key for one election go up:              *)
(* consume_if_pending takes an id once, and record_security_key_login looks *)
(* at the counter again in the step that records it.                        *)
THEOREM LoginsOnce == Spec => []LoginsCountOnce
<1>1. SessionsInv => LoginsCountOnce
    BY DEF SessionsInv, Once, KeysInOrder, LoginsCountOnce
<1> QED
    BY <1>1, SessionsInductive, PTL

(* A browser gets a session only from a flow it started itself, and for the *)
(* user who identified in that flow.                                        *)
THEOREM LoginsOwn == Spec => []LoginsAreOwn
<1>1. SessionsInv => LoginsAreOwn
    BY DEF SessionsInv, Origins, MadeFrom, LoginsAreOwn
<1> QED
    BY <1>1, SessionsInductive, PTL

(* A session that was removed never comes back: a step adds a row only for  *)
(* the login it inserts, under a token that no session had.                 *)
THEOREM RemovedForGood == Spec => RemovedStaysRemoved
<1> DEFINE OnlyNew == \A t \in DOMAIN sessions' : t \in DOMAIN sessions \/ t \notin DOMAIN made
<1>1. SessionsInv /\ [Next]_vars => [OnlyNew]_vars
    <2> SUFFICES ASSUME Types, Next PROVE OnlyNew
        BY DEF SessionsInv
    <2>0. CASE UNCHANGED sessions
        BY <2>0
    <2>1. ASSUME NEW r \in Requests, LoginStep(r) PROVE OnlyNew
        <3>1. CASE Insert(r)
            <4>1. DOMAIN sessions' \subseteq DOMAIN sessions \cup {Len(made) + 1}
                BY <3>1 DEF Insert, With
            <4>2. Len(made) + 1 \notin DOMAIN made
                BY DomainsOfSeqs
            <4> QED
                BY <4>1, <4>2
        <3>2. CASE EndSession(r) \/ RemoveOld(r) \/ RemoveOthers(r)
            BY <3>2, SMTT(40) DEF EndSession, RemoveOld, RemoveOthers, Without
        <3>3. CASE \/ Consume(r) \/ Resolve(r) \/ RecordGroupLogin(r) \/ RecordKeyLogin(r)
                   \/ EstablishFails(r)
            BY <2>0, <3>3 DEF Consume, Resolve, RecordGroupLogin, RecordKeyLogin, EstablishFails
        <3> QED
            BY <2>1, <3>1, <3>2, <3>3 DEF LoginStep
    <2>2. ASSUME NEW r \in Requests, VisitStep(r) PROVE OnlyNew
        <3>1. CASE Drop(r) \/ Logout(r)
            BY <3>1 DEF Drop, Logout, Without
        <3>2. CASE Touch(r)
            BY <3>2 DEF Touch, Touched
        <3>3. CASE Switch(r)
            BY <3>3 DEF Switch, SetContext
        <3>4. CASE GetSession(r) \/ View(r) \/ Save(r) \/ AnswerLogout(r)
            BY <2>0, <3>4 DEF GetSession, View, Save, AnswerLogout
        <3> QED
            BY <2>2, <3>1, <3>2, <3>3, <3>4 DEF VisitStep
    <2>3. ASSUME NEW b, NEW r, NEW a, NEW m, NEW e, NEW n, NEW kind, NEW page,
                 \/ StartLogin(b) \/ OpenLoginPage(b) \/ Callback(r, b, a)
                 \/ FinishCeremony(r, b, m, e, n) \/ Send(r, b, kind, page, a)
          PROVE  OnlyNew
        BY <2>0, <2>3 DEF StartLogin, OpenLoginPage, Callback, FinishCeremony, Send
    <2>4. ASSUME NEW id, Identify(id) \/ HandleSls(id) PROVE OnlyNew
        BY <2>0, <2>4 DEF Identify, HandleSls
    <2>5. ASSUME NEW r, Fail(r) PROVE OnlyNew
        BY <2>0, <2>5 DEF Fail
    <2>6. CASE Sweep
        BY <2>6 DEF Sweep, Without
    <2>7. CASE Tick
        BY <2>0, <2>7 DEF Tick
    <2> HIDE DEF OnlyNew
    <2> QED
        BY <2>1, <2>2, <2>3, <2>4, <2>5, <2>6, <2>7 DEF Next
<1>2. SessionsInv /\ [Next]_vars => [\A t \in DOMAIN sessions' :
                                        t \in DOMAIN sessions \/ t \notin DOMAIN made]_vars
    BY <1>1
<1> QED
    BY <1>2, SessionsInductive, PTL DEF Spec, RemovedStaysRemoved

=============================================================================
