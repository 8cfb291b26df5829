-------------------------- MODULE BackgroundProofs --------------------------
(***************************************************************************)
(* Proofs about the background tasks of Background, for any instances,     *)
(* requests, tables, keys, offers and times.  Each task has an inductive   *)
(* invariant over its own variables; the others leave those alone.         *)
(***************************************************************************)
EXTENDS Background, TLAPS

-----------------------------------------------------------------------------
(* The prober.                                                              *)

ProberPlaces == {"off", "init", "migrate", "init_ddl", "ddl", "look", "verify",
                 "ready", "failed", "asleep", "backoff"}

HealthTypes ==
    /\ permit \in [Instances -> BOOLEAN]
    /\ late \in [Instances -> BOOLEAN]
    /\ prober \in [Instances -> [pc : ProberPlaces, migrated : BOOLEAN, made : Nat]]

(* A report that the look in progress may have missed keeps its permit,     *)
(* which only the prober takes, on its way to the next look.                *)
ReportIsKept ==
    \A i \in Instances : late[i] /\ prober[i].pc # "look" => permit[i]

HealthInv == HealthTypes /\ ReportIsKept

LEMMA HealthInitially == HealthInit => HealthInv
BY DEF HealthInit, HealthInv, HealthTypes, ReportIsKept, ProberPlaces

LEMMA HealthUnchanged == HealthInv /\ UNCHANGED healthVars => HealthInv'
BY DEF HealthInv, HealthTypes, ReportIsKept, healthVars

LEMMA HealthStep == HealthInv /\ HealthNext => HealthInv'
<1> SUFFICES ASSUME HealthInv, NEW i \in Instances,
                    \/ Probe(i) \/ SleepOver(i) \/ Woken(i)
                    \/ \E c \in Callers : Enter(i, c) \/ UseDatabase(i, c) \/ Report(i, c)
             PROVE  HealthInv'
    BY DEF HealthNext
<1> USE DEF HealthInv, HealthTypes, ReportIsKept, ProberPlaces, Goes
<1>1. CASE Acquire(i)
    BY <1>1, ZenonT(40) DEF Acquire
<1>2. CASE AcquireFails(i)
    BY <1>2 DEF AcquireFails
<1>3. CASE CreateTable(i)
    BY <1>3 DEF CreateTable
<1>4. CASE Migrated(i)
    BY <1>4, ZenonT(40) DEF Migrated, InDdl
<1>5. CASE Look(i)
    BY <1>5 DEF Look
<1>6. CASE Verify(i)
    BY <1>6 DEF Verify
<1>7. CASE MarkHealthy(i)
    BY <1>7 DEF MarkHealthy
<1>8. CASE FindUnavailable(i)
    BY <1>8 DEF FindUnavailable, Wake
<1>9. CASE SleepOver(i)
    BY <1>9 DEF SleepOver
<1>10. CASE Woken(i)
    BY <1>10 DEF Woken
<1>11. ASSUME NEW c \in Callers, Enter(i, c) \/ UseDatabase(i, c)
       PROVE  HealthInv'
    BY <1>11 DEF Enter, UseDatabase
<1>12. ASSUME NEW c \in Callers, Report(i, c)
       PROVE  HealthInv'
    BY <1>12 DEF Report, Wake
<1> QED
    BY <1>1, <1>2, <1>3, <1>4, <1>5, <1>6, <1>7, <1>8, <1>9, <1>10, <1>11, <1>12 DEF Probe

-----------------------------------------------------------------------------
(* The renewer.                                                             *)

Known == {Absent} \cup Pairs

RenewerPlaces == {"off", "down", "refused", "boot_key", "boot_cert", "build", "check", "sleep",
                  "order", "challenge", "ready", "poll", "finalize", "key", "cert", "reload",
                  "cleanup"}

CertificateTypes ==
    /\ disk \in [key : Known, cert : Known]
    /\ served \in Known
    /\ renewer \in [pc : RenewerPlaces, new : Known]
    /\ torn \in BOOLEAN

(* The files differ only between the two writes, or since one of these did  *)
(* not happen; what is written and served comes from NewPair.               *)
FilesAgree ==
    /\ Writing \/ At("reload") => renewer.new \in Pairs
    /\ SecondWrite => disk.key = renewer.new
    /\ disk.key # disk.cert => torn \/ SecondWrite
    /\ At("refused") => torn

CertificateInv == CertificateTypes /\ FilesAgree

(* Three of the four pairs can be in use, so one is always new.             *)
LEMMA NewPairExists == CertificateTypes => NewPair \in Pairs
<1> SUFFICES ASSUME CertificateTypes PROVE \E v \in Pairs : v \notin InUse
    BY DEF NewPair
<1>1. 1 \in Pairs /\ 2 \in Pairs /\ 3 \in Pairs /\ 4 \in Pairs
    BY DEF Pairs
<1> QED
    BY <1>1 DEF InUse

LEMMA CertificatesInitially == CertificatesInit => CertificateInv
<1> SUFFICES ASSUME CertificatesInit PROVE CertificateInv
    OBVIOUS
<1> USE DEF CertificatesInit
<1>1. CertificateTypes
    <2> USE DEF Known, Pairs, Absent, RenewerPlaces
    <2>1. disk \in [key : Known, cert : Known] /\ served \in Known
        OBVIOUS
    <2>2. renewer \in [pc : RenewerPlaces, new : Known]
        OBVIOUS
    <2> QED
        BY <2>1, <2>2 DEF CertificateTypes
<1>2. FilesAgree
    BY DEF FilesAgree, Writing, SecondWrite, At
<1> QED
    BY <1>1, <1>2 DEF CertificateInv

LEMMA CertificatesUnchanged == CertificateInv /\ UNCHANGED certificateVars => CertificateInv'
BY DEF CertificateInv, CertificateTypes, FilesAgree, certificateVars, Writing, SecondWrite, At

LEMMA CertificatesStep == CertificateInv /\ CertificatesNext => CertificateInv'
<1> SUFFICES ASSUME CertificateInv, CertificatesNext PROVE CertificateInv'
    OBVIOUS
<1> USE DEF CertificateInv, CertificateTypes, FilesAgree, Known, RenewerPlaces, Writing,
            SecondWrite, At, GoTo, Gets
<1>0. NewPair \in Pairs
    BY NewPairExists
<1>1. CASE Bootstrap
    BY <1>1, <1>0 DEF Bootstrap
<1>2. CASE WriteFile
    BY <1>2 DEF WriteFile
<1>3. CASE WriteFails
    <2>1. torn' <=> torn \/ SecondWrite
        BY <1>3 DEF WriteFails
    <2>2. /\ UNCHANGED <<disk, served>>
          /\ renewer' \in {[pc |-> "reload", new |-> renewer.new], [pc |-> "down", new |-> Absent]}
          /\ renewer'.pc = "reload" => renewer.new \in Pairs
        BY <1>3 DEF WriteFails
    <2>3. torn' \in BOOLEAN
        BY <1>3 DEF WriteFails
    <2> QED
        BY <2>1, <2>2, <2>3
<1>4. CASE BuildConfig
    BY <1>4 DEF BuildConfig, Broken, Absent, Pairs
<1>5. CASE RenewIfDue \/ PlaceOrder \/ PutChallenge \/ SetReady \/ PollReady \/ RenewFails
            \/ CleanUp \/ CheckAgain
    BY <1>5 DEF RenewIfDue, PlaceOrder, PutChallenge, SetReady, PollReady, RenewFails, CleanUp,
                CheckAgain
<1>6. CASE Finalize
    BY <1>6, <1>0 DEF Finalize
<1>7. CASE ReloadConfig
    BY <1>7 DEF ReloadConfig
<1>8. CASE Stops
    BY <1>8 DEF Stops
<1>9. CASE OthersPut \/ Ages \/ TokenExpires \/ CaChanges
    BY <1>9 DEF OthersPut, Ages, TokenExpires, CaChanges
<1> QED
    BY <1>1, <1>2, <1>3, <1>4, <1>5, <1>6, <1>7, <1>8, <1>9 DEF CertificatesNext, Renewal

-----------------------------------------------------------------------------
(* The refresh of the metadata.                                             *)

Lefts == {n \in Int : n <= Never}
Hints == Nat \cup {Unset, Unread}
Documents == [key : Keys, cache : Hints, left : Lefts, age : Nat]
RefreshPlaces == {"off", "down", "starting", "fallback", "asleep"}

MetadataTypes ==
    /\ published \in Documents
    /\ loaded \in Documents \cup {NoDocument}
    /\ cached \in Documents \cup {NoDocument}
    /\ refresh \in [pc : RefreshPlaces, tried : Nat, wait : Nat]
    /\ reachable \in BOOLEAN
    /\ steady \in Nat
    /\ retired \in [Keys -> 0 .. Long]

(* A key was published when the document with it was retrieved.             *)
NotRetiredBefore(d) == d # NoDocument => retired[d.key] <= d.age

KeysAge ==
    /\ retired[published.key] = 0
    /\ NotRetiredBefore(loaded)
    /\ NotRetiredBefore(cached)

(* A wait of more than one step ends before the trust in what is loaded.    *)
WaitsInTime ==
    /\ steady > 0 => Fetchable
    /\ refresh.pc = "fallback" => steady = 0
    /\ refresh.pc = "asleep" /\ refresh.wait > 1 => Usable /\ TrustLeft(loaded) >= refresh.wait
    /\ AvailableWhileReachable

MetadataInv == MetadataTypes /\ KeysAge /\ WaitsInTime

LEMMA NoDocumentIsNone == NoDocument \notin Documents
BY DEF NoDocument, Documents

LEMMA Constants == /\ MinInterval \in Nat /\ MaxInterval \in Nat /\ MinAge \in Nat
                   /\ DefaultAge \in Nat /\ MaxAge \in Nat /\ Skew \in Nat /\ MinAge <= MaxAge
BY MetadataAssumption

(* The time left of a document: at most MaxAge less its age, none once it   *)
(* is past its validity, and some when it was retrieved just now.           *)
LEMMA TrustFacts ==
    ASSUME NEW d \in Documents
    PROVE  /\ TrustLeft(d) \in Int
           /\ TrustLeft(d) <= MaxAge - d.age
           /\ Acceptable(d) /\ d.age = 0 => ~IsExpired(d)
           /\ d.left = -(Skew + 1) => IsExpired(d)
<1> DEFINE life == Clamp(HintOr(d, DefaultAge), MinAge, MaxAge)
<1>1. d.cache \in Hints /\ d.left \in Int /\ d.age \in Nat
    BY DEF Documents, Lefts
<1>2. life \in Nat /\ life <= MaxAge
    BY <1>1, Constants DEF Clamp, Most, Least, HintOr, Hints
<1>3. TrustLeft(d) = IF d.left = Never THEN life - d.age ELSE Least(d.left + Skew, life - d.age)
    BY DEF TrustLeft
<1> HIDE DEF life
<1>4. Acceptable(d) => d.left = Never \/ d.left + Skew >= 0
    BY DEF Acceptable
<1> QED
    BY <1>1, <1>2, <1>3, <1>4, Constants DEF IsExpired, Least, Never

(* A step of time takes one step of trust.                                  *)
LEMMA OlderFacts ==
    ASSUME NEW d \in Documents
    PROVE  /\ Older(d) \in Documents
           /\ Older(d).key = d.key /\ Older(d).age = d.age + 1
           /\ TrustLeft(Older(d)) = TrustLeft(d) - 1
<1> DEFINE o == Older(d)
           life == Clamp(HintOr(d, DefaultAge), MinAge, MaxAge)
<1>1. d.key \in Keys /\ d.cache \in Hints /\ d.left \in Int /\ d.left <= Never /\ d.age \in Nat
    BY DEF Documents, Lefts
<1>2. /\ o.key = d.key /\ o.cache = d.cache /\ o.age = d.age + 1
      /\ o.left = IF d.left = Never THEN d.left ELSE d.left - 1
    BY DEF Older, Documents
<1>3. o \in Documents
    <2>1. (IF d.left = Never THEN d.left ELSE d.left - 1) \in Lefts /\ d.age + 1 \in Nat
        BY <1>1, Constants DEF Lefts, Never
    <2> QED
        BY <2>1 DEF Older, Documents
<1>4. life \in Nat
    BY <1>1, Constants DEF Clamp, Most, Least, HintOr, Hints
<1>5. TrustLeft(d) = IF d.left = Never THEN life - d.age ELSE Least(d.left + Skew, life - d.age)
    BY DEF TrustLeft
<1>6. TrustLeft(o) = IF o.left = Never THEN life - o.age ELSE Least(o.left + Skew, life - o.age)
    BY <1>2 DEF TrustLeft, HintOr
<1> HIDE DEF o, life
<1>8. TrustLeft(o) = TrustLeft(d) - 1
    BY <1>1, <1>2, <1>4, <1>5, <1>6, Constants DEF Least, Never
<1> QED
    BY <1>2, <1>3, <1>8 DEF o

(* What is remembered of a document a step later.                           *)
LEMMA AgedFacts ==
    ASSUME NEW d \in Documents
    PROVE  /\ Aged(d) \in Documents
           /\ Aged(d).key = d.key
           /\ Aged(d).age = d.age + 1 \/ Aged(d).age = Long
           /\ TrustLeft(d) >= 1 => ~IsExpired(Aged(d)) /\ TrustLeft(Aged(d)) = TrustLeft(d) - 1
<1> DEFINE lapsed == [key |-> d.key, cache |-> Unset, left |-> -(Skew + 1), age |-> Long]
<1>1. d # NoDocument
    BY NoDocumentIsNone
<1>2. Aged(d) = IF IsExpired(Older(d)) THEN lapsed ELSE Older(d)
    BY <1>1 DEF Aged
<1>3. lapsed \in Documents /\ lapsed.key = d.key /\ lapsed.age = Long
    BY Constants DEF Documents, Lefts, Hints, Long, Never
<1>4. TrustLeft(d) \in Int
    BY TrustFacts
<1> HIDE DEF lapsed
<1> QED
    BY <1>2, <1>3, <1>4, OlderFacts DEF IsExpired

(* A wait of more than one step is no more than half of the trust.          *)
LEMMA DelayFacts ==
    ASSUME NEW d \in Documents \cup {NoDocument}
    PROVE  /\ Delay(d) \in Nat
           /\ Delay(d) > 1 => d # NoDocument /\ ~IsExpired(d) /\ TrustLeft(d) >= Delay(d)
<1>1. CASE d = NoDocument \/ IsExpired(d)
    BY <1>1 DEF Delay, Retry
<1>2. CASE d # NoDocument /\ ~IsExpired(d)
    <2> DEFINE hint == Clamp(HintOr(d, MaxInterval), MinInterval, MaxInterval)
               left == TrustLeft(d)
    <2>1. d.cache \in Hints /\ left \in Int /\ left >= 0
        BY <1>2, TrustFacts DEF Documents, IsExpired
    <2>2. hint \in Nat
        BY <2>1, Constants DEF Clamp, Most, Least, HintOr, Hints
    <2>3. Delay(d) = Most(Least(hint, Most(left, 0) \div 2), Retry)
        BY <1>2 DEF Delay, NextRefreshInterval
    <2> HIDE DEF hint, left
    <2>4. Most(left, 0) = left /\ left \div 2 \in Nat /\ left \div 2 <= left
        BY <2>1 DEF Most
    <2>5. Delay(d) \in Nat /\ (Delay(d) > 1 => left >= Delay(d))
        BY <2>1, <2>2, <2>3, <2>4 DEF Most, Least, Retry
    <2> QED
        BY <1>2, <2>5 DEF left
<1> QED
    BY <1>1, <1>2

LEMMA MetadataInitially == MetadataInit => MetadataInv
<1> SUFFICES ASSUME MetadataInit PROVE MetadataInv
    OBVIOUS
<1> USE DEF MetadataInit
<1>1. published \in Documents
    BY MetadataAssumption DEF Document, Documents, Lefts, Hints
<1>2. MetadataTypes
    BY <1>1, Constants DEF MetadataTypes, RefreshPlaces, Long
<1>3. KeysAge
    BY <1>1 DEF KeysAge, NotRetiredBefore, Documents
<1>4. WaitsInTime
    BY DEF WaitsInTime, AvailableWhileReachable, Retry
<1> QED
    BY <1>2, <1>3, <1>4 DEF MetadataInv

LEMMA MetadataUnchanged == MetadataInv /\ UNCHANGED metadataVars => MetadataInv'
BY DEF MetadataInv, MetadataTypes, KeysAge, NotRetiredBefore, WaitsInTime, Fetchable,
       AvailableWhileReachable, Usable, metadataVars

(* The step of time, in the parts that the invariant is made of.            *)
LEMMA TimeStep == MetadataInv /\ TimePasses => MetadataInv'
<1> SUFFICES ASSUME MetadataInv, TimePasses PROVE MetadataInv'
    OBVIOUS
<1>1. MetadataTypes /\ KeysAge /\ WaitsInTime
    BY DEF MetadataInv
<1>2. published.key \in Keys /\ published.cache \in Hints /\ published.left \in Int
      /\ published.left <= Never /\ published.age \in Nat
    BY <1>1 DEF MetadataTypes, Documents, Lefts
<1>3. published' \in Documents /\ published'.key = published.key
    <2>1. (IF published.left = Never THEN published.left
           ELSE Most(published.left - 1, -(Skew + 1))) \in Lefts
        BY <1>2, Constants DEF Lefts, Most, Never
    <2> QED
        BY <1>1, <2>1 DEF TimePasses, MetadataTypes, Documents
<1>4. Aged(NoDocument) = NoDocument
    BY DEF Aged
<1>5. /\ loaded' \in Documents \cup {NoDocument} /\ cached' \in Documents \cup {NoDocument}
      /\ loaded' = Aged(loaded) /\ cached' = Aged(cached)
    BY <1>1, <1>4, AgedFacts DEF TimePasses, MetadataTypes
<1>6. /\ refresh' \in [pc : RefreshPlaces, tried : Nat, wait : Nat]
      /\ refresh'.pc = refresh.pc
      /\ refresh'.wait = IF refresh.wait = 0 THEN 0 ELSE refresh.wait - 1
    BY <1>1 DEF TimePasses, MetadataTypes, Most
<1>7. steady' \in Nat /\ reachable' = reachable
    BY <1>1, Constants DEF TimePasses, MetadataTypes, Least, Long
<1>8. /\ retired' \in [Keys -> 0 .. Long]
      /\ retired'[published.key] = 0
      /\ \A k \in Keys : retired'[k] <= retired[k] + 1
    BY <1>1, <1>2, Constants DEF TimePasses, MetadataTypes, Least, Long
<1>9. MetadataTypes'
    BY <1>1, <1>3, <1>5, <1>6, <1>7, <1>8 DEF MetadataTypes
<1>10. KeysAge'
    <2>1. ASSUME NEW d \in Documents, retired[d.key] <= d.age
          PROVE  retired'[Aged(d).key] <= Aged(d).age
        <3>1. d.key \in Keys /\ d.age \in Nat
            BY DEF Documents
        <3>2. retired'[d.key] \in 0 .. Long /\ retired[d.key] \in 0 .. Long
            BY <1>1, <1>8, <3>1 DEF MetadataTypes
        <3> QED
            BY <2>1, <3>1, <3>2, <1>8, AgedFacts, Constants DEF Long
    <2>2. (loaded' # NoDocument => loaded \in Documents) /\ (cached' # NoDocument => cached \in Documents)
        BY <1>1, <1>4, <1>5 DEF MetadataTypes
    <2>3. retired'[published'.key] = 0
        BY <1>3, <1>8
    <2> QED
        BY <1>1, <1>5, <2>1, <2>2, <2>3, NoDocumentIsNone DEF KeysAge, NotRetiredBefore
<1>11. WaitsInTime'
    <2>1. steady' > 0 => Fetchable' /\ refresh.pc # "down"
        BY <1>7 DEF TimePasses, Fetchable
    <2>2. refresh'.pc # "fallback"
        BY <1>6 DEF TimePasses
    <2>3. ASSUME refresh.pc = "asleep", refresh.wait > 1
          PROVE  Usable' /\ TrustLeft(loaded') >= refresh'.wait
        <3>1. Usable /\ TrustLeft(loaded) >= refresh.wait
            BY <1>1, <2>3 DEF WaitsInTime
        <3>2. loaded \in Documents /\ loaded # NoDocument
            BY <1>1, <3>1 DEF MetadataTypes, Usable
        <3>3. TrustLeft(loaded) \in Int /\ refresh.wait \in Nat
            BY <1>1, <3>2, TrustFacts DEF MetadataTypes
        <3>4. TrustLeft(loaded) >= 1
            BY <2>3, <3>1, <3>3
        <3>5. /\ Aged(loaded) \in Documents /\ ~IsExpired(Aged(loaded))
              /\ TrustLeft(Aged(loaded)) = TrustLeft(loaded) - 1
            BY <3>2, <3>4, AgedFacts
        <3>6. Usable'
            BY <1>5, <3>5, NoDocumentIsNone DEF Usable
        <3> QED
            BY <1>5, <1>6, <2>3, <3>1, <3>3, <3>5, <3>6
    <2>4. refresh.wait \in Nat
        BY <1>1 DEF MetadataTypes
    <2> QED
        BY <1>6, <2>1, <2>2, <2>3, <2>4 DEF WaitsInTime, AvailableWhileReachable
<1> QED
    BY <1>9, <1>10, <1>11 DEF MetadataInv

(* A document that was fetched just now.                                    *)
LEMMA FetchedFacts ==
    ASSUME MetadataInv, Fetchable
    PROVE  LET d == [published EXCEPT !.age = 0]
           IN  /\ d \in Documents /\ d # NoDocument /\ d.key = published.key
               /\ ~IsExpired(d)
<1> DEFINE d == [published EXCEPT !.age = 0]
<1>1. published \in Documents
    BY DEF MetadataInv, MetadataTypes
<1>2. /\ d \in Documents /\ d.key = published.key /\ d.age = 0
      /\ d.left = published.left /\ d.cache = published.cache
    BY <1>1 DEF Documents
<1>3. Acceptable(d)
    BY <1>2 DEF Fetchable, Acceptable
<1> HIDE DEF d
<1>4. ~IsExpired(d)
    BY <1>2, <1>3, TrustFacts
<1> QED
    BY <1>2, <1>4, NoDocumentIsNone DEF d

(* Going to sleep on what is loaded then.                                   *)
LEMMA SleepFacts ==
    ASSUME NEW d \in Documents \cup {NoDocument}, Sleep(d)
    PROVE  /\ refresh' \in [pc : RefreshPlaces, tried : Nat, wait : Nat]
           /\ refresh'.pc = "asleep"
           /\ refresh'.wait > 1 => /\ d # NoDocument /\ ~IsExpired(d)
                                   /\ TrustLeft(d) >= refresh'.wait
BY DelayFacts DEF Sleep, RefreshPlaces

LEMMA MetadataStep == MetadataInv /\ MetadataNext => MetadataInv'
<1> SUFFICES ASSUME MetadataInv, MetadataNext PROVE MetadataInv'
    OBVIOUS
<1>0. MetadataTypes /\ KeysAge /\ WaitsInTime
    BY DEF MetadataInv
<1>1. CASE FetchSucceeds
    <2> DEFINE d == [published EXCEPT !.age = 0]
    <2>1. d \in Documents /\ d # NoDocument /\ d.key = published.key /\ ~IsExpired(d)
        BY <1>1, FetchedFacts DEF FetchSucceeds
    <2>2. d.age = 0 /\ retired[d.key] = 0
        BY <1>0, <2>1 DEF KeysAge, MetadataTypes, Documents
    <2>3. loaded' = d /\ cached' \in {d, cached, NoDocument} /\ Sleep(d)
          /\ UNCHANGED <<published, reachable, steady, retired>>
        BY <1>1 DEF FetchSucceeds
    <2> HIDE DEF d
    <2>4. /\ refresh' \in [pc : RefreshPlaces, tried : Nat, wait : Nat]
          /\ refresh'.pc = "asleep"
          /\ refresh'.wait > 1 => TrustLeft(d) >= refresh'.wait
        BY <2>1, <2>3, SleepFacts
    <2>5. MetadataTypes'
        BY <1>0, <2>1, <2>3, <2>4 DEF MetadataTypes
    <2>6. KeysAge'
        BY <1>0, <2>2, <2>3 DEF KeysAge, NotRetiredBefore
    <2>7. Usable'
        BY <2>1, <2>3 DEF Usable
    <2>8. WaitsInTime'
        BY <1>0, <2>3, <2>4, <2>7 DEF WaitsInTime, Fetchable, AvailableWhileReachable
    <2> QED
        BY <2>5, <2>6, <2>8 DEF MetadataInv
<1>2. CASE RefreshFails
    <2>1. Sleep(loaded) /\ UNCHANGED <<published, reachable, loaded, cached, steady, retired>>
          /\ ~Fetchable
        BY <1>2 DEF RefreshFails
    <2>2. steady = 0
        BY <1>0, <2>1 DEF WaitsInTime, MetadataTypes
    <2>3. loaded \in Documents \cup {NoDocument}
        BY <1>0 DEF MetadataTypes
    <2>4. /\ refresh' \in [pc : RefreshPlaces, tried : Nat, wait : Nat]
          /\ refresh'.pc = "asleep"
          /\ refresh'.wait > 1 => Usable /\ TrustLeft(loaded) >= refresh'.wait
        BY <2>1, <2>3, SleepFacts DEF Usable
    <2>5. MetadataTypes' /\ KeysAge'
        BY <1>0, <2>1, <2>4 DEF MetadataTypes, KeysAge, NotRetiredBefore
    <2>6. WaitsInTime'
        BY <2>1, <2>2, <2>4 DEF WaitsInTime, AvailableWhileReachable, Usable, Retry
    <2> QED
        BY <2>5, <2>6 DEF MetadataInv
<1>3. CASE StartupFetchFails
    <2>1. ~Fetchable /\ UNCHANGED <<published, reachable, loaded, cached, steady, retired>>
        BY <1>3 DEF StartupFetchFails
    <2>2. steady = 0
        BY <1>0, <2>1 DEF WaitsInTime, MetadataTypes
    <2>3. /\ refresh' \in [pc : RefreshPlaces, tried : Nat, wait : Nat]
          /\ refresh'.pc # "asleep"
        <3> DEFINE pc == IF refresh.tried + 1 = Attempts THEN "fallback" ELSE "starting"
        <3>1. refresh' = [refresh EXCEPT !.tried = refresh.tried + 1, !.pc = pc]
            BY <1>3 DEF StartupFetchFails
        <3>2. refresh \in [pc : RefreshPlaces, tried : Nat, wait : Nat] /\ refresh.tried + 1 \in Nat
            BY <1>0 DEF MetadataTypes
        <3>3. pc \in RefreshPlaces /\ pc # "asleep"
            BY DEF RefreshPlaces
        <3> HIDE DEF pc
        <3> QED
            BY <3>1, <3>2, <3>3
    <2>4. MetadataTypes' /\ KeysAge'
        BY <1>0, <2>1, <2>3 DEF MetadataTypes, KeysAge, NotRetiredBefore
    <2>5. WaitsInTime'
        BY <2>1, <2>2, <2>3 DEF WaitsInTime, AvailableWhileReachable, Retry
    <2> QED
        BY <2>4, <2>5 DEF MetadataInv
<1>4. CASE LoadCached
    <2>1. PICK d \in {cached, NoDocument} : loaded' = d /\ Sleep(d)
        BY <1>4 DEF LoadCached
    <2>2. UNCHANGED <<published, reachable, cached, steady, retired>> /\ steady = 0
        BY <1>0, <1>4 DEF LoadCached, WaitsInTime
    <2>3. d \in Documents \cup {NoDocument}
        BY <1>0 DEF MetadataTypes
    <2>4. /\ refresh' \in [pc : RefreshPlaces, tried : Nat, wait : Nat]
          /\ refresh'.pc = "asleep"
          /\ refresh'.wait > 1 => Usable' /\ TrustLeft(loaded') >= refresh'.wait
        BY <2>1, <2>3, SleepFacts DEF Usable
    <2>5. MetadataTypes' /\ KeysAge'
        BY <1>0, <2>1, <2>2, <2>3, <2>4 DEF MetadataTypes, KeysAge, NotRetiredBefore
    <2>6. WaitsInTime'
        BY <2>2, <2>4 DEF WaitsInTime, AvailableWhileReachable, Retry
    <2> QED
        BY <2>5, <2>6 DEF MetadataInv
<1>5. CASE Boots
    <2>1. /\ refresh' \in [pc : RefreshPlaces, tried : Nat, wait : Nat]
          /\ refresh'.pc = "starting"
          /\ UNCHANGED <<published, reachable, loaded, cached, steady, retired>>
        BY <1>0, <1>5 DEF Boots, MetadataTypes, RefreshPlaces
    <2> QED
        BY <1>0, <2>1 DEF MetadataInv, MetadataTypes, KeysAge, NotRetiredBefore, WaitsInTime,
                          Fetchable, AvailableWhileReachable
<1>6. CASE Halts
    <2>1. /\ refresh' \in [pc : RefreshPlaces, tried : Nat, wait : Nat]
          /\ refresh'.pc = "down" /\ loaded' = NoDocument /\ steady' = 0
          /\ UNCHANGED <<published, reachable, cached, retired>>
        BY <1>6 DEF Halts, RefreshPlaces
    <2> QED
        BY <1>0, <2>1 DEF MetadataInv, MetadataTypes, KeysAge, NotRetiredBefore, WaitsInTime,
                          AvailableWhileReachable
<1>7. CASE RdPublishes
    <2>1. PICK k \in Keys, o \in Offers :
              /\ published' = Document(k, o)
              /\ retired' = [retired EXCEPT ![k] = 0]
              /\ steady' = IF Acceptable(published') THEN steady ELSE 0
        BY <1>7 DEF RdPublishes
    <2>2. UNCHANGED <<reachable, loaded, cached, refresh>>
        BY <1>7 DEF RdPublishes
    <2>3. published' \in Documents /\ published'.key = k
        BY <2>1, MetadataAssumption DEF Document, Documents, Lefts, Hints
    <2>4. /\ retired' \in [Keys -> 0 .. Long] /\ retired'[k] = 0
          /\ \A x \in Keys : retired'[x] <= retired[x]
        BY <1>0, <2>1, Constants DEF MetadataTypes, Long
    <2>5. MetadataTypes'
        BY <1>0, <2>1, <2>2, <2>3, <2>4 DEF MetadataTypes
    <2>6. KeysAge'
        <3>1. ASSUME NEW d \in Documents, retired[d.key] <= d.age
              PROVE  retired'[d.key] <= d.age
            <4>1. d.key \in Keys /\ d.age \in Nat
                BY DEF Documents
            <4>2. retired[d.key] \in 0 .. Long /\ retired'[d.key] \in 0 .. Long
                BY <1>0, <2>4, <4>1 DEF MetadataTypes
            <4> QED
                BY <3>1, <2>4, <4>1, <4>2, Constants DEF Long
        <3> QED
            BY <1>0, <2>2, <2>3, <2>4, <3>1 DEF KeysAge, NotRetiredBefore, MetadataTypes
    <2>7. WaitsInTime'
        <3>1. (steady' = 0 \/ steady' = steady) /\ (steady' > 0 => Acceptable(published'))
            BY <2>1
        <3>2. steady' > 0 => Fetchable'
            BY <1>0, <2>2, <3>1 DEF WaitsInTime, Fetchable
        <3> QED
            BY <1>0, <2>2, <3>1, <3>2 DEF WaitsInTime, AvailableWhileReachable, Usable, Retry
    <2> QED
        BY <2>5, <2>6, <2>7 DEF MetadataInv
<1>8. CASE RdComesOrGoes
    <2>1. steady' = 0 /\ reachable' \in BOOLEAN
          /\ UNCHANGED <<published, loaded, cached, refresh, retired>>
        BY <1>8 DEF RdComesOrGoes
    <2>2. MetadataTypes' /\ KeysAge'
        BY <1>0, <2>1 DEF MetadataTypes, KeysAge, NotRetiredBefore
    <2>3. Usable' <=> Usable
        BY <2>1 DEF Usable
    <2>4. WaitsInTime'
        BY <1>0, <2>1, <2>3 DEF WaitsInTime, AvailableWhileReachable, Retry
    <2> QED
        BY <2>2, <2>4 DEF MetadataInv
<1>9. CASE TimePasses
    BY <1>9, TimeStep
<1> QED
    BY <1>1, <1>2, <1>3, <1>4, <1>5, <1>6, <1>7, <1>8, <1>9 DEF MetadataNext

-----------------------------------------------------------------------------
(* The tasks together.                                                      *)

Inv == HealthInv /\ CertificateInv /\ MetadataInv

LEMMA Inductive == Spec => []Inv
<1>1. Init => Inv
    BY HealthInitially, CertificatesInitially, MetadataInitially DEF Init, Inv
<1>2. Inv /\ [Next]_vars => Inv'
    <2> SUFFICES ASSUME Inv, [Next]_vars PROVE Inv'
        OBVIOUS
    <2> USE HealthStep, HealthUnchanged, CertificatesStep, CertificatesUnchanged,
            MetadataStep, MetadataUnchanged DEF Inv
    <2>1. CASE HealthNext /\ UNCHANGED <<db, jobs, certificateVars, metadataVars>>
        BY <2>1
    <2>2. CASE CertificatesNext /\ UNCHANGED <<db, jobs, healthVars, metadataVars>>
        BY <2>2
    <2>3. CASE MetadataNext /\ UNCHANGED <<db, jobs, healthVars, certificateVars>>
        BY <2>3
    <2>4. CASE DatabaseChanges \/ UNCHANGED vars
        BY <2>4 DEF DatabaseChanges, vars
    <2> QED
        BY <2>1, <2>2, <2>3, <2>4 DEF Next
<1> QED
    BY <1>1, <1>2, PTL DEF Spec

(* The prober never sleeps on a report that its last look may have missed,  *)
(* however many requests report at whatever moment (Notify keeps a permit). *)
THEOREM ReportsWakeTheProber == Spec => []NoReportSleptOn
<1>1. Inv => NoReportSleptOn
    BY DEF Inv, HealthInv, HealthTypes, ReportIsKept, NoReportSleptOn
<1> QED
    BY <1>1, Inductive, PTL

(* Only a stop or a failed write between the two files of a pair keeps a    *)
(* process from starting; nothing the CA delivers does, and no broken pair  *)
(* is ever served (install_certificate).                                    *)
THEOREM BrokenPairNeverInstalled == Spec => []RefusedOnlyWhenTorn
<1>1. Inv => RefusedOnlyWhenTorn
    BY DEF Inv, CertificateInv, CertificateTypes, FilesAgree, RefusedOnlyWhenTorn, Known, Pairs,
           Absent, Broken
<1> QED
    BY <1>1, Inductive, PTL

(* No retired key is trusted for longer than MAX_CACHE_AGE, whatever the    *)
(* intervals and hints are, across failed refreshes and restarts.           *)
THEOREM TrustEnds == Spec => []RetiredKeysExpire
<1>1. Inv => RetiredKeysExpire
    <2> SUFFICES ASSUME Inv, Usable PROVE retired[loaded.key] <= MaxAge
        BY DEF RetiredKeysExpire
    <2>1. loaded \in Documents /\ loaded # NoDocument /\ TrustLeft(loaded) >= 0
        BY TrustFacts DEF Inv, MetadataInv, MetadataTypes, Usable, IsExpired
    <2>2. loaded.key \in Keys /\ loaded.age \in Nat /\ loaded.age <= MaxAge
        BY <2>1, TrustFacts, Constants DEF Documents
    <2>3. retired[loaded.key] <= loaded.age /\ retired[loaded.key] \in 0 .. Long
        BY <2>1, <2>2 DEF Inv, MetadataInv, KeysAge, NotRetiredBefore, MetadataTypes
    <2> QED
        BY <2>2, <2>3, Constants DEF Long
<1> QED
    BY <1>1, Inductive, PTL

(* Whatever the intervals, hints and validities are, a process has a        *)
(* descriptor to verify with unless the RD could not be asked until just    *)
(* now (next_refresh_interval, METADATA_RECOVERY_RETRY_INTERVAL).           *)
THEOREM RefreshedInTime == Spec => []AvailableWhileReachable
<1>1. Inv => AvailableWhileReachable
    BY DEF Inv, MetadataInv, WaitsInTime
<1> QED
    BY <1>1, Inductive, PTL

=============================================================================
