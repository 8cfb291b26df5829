------------------------------ MODULE Metadata ------------------------------
(***************************************************************************)
(* The descriptor of the identity provider (RD) that a process verifies    *)
(* logins with: load_at_startup and metadata_refresh_loop of               *)
(* auth-service/src/state/metadata_refresh.rs, and the fetching, caching   *)
(* and trust lifetime of auth-service/src/saml/idp_metadata.rs.            *)
(*                                                                         *)
(* Time is counted in steps of METADATA_RECOVERY_RETRY_INTERVAL.  No clock *)
(* is kept: what was retrieved has an age, a document with a validUntil    *)
(* has so much time left, and a sleeping task has so long to wait.  A task *)
(* whose wait is over runs before time goes on.                            *)
(***************************************************************************)
EXTENDS Tasks, Integers

CONSTANTS Keys,          \* the signing keys of the RD
          Offers,        \* the cacheDuration and the validity of its documents
          MinInterval,   \* MIN_METADATA_REFRESH_INTERVAL
          MaxInterval,   \* MAX_METADATA_REFRESH_INTERVAL
          MinAge,        \* MIN_CACHE_AGE
          DefaultAge,    \* DEFAULT_CACHE_AGE
          MaxAge,        \* MAX_CACHE_AGE
          Skew           \* CLOCK_SKEW_SECONDS

VARIABLES
    published,   \* the document at the metadata URL
    reachable,   \* the RD answers
    loaded,      \* Inner.rd_metadata
    cached,      \* the file in certs_dir that a restart may read
    refresh,     \* the task's place, its attempts so far, and its wait
    steady,      \* history: how long the RD could have been asked, at most Long
    retired      \* history: how long each key has not been published, at most Long

metadataVars == <<published, reachable, loaded, cached, refresh, steady, retired>>

NoDocument == [key |-> "none"]
Never == MaxAge + 1                \* the time left without a validUntil
Unset == -1                        \* no cacheDuration,
Unread == -2                       \* or one that parse_xs_duration cannot read
Long == MaxAge + 2
Attempts == 3                      \* STARTUP_FETCH_ATTEMPTS
Retry == 1                         \* METADATA_RECOVERY_RETRY_INTERVAL

(* A validity of more than MaxAge need not be told from one of MaxAge: no   *)
(* document is trusted for longer, and the RD may publish it anew.          *)
ASSUME MetadataAssumption ==
    /\ {MinInterval, MaxInterval, MinAge, DefaultAge, MaxAge, Skew} \subseteq Nat
    /\ MinAge <= MaxAge
    /\ Offers \subseteq [cache : Nat \cup {Unset, Unread}, left : Int]
    /\ \A o \in Offers : o.left <= Never

Least(a, b) == IF a < b THEN a ELSE b
Most(a, b) == IF a < b THEN b ELSE a
Clamp(x, low, high) == Most(low, Least(x, high))

Document(k, o) == [key |-> k, cache |-> o.cache, left |-> o.left, age |-> 0]

MetadataInit ==
    /\ \E k \in Keys, o \in Offers : published = Document(k, o)
    /\ reachable \in BOOLEAN
    /\ loaded = NoDocument
    /\ cached = NoDocument
    /\ refresh = [pc |-> IF "refresh" \in jobs THEN "down" ELSE "off", tried |-> 0, wait |-> 0]
    /\ steady = 0
    /\ retired = [k \in Keys |-> IF k = published.key THEN 0 ELSE Long]

-----------------------------------------------------------------------------
(* IdpMetadata.cache_duration, with what stands in for None.                *)
HintOr(d, x) == IF d.cache \in {Unset, Unread} THEN x ELSE d.cache

(* trust_deadline, as the time that is left until then.                     *)
TrustLeft(d) ==
    LET lifetime == Clamp(HintOr(d, DefaultAge), MinAge, MaxAge)
    IN  IF d.left = Never THEN lifetime - d.age ELSE Least(d.left + Skew, lifetime - d.age)

IsExpired(d) == TrustLeft(d) < 0

(* AuthServiceState::rd_metadata: what the handlers may use.                *)
Usable == loaded # NoDocument /\ ~IsExpired(loaded)

(* check_metadata_expiry of a document that parses and verifies: without a  *)
(* validUntil there has to be a cacheDuration, readable or not.             *)
Acceptable(d) ==
    IF d.left = Never THEN d.cache # Unset ELSE d.left + Skew >= 0

(* Mutant: the wait does not heed the deadline.                             *)
NextRefreshByHint(d) ==
    Most(Clamp(HintOr(d, MaxInterval), MinInterval, MaxInterval), Retry)

(* next_refresh_interval.                                                   *)
NextRefreshInterval(d) ==
    LET hint == Clamp(HintOr(d, MaxInterval), MinInterval, MaxInterval)
    IN  Most(Least(hint, Most(TrustLeft(d), 0) \div 2), Retry)

(* How long metadata_refresh_loop sleeps.                                   *)
Delay(d) == IF d = NoDocument \/ IsExpired(d) THEN Retry ELSE NextRefreshInterval(d)

Sleep(d) == refresh' = [pc |-> "asleep", tried |-> 0, wait |-> Delay(d)]

-----------------------------------------------------------------------------
(* fetch_and_cache_idp_metadata.                                            *)

Fetchable == reachable /\ Acceptable(published)

Fetching == refresh.pc = "starting" \/ (refresh.pc = "asleep" /\ refresh.wait = 0)

(* The document is verified, written to the file, which may fail before or  *)
(* after the old content is gone, and swapped in.                           *)
FetchSucceeds ==
    /\ Fetching /\ Fetchable
    /\ loaded' = [published EXCEPT !.age = 0]
    /\ cached' \in {[published EXCEPT !.age = 0], cached, NoDocument}
    /\ Sleep([published EXCEPT !.age = 0])
    /\ UNCHANGED <<published, reachable, steady, retired>>

(* refresh_rd_metadata keeps what it had.                                   *)
RefreshFails ==
    /\ Fetching /\ ~Fetchable
    /\ refresh.pc = "asleep"
    /\ Sleep(loaded)
    /\ UNCHANGED <<published, reachable, loaded, cached, steady, retired>>

(* fetch_rd_metadata_with_retries.                                          *)
StartupFetchFails ==
    /\ Fetching /\ ~Fetchable
    /\ refresh.pc = "starting"
    /\ refresh' = [refresh EXCEPT !.tried = @ + 1,
                                  !.pc = IF refresh.tried + 1 = Attempts THEN "fallback" ELSE @]
    /\ UNCHANGED <<published, reachable, loaded, cached, steady, retired>>

(* Mutant: the descriptor counts as obtained when it is read.               *)
LoadCachedAsNew ==
    /\ refresh.pc = "fallback"
    /\ LET usable == cached # NoDocument /\ Acceptable(cached)
           d == IF usable THEN [cached EXCEPT !.age = 0] ELSE NoDocument
       IN  loaded' = d /\ Sleep(d)
    /\ UNCHANGED <<published, reachable, cached, steady, retired>>

(* load_cached_idp_metadata: retrieved when the file was written.           *)
LoadCached ==
    /\ refresh.pc = "fallback"
    /\ LET usable == cached # NoDocument /\ Acceptable(cached) /\ ~IsExpired(cached)
           d == IF usable THEN cached ELSE NoDocument
       IN  loaded' = d /\ Sleep(d)
    /\ UNCHANGED <<published, reachable, cached, steady, retired>>

Boots ==
    /\ refresh.pc = "down"
    /\ refresh' = [refresh EXCEPT !.pc = "starting", !.tried = 0]
    /\ UNCHANGED <<published, reachable, loaded, cached, steady, retired>>

-----------------------------------------------------------------------------
(* The environment.                                                         *)

Halts ==
    /\ refresh.pc \notin {"off", "down"}
    /\ loaded' = NoDocument
    /\ refresh' = [pc |-> "down", tried |-> 0, wait |-> 0]
    /\ steady' = 0
    /\ UNCHANGED <<published, reachable, cached, retired>>

RdPublishes ==
    /\ refresh.pc # "off"
    /\ \E k \in Keys, o \in Offers :
         /\ published' = Document(k, o)
         /\ retired' = [retired EXCEPT ![k] = 0]
         /\ steady' = IF Acceptable(published') THEN steady ELSE 0
    /\ UNCHANGED <<reachable, loaded, cached, refresh>>

RdComesOrGoes ==
    /\ refresh.pc # "off"
    /\ reachable' = ~reachable
    /\ steady' = 0
    /\ UNCHANGED <<published, loaded, cached, refresh, retired>>

Older(d) == [d EXCEPT !.age = @ + 1, !.left = IF @ = Never THEN @ ELSE @ - 1]

(* No more is remembered of a document than that it expired.                *)
Aged(d) ==
    IF d = NoDocument THEN d
    ELSE IF IsExpired(Older(d))
         THEN [key |-> d.key, cache |-> Unset, left |-> -(Skew + 1), age |-> Long]
         ELSE Older(d)

TimePasses ==
    /\ \/ refresh.pc = "down"
       \/ refresh.pc = "asleep" /\ refresh.wait > 0
    /\ published' = [published EXCEPT !.left = IF @ = Never THEN @ ELSE Most(@ - 1, -(Skew + 1))]
    /\ loaded' = Aged(loaded)
    /\ cached' = Aged(cached)
    /\ refresh' = [refresh EXCEPT !.wait = Most(@ - 1, 0)]
    /\ steady' = IF reachable /\ refresh.pc # "down" /\ Acceptable(published')
                 THEN Least(steady + 1, Long) ELSE 0
    /\ retired' = [k \in Keys |-> IF k = published.key THEN 0 ELSE Least(retired[k] + 1, Long)]
    /\ UNCHANGED reachable

MetadataNext ==
    \/ FetchSucceeds \/ RefreshFails \/ StartupFetchFails \/ LoadCached \/ Boots
    \/ Halts \/ RdPublishes \/ RdComesOrGoes \/ TimePasses

-----------------------------------------------------------------------------
(* Properties.                                                              *)

(* A key that the RD no longer publishes is trusted for MAX_CACHE_AGE at    *)
(* most, even when every refresh since has failed, and across restarts that *)
(* read it from disk (trust_deadline, load_cached_idp_metadata).            *)
RetiredKeysExpire == Usable => retired[loaded.key] <= MaxAge

(* A process has a descriptor to verify with unless the RD could not be     *)
(* asked until just now: refreshes come before the deadline of what is      *)
(* loaded, and soon after one that failed (next_refresh_interval).          *)
AvailableWhileReachable ==
    refresh.pc = "asleep" /\ refresh.wait > 0 /\ steady > Retry => Usable

=============================================================================
