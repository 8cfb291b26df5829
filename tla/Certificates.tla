---------------------------- MODULE Certificates ----------------------------
(***************************************************************************)
(* The TLS certificate of a process: bootstrap_certificate and             *)
(* start_acme_renewal, which put a placeholder on disk and load what is    *)
(* there, run_acme_renewer, which orders a new one when it is due, and the *)
(* table of challenge tokens that all processes share (src/acme).          *)
(*                                                                         *)
(* Each process has files of its own, so one process is followed and the   *)
(* others are what they do to its row of the table.  A key pair is a       *)
(* number, on disk as two files that are written one after the other, and  *)
(* is used again once nothing holds it.  Each order has its own token.     *)
(***************************************************************************)
EXTENDS Tasks

VARIABLES
    disk,      \* the pair whose key file, and the one whose cert file, is there
    served,    \* the pair of the RustlsConfig in use; Absent: not running
    due,       \* pairs whose NotAfter is less than RENEW_BEFORE_DAYS away
    renewer,   \* the task's place, and the pair that it was issued
    token,     \* the row of acme_challenges for the current order
    ca,        \* how the CA works: "up", "down", "odd" (unusable certificates)
    torn       \* history: the files were left at different pairs

certificateVars == <<disk, served, due, renewer, token, ca, torn>>

Absent == 0
Pairs == 1 .. 4
Broken == 5         \* what server_config_from_pem does not accept

At(pc) == renewer.pc = pc

GoTo(pc) == renewer' = [pc |-> pc, new |-> Absent]

CertificatesInit ==
    /\ \E p \in {Absent, 1} : disk = [key |-> p, cert |-> p]
    /\ served = Absent
    /\ due = {}
    /\ renewer = [pc |-> IF "renewer" \in jobs THEN "down" ELSE "off", new |-> Absent]
    /\ token = "none"
    /\ ca = "up"
    /\ torn = FALSE

InUse == {disk.key, disk.cert, served}

(* A key pair is generated, and a certificate made or issued for it.        *)
NewPair == CHOOSE v \in Pairs : v \notin InUse

Gets(pc, v) == renewer' = [pc |-> pc, new |-> v]

-----------------------------------------------------------------------------
(* start_acme_renewal.                                                      *)

(* bootstrap_certificate: nothing to do, or ambiguous, or the placeholder,  *)
(* which is due from the start.                                             *)
Bootstrap ==
    /\ At("down")
    /\ \/ /\ Absent \notin {disk.key, disk.cert}
          /\ GoTo("build")
          /\ UNCHANGED due
       \/ /\ disk.key = Absent /\ disk.cert = Absent
          /\ Gets("boot_key", NewPair)
          /\ due' = {NewPair}
       \/ /\ Absent \in {disk.key, disk.cert} /\ disk.key # disk.cert
          /\ GoTo("refused")
          /\ UNCHANGED due
    /\ UNCHANGED <<disk, served, token, ca, torn>>

Writing == renewer.pc \in {"boot_key", "boot_cert", "key", "cert"}
SecondWrite == renewer.pc \in {"boot_cert", "cert"}

(* write_atomic of the key and then of the certificate.                     *)
WriteFile ==
    /\ Writing
    /\ IF SecondWrite THEN disk' = [disk EXCEPT !.cert = renewer.new]
                      ELSE disk' = [disk EXCEPT !.key = renewer.new]
    /\ Gets(CASE At("boot_key") -> "boot_cert" [] At("boot_cert") -> "build"
              [] At("key") -> "cert" [] At("cert") -> "reload", renewer.new)
    /\ torn' = (torn /\ ~SecondWrite)
    /\ UNCHANGED <<served, due, token, ca>>

(* Mutant: a certificate that could not be saved is not used either.        *)
WriteFailsAndGivesUp ==
    /\ Writing
    /\ GoTo(IF renewer.pc \in {"key", "cert"} THEN "cleanup" ELSE "down")
    /\ torn' = (torn \/ SecondWrite)
    /\ UNCHANGED <<disk, served, due, token, ca>>

(* It fails: at startup the process ends, and a renewal goes on without.    *)
WriteFails ==
    /\ Writing
    /\ IF renewer.pc \in {"key", "cert"} THEN Gets("reload", renewer.new) ELSE GoTo("down")
    /\ torn' = (torn \/ SecondWrite)
    /\ UNCHANGED <<disk, served, due, token, ca>>

(* build_rustls_config accepts a certificate with its own key only.         *)
BuildConfig ==
    /\ At("build")
    /\ IF disk.key = disk.cert /\ disk.key # Broken
         THEN served' = disk.key /\ GoTo("check")
         ELSE GoTo("refused") /\ UNCHANGED served
    /\ UNCHANGED <<disk, due, token, ca, torn>>

-----------------------------------------------------------------------------
(* run_acme_renewer.                                                        *)

(* renew_if_due looks at the certificate on disk.                           *)
RenewIfDue ==
    /\ At("check")
    /\ GoTo(IF disk.cert \in due THEN "order" ELSE "sleep")
    /\ UNCHANGED <<disk, served, due, token, ca, torn>>

(* load_account and new_order; the authorization may be valid already.      *)
PlaceOrder ==
    /\ At("order")
    /\ ca # "down"
    /\ \E pc \in {"challenge", "finalize"} : GoTo(pc)
    /\ UNCHANGED <<disk, served, due, token, ca, torn>>

(* What put_challenge of any process does to a row that is not its own.     *)
Swept(row) == IF row = "stale" THEN "none" ELSE row

PutChallenge ==
    /\ At("challenge")
    /\ db
    /\ token' = "fresh"
    /\ GoTo("ready")
    /\ UNCHANGED <<disk, served, due, ca, torn>>

OthersPut ==
    /\ ~At("off")
    /\ db
    /\ token' = Swept(token)
    /\ UNCHANGED <<disk, served, due, renewer, ca, torn>>

SetReady ==
    /\ At("ready")
    /\ ca # "down"
    /\ GoTo("poll")
    /\ UNCHANGED <<disk, served, due, token, ca, torn>>

(* find_challenge, of whichever process is asked.                           *)
Servable == db /\ token = "fresh"

(* The CA asks for the token, at acme_challenge of some process, and        *)
(* poll_ready sees the order Ready.                                         *)
PollReady ==
    /\ At("poll")
    /\ ca # "down"
    /\ Servable
    /\ GoTo("finalize")
    /\ UNCHANGED <<disk, served, due, token, ca, torn>>

(* Mutant: whatever the CA delivers is installed.                           *)
FinalizeUnchecked ==
    /\ At("finalize")
    /\ ca # "down"
    /\ LET v == IF ca = "odd" THEN Broken ELSE NewPair IN
         Gets("key", v) /\ due' = (due \cap InUse) \ {v}
    /\ UNCHANGED <<disk, served, token, ca, torn>>

(* finalize and poll_certificate; install_certificate first builds the      *)
(* configuration that it will serve.                                        *)
Finalize ==
    /\ At("finalize")
    /\ ca # "down"
    /\ IF ca = "odd" THEN GoTo("cleanup") /\ UNCHANGED due
                     ELSE Gets("key", NewPair) /\ due' = due \cap InUse
    /\ UNCHANGED <<disk, served, token, ca, torn>>

(* The calls that fail, for want of the CA, of the database, or of an       *)
(* answer to the challenge.                                                 *)
RenewFails ==
    /\ \/ renewer.pc \in {"order", "ready", "poll", "finalize"} /\ ca = "down"
       \/ At("challenge") /\ ~db
       \/ At("poll") /\ ~Servable
    /\ GoTo(IF renewer.pc \in {"order", "challenge"} THEN "sleep" ELSE "cleanup")
    /\ UNCHANGED <<disk, served, due, token, ca, torn>>

ReloadConfig ==
    /\ At("reload")
    /\ served' = renewer.new
    /\ GoTo("cleanup")
    /\ UNCHANGED <<disk, due, token, ca, torn>>

(* delete_challenge, best effort, whatever came of the order.               *)
CleanUp ==
    /\ At("cleanup")
    /\ token' = IF db THEN "none" ELSE token
    /\ GoTo("sleep")
    /\ UNCHANGED <<disk, served, due, ca, torn>>

(* next_check_at, or the backoff after a failure.                           *)
CheckAgain ==
    /\ At("sleep")
    /\ GoTo("check")
    /\ UNCHANGED <<disk, served, due, token, ca, torn>>

-----------------------------------------------------------------------------
(* The environment.                                                         *)

Stops ==
    /\ renewer.pc \notin {"off", "down", "refused"}
    /\ torn' = (torn \/ SecondWrite)
    /\ served' = Absent
    /\ GoTo("down")
    /\ UNCHANGED <<disk, due, token, ca>>

(* The certificate on disk, or in use, comes within RENEW_BEFORE_DAYS.      *)
Ages ==
    /\ At("sleep")
    /\ \E v \in {disk.cert, served} \ due : due' = (due \cap InUse) \cup {v}
    /\ UNCHANGED <<disk, served, renewer, token, ca, torn>>

(* An hour passes (cutoff): longer than an order is waited for.             *)
TokenExpires ==
    /\ token = "fresh"
    /\ renewer.pc \notin {"ready", "poll"}
    /\ token' = "stale"
    /\ UNCHANGED <<disk, served, due, renewer, ca, torn>>

CaChanges ==
    /\ ~At("off")
    /\ ca' \in {"up", "down", "odd"} \ {ca}
    /\ UNCHANGED <<disk, served, due, renewer, token, torn>>

Renewal ==
    \/ Bootstrap \/ BuildConfig \/ WriteFile \/ WriteFails
    \/ RenewIfDue \/ PlaceOrder \/ PutChallenge \/ SetReady \/ PollReady \/ Finalize
    \/ RenewFails \/ ReloadConfig \/ CleanUp \/ CheckAgain

CertificatesNext ==
    \/ Renewal
    \/ OthersPut \/ Stops \/ Ages \/ TokenExpires \/ CaChanges

(* The task is scheduled, its timers expire, and its calls return.          *)
CertificatesFairness == WF_certificateVars(Renewal)

-----------------------------------------------------------------------------
(* Properties.                                                              *)

(* A process that does not start was stopped, or could not write, between   *)
(* the two files of one pair: what the CA delivers never gets it there      *)
(* (install_certificate: "a broken pair can never be installed").           *)
RefusedOnlyWhenTorn == served # Broken /\ (At("refused") => torn)

(* A process that keeps running, with a CA and a database that keep         *)
(* working, comes to serve a certificate that is not due, even if the disk  *)
(* takes no more writes (run_acme_renewer, install_certificate).            *)
DueIsReplaced ==
    (<>[](db /\ ca = "up")) => ((served \in due) ~> (served \notin due))
=============================================================================
