----------------------------- MODULE Background -----------------------------
(***************************************************************************)
(* The tasks that src/bin/eks.rs starts beside the server: the prober of   *)
(* the database, the renewer of the TLS certificate and the refresh of the *)
(* identity provider's metadata.  Each has its own state; the first two    *)
(* depend on the same database.  A behaviour follows some of them.         *)
(***************************************************************************)
EXTENDS Health, Certificates, Metadata

CONSTANTS Scenes   \* the sets of tasks to follow

vars == <<db, jobs, healthVars, certificateVars, metadataVars>>

SomeDocument == CHOOSE d \in {Document(k, o) : k \in Keys, o \in Offers} : TRUE

(* The tasks that are not followed begin, and stay, in one state.           *)
Init ==
    /\ jobs \in Scenes
    /\ db \in (IF "prober" \in jobs THEN BOOLEAN ELSE {TRUE})
    /\ HealthInit
    /\ CertificatesInit
    /\ MetadataInit
    /\ "prober" \in jobs \/ tables = Tables
    /\ "renewer" \in jobs \/ disk.key = Absent
    /\ "refresh" \in jobs \/ (~reachable /\ published = SomeDocument)

DatabaseChanges ==
    /\ jobs \cap {"prober", "renewer"} # {}
    /\ DbGoesDown \/ DbComesUp
    /\ UNCHANGED <<healthVars, certificateVars, metadataVars>>

Next ==
    \/ HealthNext /\ UNCHANGED <<db, jobs, certificateVars, metadataVars>>
    \/ CertificatesNext /\ UNCHANGED <<db, jobs, healthVars, metadataVars>>
    \/ MetadataNext /\ UNCHANGED <<db, jobs, healthVars, certificateVars>>
    \/ DatabaseChanges

Spec == Init /\ [][Next]_vars /\ HealthFairness /\ CertificatesFairness
=============================================================================
