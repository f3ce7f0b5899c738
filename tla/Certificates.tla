---------------------------- MODULE Certificates ----------------------------
(***************************************************************************)
(* The start-up preparation of the local certificates                      *)
(* (cheshire-server-services/src/certificates.rs): a CA pair for the SDK   *)
(* proxy and a TLS pair for the SDK's HTTPS, in four files that outlive    *)
(* the process.  ensure() looks for them, generates what is missing and    *)
(* writes it file by file; the server may die between or within the        *)
(* writes, a write may fail, and the operator may delete files while the   *)
(* server is down.                                                         *)
(*                                                                         *)
(* A key pair is its number.  A CA certificate is the number of the pair   *)
(* it was made for; a TLS certificate is the number of its own pair and    *)
(* that of the CA key that signed it.                                      *)
(***************************************************************************)
EXTENDS FiniteSets, Naturals

CONSTANTS
    Pair,       \* key pairs; one that is nowhere any more may be drawn again
    Missing,    \* there is no such file
    Torn,       \* the file exists but was cut off by the end of the process
    Nobody      \* no client trusts a CA yet

\* Five places in the files and one in a client can hold a pair, so that there
\* always is a new one.
ASSUME PairAssumption == IsFiniteSet(Pair) /\ Cardinality(Pair) > 6
ASSUME DistinctAssumption ==
    /\ \A x \in {Missing, Torn, Nobody} : x \notin Pair /\ x \notin Pair \X Pair
    /\ Missing # Torn

VARIABLES
    file,       \* the four files
    pc,         \* where ensure() is, or the server: "down", "serve"
    fresh,      \* the pair being written, with the CA key read for signing
    force,      \* ca_generated: ensure_ca wrote a new CA in this start
    trusted,    \* history: the CA certificate the client installed
    broken      \* history: a start broke off, and none has replaced the CA since

vars == <<file, pc, fresh, force, trusted, broken>>

Files   == {"ca_cert", "ca_key", "tls_cert", "tls_key"}
IsFile(f) == file[f] # Missing

\* KeyPair::generate: a pair unlike those in use.
InUse == {file["ca_cert"], file["ca_key"], file["tls_key"], trusted} \cup
         (IF file["tls_cert"] \in {Missing, Torn} THEN {}
          ELSE {file["tls_cert"][1], file["tls_cert"][2]})

NewPair == CHOOSE p \in Pair : p \notin InUse

Init ==
    /\ file = [f \in Files |-> Missing]
    /\ pc = "down"
    /\ fresh = [pair |-> Nobody, ca |-> Nobody]
    /\ force = FALSE
    /\ trusted = Nobody
    /\ broken = FALSE

-----------------------------------------------------------------------------
(* ensure() *)

Start ==
    /\ pc = "down"
    /\ pc' = "ca"
    /\ UNCHANGED <<file, fresh, force, trusted, broken>>

\* Mutant of EnsureCa: a missing TLS file replaces the CA, too.
EnsureCaOfAll ==
    /\ pc = "ca"
    /\ \/ /\ \A f \in Files : IsFile(f)
          /\ pc' = "tls"
          /\ force' = FALSE
          /\ UNCHANGED fresh
       \/ /\ \E f \in Files : ~IsFile(f)
          /\ fresh' = [pair |-> NewPair, ca |-> Nobody]
          /\ pc' = "ca_cert"
          /\ UNCHANGED force
    /\ UNCHANGED <<file, trusted, broken>>

\* ensure_ca: both files present, whatever is in them, are reused.
EnsureCa ==
    /\ pc = "ca"
    /\ \/ /\ IsFile("ca_cert") /\ IsFile("ca_key")
          /\ pc' = "tls"
          /\ force' = FALSE
          /\ UNCHANGED fresh
       \/ /\ ~(IsFile("ca_cert") /\ IsFile("ca_key"))
          /\ fresh' = [pair |-> NewPair, ca |-> Nobody]
          /\ pc' = "ca_cert"
          /\ UNCHANGED force
    /\ UNCHANGED <<file, trusted, broken>>

\* Mutant of EnsureTls: a present pair is reused even when the CA is new.
EnsureTlsReuses ==
    /\ pc = "tls"
    /\ \/ /\ IsFile("tls_cert") /\ IsFile("tls_key")
          /\ pc' = "ready"
          /\ UNCHANGED fresh
       \/ /\ ~IsFile("tls_cert") \/ ~IsFile("tls_key")
          /\ Torn \notin {file["ca_cert"], file["ca_key"]}
          /\ fresh' = [pair |-> NewPair, ca |-> file["ca_key"]]
          /\ pc' = "tls_cert"
    /\ UNCHANGED <<file, force, trusted, broken>>

\* ensure_tls: both files present are reused unless the CA is new.  Otherwise
\* the CA is read back, which fails on a torn file but not on a certificate
\* and a key of different pairs, and signs a new pair.
EnsureTls ==
    /\ pc = "tls"
    /\ \/ /\ ~force /\ IsFile("tls_cert") /\ IsFile("tls_key")
          /\ pc' = "ready"
          /\ UNCHANGED fresh
       \/ /\ force \/ ~IsFile("tls_cert") \/ ~IsFile("tls_key")
          /\ Torn \in {file["ca_cert"], file["ca_key"]}
          /\ pc' = "down"
          /\ UNCHANGED fresh
       \/ /\ force \/ ~IsFile("tls_cert") \/ ~IsFile("tls_key")
          /\ Torn \notin {file["ca_cert"], file["ca_key"]}
          /\ fresh' = [pair |-> NewPair, ca |-> file["ca_key"]]
          /\ pc' = "tls_cert"
    /\ UNCHANGED <<file, force, trusted, broken>>

\* What is written to each file, and what comes after it.
Content(f) == IF f = "tls_cert" THEN <<fresh.pair, fresh.ca>> ELSE fresh.pair

After == [ca_cert |-> "ca_key", ca_key |-> "tls", tls_cert |-> "tls_key", tls_key |-> "ready"]

\* write_public, write_private: the file is replaced as a whole.  The return
\* of ensure_ca tells ensure that the CA is new.
Write(f) ==
    /\ pc = f
    /\ file' = [file EXCEPT ![f] = Content(f)]
    /\ pc' = After[f]
    /\ force' = (force \/ f = "ca_key")
    /\ UNCHANGED <<fresh, trusted, broken>>

\* The write fails or the process dies in it: the file is as before, cut off,
\* or complete (a key whose permissions could not be restricted).  What
\* ca_generated said is forgotten.
WriteFails(f) ==
    /\ pc = f
    /\ \E left \in {file[f], Torn, Content(f)} : file' = [file EXCEPT ![f] = left]
    /\ pc' = "down"
    /\ force' = FALSE
    /\ broken' = TRUE
    /\ UNCHANGED <<fresh, trusted>>

\* The process dies between the CA and the TLS pair.
Die ==
    /\ pc \in {"ca", "tls"}
    /\ pc' = "down"
    /\ force' = FALSE
    /\ broken' = TRUE
    /\ UNCHANGED <<file, fresh, trusted>>

-----------------------------------------------------------------------------
(* The services that load the files, and the world outside *)

\* sdk::serve loads the TLS pair and sdk_proxy::serve the CA pair: a torn file
\* or a TLS certificate for another key ends the server; a CA certificate for
\* another key does not.
Loadable ==
    /\ \A f \in Files : file[f] \notin {Missing, Torn}
    /\ file["tls_cert"][1] = file["tls_key"]

Serve ==
    /\ pc = "ready"
    /\ pc' = IF Loadable THEN "serve" ELSE "down"
    /\ broken' = (broken /\ ~force)
    /\ force' = FALSE
    /\ UNCHANGED <<file, fresh, trusted>>

\* The user of a client installs the CA certificate of the server he uses.
Install ==
    /\ pc = "serve"
    /\ trusted = Nobody
    /\ trusted' = file["ca_cert"]
    /\ UNCHANGED <<file, pc, fresh, force, broken>>

Stop ==
    /\ pc = "serve"
    /\ pc' = "down"
    /\ UNCHANGED <<file, fresh, force, trusted, broken>>

\* The operator deletes a file; with a file of the CA goes the client's trust:
\* the README says that a new CA will be generated.
Delete(f) ==
    /\ pc = "down"
    /\ IsFile(f)
    /\ file' = [file EXCEPT ![f] = Missing]
    /\ trusted' = IF f \in {"ca_cert", "ca_key"} THEN Nobody ELSE trusted
    /\ UNCHANGED <<pc, fresh, force, broken>>

Next ==
    \/ Start \/ EnsureCa \/ EnsureTls \/ Serve \/ Install \/ Stop \/ Die
    \/ \E f \in Files : Write(f) \/ WriteFails(f) \/ Delete(f)

Spec == Init /\ [][Next]_vars

-----------------------------------------------------------------------------
(* Properties *)

TypeOK ==
    /\ file = [f \in Files |-> file[f]]
    /\ \A f \in Files \ {"tls_cert"} : file[f] \in {Missing, Torn} \cup Pair
    /\ file["tls_cert"] \in {Missing, Torn} \cup (Pair \X Pair)
    /\ pc \in Files \cup {"down", "ca", "tls", "ready", "serve"}
    /\ fresh \in [pair : {Nobody} \cup Pair, ca : {Nobody} \cup Pair]
    /\ force \in BOOLEAN
    /\ trusted \in {Nobody} \cup Pair
    /\ broken \in BOOLEAN

\* README: the TLS files hold an "SDK HTTPS certificate signed by the local CA".
\* Whenever the server serves, a client that trusts the CA file accepts it, and
\* what the proxy signs with the CA key.
ServedChainVerifies ==
    pc = "serve" => file["ca_cert"] = file["tls_cert"][2] /\ file["ca_cert"] = file["ca_key"]

\* The same where the code keeps it: as long as no start broke off, and again
\* from the first start on that replaced the CA, whatever files the operator
\* deletes in between.
UnbrokenChainVerifies == ~broken => ServedChainVerifies

\* A client that installed the CA never has to do so again unless the operator
\* removed a file of the CA, however starts fail in between.
TrustSurvives ==
    trusted # Nobody => file["ca_cert"] = trusted

\* Also after failed starts: a start that replaces the CA and gets through
\* serves a chain that verifies, whatever the failed ones left in the files.
\* So deleting the CA always repairs the installation.
ReplacedCaServes ==
    pc = "ready" /\ force =>
        /\ Loadable
        /\ file["ca_key"] = file["ca_cert"]
        /\ file["tls_cert"][2] = file["ca_cert"]

=============================================================================
