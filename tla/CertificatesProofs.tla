------------------------- MODULE CertificatesProofs -------------------------
(***************************************************************************)
(* Proofs about Certificates, for any large enough set of key pairs.       *)
(*                                                                         *)
(* The invariant follows a start through its steps: Placed says which      *)
(* files and pairs are there at each of them, Trusting that no step that   *)
(* writes a CA file is ever reached under an installed CA, Replacing what  *)
(* a start that replaces the CA has written so far, and Unbroken that the  *)
(* files fit each other as long as no start broke off.                     *)
(***************************************************************************)
EXTENDS Certificates, FiniteSetTheorems, TLAPS

CaFiles == IsFile("ca_cert") /\ IsFile("ca_key")

Placed ==
    /\ pc = "serve" => \A f \in Files : file[f] \notin {Missing, Torn}
    /\ pc \in {"tls", "tls_cert", "tls_key", "ready"} => CaFiles
    /\ pc \in Files => fresh.pair \in Pair
    /\ pc \in {"tls_cert", "tls_key"} => fresh.ca \in Pair

Trusting ==
    trusted # Nobody =>
        file["ca_cert"] = trusted /\ CaFiles /\ pc \notin {"ca_cert", "ca_key"}

Replacing ==
    /\ pc \in {"down", "ca", "ca_cert", "ca_key", "serve"} => ~force
    /\ pc = "ca_key" => file["ca_cert"] = fresh.pair
    /\ force => file["ca_cert"] \in Pair /\ file["ca_key"] = file["ca_cert"]
    /\ force /\ pc \in {"tls_cert", "tls_key"} => fresh.ca = file["ca_key"]
    /\ force /\ pc = "tls_key" => file["tls_cert"] = <<fresh.pair, fresh.ca>>
    /\ force /\ pc = "ready" =>
           file["tls_key"] \in Pair /\ file["tls_cert"] = <<file["tls_key"], file["ca_key"]>>

Unbroken ==
    ~broken /\ ~force =>
        /\ pc # "ca_key" /\ CaFiles => file["ca_cert"] = file["ca_key"]
        /\ pc # "ca_key" /\ (\A f \in Files : IsFile(f)) /\ pc \notin {"tls_cert", "tls_key"} =>
               file["tls_cert"][2] = file["ca_cert"]
        /\ pc \in {"tls_cert", "tls_key"} => fresh.ca = file["ca_key"]
        /\ pc = "tls_key" => file["tls_cert"] = <<fresh.pair, fresh.ca>>

Inv == TypeOK /\ Placed /\ Trusting /\ Replacing /\ Unbroken

-----------------------------------------------------------------------------
(* There always is a new pair *)

LEMMA SixFit ==
    ASSUME NEW a, NEW b, NEW c, NEW d, NEW e, NEW f
    PROVE  IsFiniteSet({a, b, c, d, e, f}) /\ Cardinality({a, b, c, d, e, f}) <= 6
<1> DEFINE S == {a, b, c, d, e, f}
           g == [i \in 1..6 |-> CASE i = 1 -> a [] i = 2 -> b [] i = 3 -> c
                                  [] i = 4 -> d [] i = 5 -> e [] OTHER -> f]
<1>1. g \in [1..6 -> S]
  OBVIOUS
<1>2. ASSUME NEW x \in S PROVE \E i \in 1..6 : g[i] = x
  <2>1. g[1] = a /\ g[2] = b /\ g[3] = c /\ g[4] = d /\ g[5] = e /\ g[6] = f
    OBVIOUS
  <2> QED BY <2>1
<1> HIDE DEF S, g
<1>3. ExistsSurjection(1..6, S)
  BY <1>1, <1>2 DEF ExistsSurjection, Surjection
<1>4. IsFiniteSet(S)
  BY <1>3, FS_NatSurjection
<1>5. Cardinality(S) <= 6
  BY <1>3, FS_SurjCardinalityBound
<1> QED BY <1>4, <1>5 DEF S

LEMMA NewPairIsPair == NewPair \in Pair
<1> DEFINE T == file["tls_cert"]
           e == IF T \in {Missing, Torn} THEN trusted ELSE T[1]
           f == IF T \in {Missing, Torn} THEN trusted ELSE T[2]
           S == {file["ca_cert"], file["ca_key"], file["tls_key"], trusted, e, f}
<1>1. InUse \subseteq S
  BY DEF InUse
<1> HIDE DEF e, f, T
<1>2. IsFiniteSet(S) /\ Cardinality(S) <= 6
  BY SixFit
<1> HIDE DEF S
<1>3. ~(Pair \subseteq InUse)
  <2> SUFFICES ASSUME Pair \subseteq S PROVE FALSE
    BY <1>1
  <2>1. Cardinality(Pair) <= Cardinality(S)
    BY <1>2, FS_Subset
  <2>2. Cardinality(S) \in Nat /\ Cardinality(Pair) \in Nat
    BY <1>2, PairAssumption, FS_CardinalityType
  <2> QED BY <1>2, <2>1, <2>2, PairAssumption
<1>4. PICK p \in Pair : p \notin InUse
  BY <1>3
<1> QED BY <1>4 DEF NewPair

-----------------------------------------------------------------------------
(* Every step keeps the invariant *)

LEMMA InitInv == Init => Inv
<1> SUFFICES ASSUME Init PROVE Inv
  OBVIOUS
<1> USE DEF Init, Files, IsFile, CaFiles
<1>1. \A f \in Files : file[f] = Missing
  OBVIOUS
<1>2. TypeOK
  BY <1>1 DEF TypeOK
<1>3. Placed /\ Trusting /\ Replacing /\ Unbroken
  BY <1>1 DEF Placed, Trusting, Replacing, Unbroken
<1> QED BY <1>2, <1>3 DEF Inv

\* The four files after one of them got another content.
LEMMA OneFile ==
    ASSUME TypeOK, NEW f \in Files, NEW x, file' = [file EXCEPT ![f] = x],
           IF f = "tls_cert" THEN x \in {Missing, Torn} \cup (Pair \X Pair)
                             ELSE x \in {Missing, Torn} \cup Pair
    PROVE  /\ file' = [g \in Files |-> file'[g]]
           /\ \A g \in Files : file'[g] = IF g = f THEN x ELSE file[g]
           /\ \A g \in Files \ {"tls_cert"} : file'[g] \in {Missing, Torn} \cup Pair
           /\ file'["tls_cert"] \in {Missing, Torn} \cup (Pair \X Pair)
<1>1. file = [g \in Files |-> file[g]]
  BY DEF TypeOK
<1>2. file' = [g \in Files |-> IF g = f THEN x ELSE file[g]]
  BY <1>1
<1>3. \A g \in Files : file'[g] = IF g = f THEN x ELSE file[g]
  BY <1>2
<1>4. file' = [g \in Files |-> file'[g]]
  BY <1>2
<1>5. \A g \in Files \ {"tls_cert"} : file'[g] \in {Missing, Torn} \cup Pair
  BY <1>3 DEF TypeOK
<1>6. file'["tls_cert"] \in {Missing, Torn} \cup (Pair \X Pair)
  BY <1>3 DEF TypeOK, Files
<1> QED BY <1>3, <1>4, <1>5, <1>6

LEMMA EnsureCaStep == Inv /\ EnsureCa => Inv'
<1> SUFFICES ASSUME Inv, EnsureCa PROVE Inv'
  OBVIOUS
<1> USE DistinctAssumption, NewPairIsPair DEF EnsureCa, Inv, IsFile, CaFiles, Files
<1>1. TypeOK'
  <2>1. fresh' \in [pair : {Nobody} \cup Pair, ca : {Nobody} \cup Pair]
    <3>1. [pair |-> NewPair, ca |-> Nobody] \in [pair : {Nobody} \cup Pair, ca : {Nobody} \cup Pair]
      OBVIOUS
    <3> QED BY <3>1 DEF TypeOK
  <2>2. pc' \in Files \cup {"down", "ca", "tls", "ready", "serve"}
    OBVIOUS
  <2>3. force' \in BOOLEAN
    BY DEF TypeOK
  <2> QED BY <2>1, <2>2, <2>3 DEF TypeOK
<1>2. Placed'
  BY DEF TypeOK, Placed
<1>3. Trusting'
  BY DEF Trusting
<1>4. Replacing'
  BY DEF Replacing
<1>5. Unbroken'
  BY DEF Unbroken, Replacing
<1> QED BY <1>1, <1>2, <1>3, <1>4, <1>5

LEMMA EnsureTlsStep == Inv /\ EnsureTls => Inv'
<1> SUFFICES ASSUME Inv, EnsureTls PROVE Inv'
  OBVIOUS
<1> USE DistinctAssumption, NewPairIsPair DEF EnsureTls, Inv, IsFile, CaFiles, Files
<1>0. CaFiles
  BY DEF Placed
<1>1. TypeOK'
  BY <1>0 DEF TypeOK
<1>2. Placed'
  BY <1>0 DEF TypeOK, Placed
<1>3. Trusting'
  BY <1>0 DEF Trusting
<1>4. Replacing'
  BY DEF Replacing
<1>5. Unbroken'
  BY <1>0 DEF Unbroken, Replacing
<1> QED BY <1>1, <1>2, <1>3, <1>4, <1>5

LEMMA WriteStep == ASSUME Inv, NEW f \in Files, Write(f) PROVE Inv'
<1> USE DistinctAssumption DEF Write, Inv
<1>1. fresh.pair \in Pair /\ (f = "tls_cert" => fresh.ca \in Pair)
  BY DEF Placed
<1>2. Content(f) = IF f = "tls_cert" THEN <<fresh.pair, fresh.ca>> ELSE fresh.pair
  BY DEF Content
<1>3. /\ file' = [g \in Files |-> file'[g]]
      /\ \A g \in Files : file'[g] = IF g = f THEN Content(f) ELSE file[g]
      /\ \A g \in Files \ {"tls_cert"} : file'[g] \in {Missing, Torn} \cup Pair
      /\ file'["tls_cert"] \in {Missing, Torn} \cup (Pair \X Pair)
  BY <1>1, <1>2, OneFile
<1>4. TypeOK'
  BY <1>3 DEF TypeOK, After, Files
<1> USE DEF Files, IsFile, CaFiles
<1>5. CASE f = "ca_cert"
  <2>1. /\ pc = "ca_cert" /\ pc' = "ca_key" /\ ~force /\ ~force' /\ trusted = Nobody
        /\ file'["ca_cert"] = fresh.pair
    BY <1>2, <1>3, <1>5 DEF After, Replacing, Trusting
  <2> QED BY <1>1, <1>4, <2>1 DEF Placed, Trusting, Replacing, Unbroken
<1>6. CASE f = "ca_key"
  <2>1. /\ pc = "ca_key" /\ pc' = "tls" /\ force' /\ trusted = Nobody
        /\ file'["ca_cert"] = fresh.pair /\ file'["ca_key"] = fresh.pair
    BY <1>2, <1>3, <1>6 DEF After, Replacing, Trusting
  <2> QED BY <1>1, <1>4, <2>1 DEF Placed, Trusting, Replacing, Unbroken
<1>7. CASE f = "tls_cert"
  <2>1. /\ pc = "tls_cert" /\ pc' = "tls_key" /\ force' = force
        /\ file'["tls_cert"] = <<fresh.pair, fresh.ca>>
        /\ file'["ca_cert"] = file["ca_cert"] /\ file'["ca_key"] = file["ca_key"]
    BY <1>2, <1>3, <1>7 DEF After, TypeOK
  <2>2. Placed' /\ Trusting'
    BY <1>1, <2>1 DEF Placed, Trusting
  <2>3. Replacing'
    BY <2>1 DEF Replacing
  <2>4. Unbroken'
    BY <2>1 DEF Unbroken
  <2> QED BY <1>4, <2>2, <2>3, <2>4
<1>8. CASE f = "tls_key"
  <2>1. /\ pc = "tls_key" /\ pc' = "ready" /\ force' = force
        /\ file'["tls_key"] = fresh.pair
        /\ file'["tls_cert"] = file["tls_cert"]
        /\ file'["ca_cert"] = file["ca_cert"] /\ file'["ca_key"] = file["ca_key"]
    BY <1>2, <1>3, <1>8 DEF After, TypeOK
  <2>2. Placed' /\ Trusting'
    BY <1>1, <2>1 DEF Placed, Trusting
  <2>3. Replacing'
    BY <1>1, <2>1 DEF Replacing
  <2>4. Unbroken'
    BY <2>1 DEF Unbroken, Placed
  <2> QED BY <1>4, <2>2, <2>3, <2>4
<1> QED BY <1>5, <1>6, <1>7, <1>8

LEMMA WriteFailsStep == ASSUME Inv, NEW f \in Files, WriteFails(f) PROVE Inv'
<1> USE DistinctAssumption DEF WriteFails, Inv
<1>1. PICK left \in {file[f], Torn, Content(f)} : file' = [file EXCEPT ![f] = left]
  OBVIOUS
<1>2. IF f = "tls_cert" THEN left \in {Missing, Torn} \cup (Pair \X Pair)
                        ELSE left \in {Missing, Torn} \cup Pair
  BY DEF Placed, Content, TypeOK
<1>3. /\ file' = [g \in Files |-> file'[g]]
      /\ \A g \in Files : file'[g] = IF g = f THEN left ELSE file[g]
      /\ \A g \in Files \ {"tls_cert"} : file'[g] \in {Missing, Torn} \cup Pair
      /\ file'["tls_cert"] \in {Missing, Torn} \cup (Pair \X Pair)
  BY <1>1, <1>2, OneFile
<1>4. TypeOK'
  BY <1>3 DEF TypeOK
<1>5. Placed' /\ Unbroken'
  BY DEF Placed, Unbroken, Files
<1>6. Trusting'
  BY <1>3 DEF Trusting, CaFiles, IsFile, Files
<1>7. Replacing'
  BY DEF Replacing, Files
<1> QED BY <1>4, <1>5, <1>6, <1>7

LEMMA InvStep == Inv /\ [Next]_vars => Inv'
<1> SUFFICES ASSUME Inv, [Next]_vars PROVE Inv'
  OBVIOUS
<1> USE DistinctAssumption
<1> USE DEF Inv, TypeOK, Placed, Trusting, Replacing, Unbroken, CaFiles, IsFile, Files
<1>1. CASE Start
  BY <1>1 DEF Start
<1>2. CASE EnsureCa
  BY <1>2, EnsureCaStep
<1>3. CASE EnsureTls
  BY <1>3, EnsureTlsStep
<1>4. CASE Serve
  <2>1. TypeOK' /\ Placed'
    BY <1>4 DEF Serve, Loadable
  <2>2. Trusting' /\ Replacing'
    BY <1>4 DEF Serve
  <2>3. Unbroken'
    <3>1. CASE force
      BY <1>4, <3>1 DEF Serve
    <3>2. CASE ~force
      BY <1>4, <3>2 DEF Serve
    <3> QED BY <3>1, <3>2
  <2> QED BY <2>1, <2>2, <2>3
<1>5. CASE Install
  BY <1>5 DEF Install
<1>6. CASE Stop
  BY <1>6 DEF Stop
<1>7. CASE Die
  BY <1>7 DEF Die
<1>8. ASSUME NEW f \in Files, Write(f) PROVE Inv'
  BY <1>8, WriteStep
<1>9. ASSUME NEW f \in Files, WriteFails(f) PROVE Inv'
  BY <1>9, WriteFailsStep
<1>10. ASSUME NEW f \in Files, Delete(f) PROVE Inv'
  BY <1>10 DEF Delete
<1>11. CASE UNCHANGED vars
  BY <1>11 DEF vars
<1> QED
  BY <1>1, <1>2, <1>3, <1>4, <1>5, <1>6, <1>7, <1>8, <1>9, <1>10, <1>11 DEF Next

LEMMA Invariance == Spec => []Inv
BY InitInv, InvStep, PTL DEF Spec

-----------------------------------------------------------------------------
(* The theorems *)

\* Every variable keeps its type: what ensure() reads back or signs with is
\* never a file that is not there.
THEOREM TypeCorrect == Spec => []TypeOK
<1>1. Inv => TypeOK
  BY DEF Inv
<1> QED BY <1>1, Invariance, PTL

\* However often starts fail or die and whatever files of the TLS pair are
\* deleted in between, an installed CA stays in place until the operator
\* removes a file of it.
THEOREM TrustHolds == Spec => []TrustSurvives
<1>1. Inv => TrustSurvives
  BY DEF Inv, Trusting, TrustSurvives
<1> QED BY <1>1, Invariance, PTL

\* A start that replaces the CA and reaches the services has written four files
\* that load and verify, whatever the starts before it left behind.
THEOREM ReplacementRepairs == Spec => []ReplacedCaServes
<1>1. Inv => ReplacedCaServes
  <2> SUFFICES ASSUME Inv, pc = "ready", force PROVE ReplacedCaServes
    BY DEF ReplacedCaServes
  <2> USE DistinctAssumption DEF Inv, Replacing
  <2>1. /\ file["ca_cert"] \in Pair /\ file["ca_key"] = file["ca_cert"]
        /\ file["tls_key"] \in Pair
        /\ file["tls_cert"] = <<file["tls_key"], file["ca_key"]>>
    OBVIOUS
  <2>2. file["tls_cert"][1] = file["tls_key"] /\ file["tls_cert"][2] = file["ca_cert"]
    BY <2>1
  <2>3. file["tls_cert"] \in Pair \X Pair
    BY <2>1
  <2>4. \A f \in Files : file[f] \notin {Missing, Torn}
    BY <2>1, <2>3 DEF Files
  <2> QED BY <2>1, <2>2, <2>4 DEF ReplacedCaServes, Loadable
<1> QED BY <1>1, Invariance, PTL

\* As long as no start broke off, and again once a start has replaced the CA,
\* the served certificate verifies against the CA the clients install.
THEOREM ChainVerifies == Spec => []UnbrokenChainVerifies
<1>1. Inv => UnbrokenChainVerifies
  <2> SUFFICES ASSUME Inv, ~broken, pc = "serve"
               PROVE  file["ca_cert"] = file["tls_cert"][2] /\ file["ca_cert"] = file["ca_key"]
    BY DEF UnbrokenChainVerifies, ServedChainVerifies
  <2>1. ~force /\ \A f \in Files : IsFile(f)
    BY DEF Inv, Placed, Replacing, IsFile
  <2> QED BY <2>1 DEF Inv, Unbroken, CaFiles, Files
<1> QED BY <1>1, Invariance, PTL

=============================================================================
