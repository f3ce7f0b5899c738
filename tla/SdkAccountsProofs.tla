------------------------- MODULE SdkAccountsProofs --------------------------
(***************************************************************************)
(* Proofs about SdkAccounts, for any clients, names and nicknames.         *)
(*                                                                         *)
(* Uids: they are handed out in order, so that none is given twice.        *)
(* Requests: what a request found about an account that exists is still    *)
(* true when it answers, because nothing but is_new and the nickname of an *)
(* account ever changes.                                                   *)
(***************************************************************************)
EXTENDS SdkAccounts, FiniteSetTheorems, TLAPS

Registered == {n \in Name : accounts[n].uid # 0}

Uids ==
    /\ \A n \in Name : accounts[n].uid <= Cardinality(Registered)
    /\ \A m, n \in Name : accounts[m].uid # 0 /\ accounts[m].uid = accounts[n].uid => m = n
    /\ \A n \in Name : accounts[n].uid = 0 => accounts[n].nick = UserName

Requests ==
    \A c \in Client :
        /\ pc[c] \in {"clear", "answer"} =>
               found[c].uid # 0 /\ accounts[name[c]].uid = found[c].uid
        /\ pc[c] \in {"done", "set"} =>
               told[c] # 0 /\ accounts[name[c]].uid = told[c]
        /\ pc[c] \notin {"done", "set"} => told[c] = 0

Newness ==
    /\ \A n \in settled : accounts[n].uid # 0 /\ ~accounts[n].isNew
    /\ \A c \in Client : late[c] /\ pc[c] \in {"select", "insert", "clear", "answer"} =>
           /\ name[c] \in settled
           /\ pc[c] \in {"clear", "answer"} => ~found[c].isNew

Inv == TypeOK /\ Uids /\ Requests /\ Newness /\ NicknameIsKept

-----------------------------------------------------------------------------
(* What the statements do to the table *)

LEMMA Counting ==
    ASSUME TypeOK
    PROVE  /\ Cardinality(Name) \in Nat /\ Cardinality(Registered) \in Nat
           /\ IsFiniteSet(Registered)
           /\ Cardinality(Registered) <= Cardinality(Name)
BY NameAssumption, FS_CardinalityType, FS_Subset DEF Registered

\* An account that exists keeps its uid, and is not new again.
Kept ==
    \A n \in Name : accounts[n].uid # 0 =>
        accounts'[n].uid = accounts[n].uid /\ (~accounts[n].isNew => ~accounts'[n].isNew)

LEMMA CreateKeeps ==
    ASSUME TypeOK, Uids, NicknameIsKept, NEW n \in Name, accounts[n].uid = 0, Create(n),
           named' = named
    PROVE  accounts' \in [Name -> Account] /\ Uids' /\ Kept /\ NicknameIsKept'
<1> DEFINE k == Cardinality(Registered)
           new == [uid |-> k + 1, isNew |-> TRUE, nick |-> UserName]
<1>1. accounts' = [accounts EXCEPT ![n] = new]
  BY DEF Create, Registered
<1>2. accounts \in [Name -> Account] /\ \A m \in Name : accounts[m].uid \in Nat
  BY DEF TypeOK, Account
<1>3. \A m \in Name : accounts'[m] = IF m = n THEN new ELSE accounts[m]
  BY <1>1, <1>2
<1>4. Registered' = Registered \cup {n} /\ n \notin Registered
  <2>1. k + 1 # 0
    BY Counting
  <2>2. new.uid # 0
    BY <2>1
  <2> HIDE DEF new, k
  <2> QED BY <1>3, <2>2 DEF Registered
<1>5. Cardinality(Registered') = k + 1 /\ k \in Nat
  BY <1>4, Counting, FS_AddElement
<1>6. k + 1 <= Cardinality(Name)
  <2>1. Registered' \subseteq Name
    BY <1>4 DEF Registered
  <2> QED BY <2>1, <1>5, NameAssumption, FS_Subset
<1>7. accounts' \in [Name -> Account]
  <2>1. k + 1 \in 0..Cardinality(Name)
    BY <1>5, <1>6, Counting
  <2>2. new \in Account
    BY <2>1 DEF Account
  <2> QED BY <1>1, <1>2, <2>2
<1>8. Uids'
  <2>1. \A m \in Name : m # n => accounts'[m].uid <= k
    BY <1>3 DEF Uids
  <2>2. \A m \in Name : accounts'[m].uid <= k + 1
    BY <2>1, <1>2, <1>3, <1>5
  <2>3. \A m \in Name : m # n => accounts'[m].uid # k + 1
    BY <2>1, <1>2, <1>3, <1>5
  <2>4. ASSUME NEW m \in Name, NEW o \in Name,
               accounts'[m].uid # 0, accounts'[m].uid = accounts'[o].uid
        PROVE  m = o
    BY <1>3, <2>3, <2>4 DEF Uids
  <2>5. \A m \in Name : accounts'[m].uid = 0 => accounts'[m].nick = UserName
    BY <1>3 DEF Uids
  <2> QED BY <1>5, <2>2, <2>4, <2>5 DEF Uids
<1>9. Kept
  BY <1>3 DEF Kept
<1>10. NicknameIsKept'
  BY <1>3 DEF NicknameIsKept, Uids
<1> QED BY <1>7, <1>8, <1>9, <1>10

\* The statements that leave the uids alone.
LEMMA SameUids ==
    ASSUME Uids, \A n \in Name : accounts'[n].uid = accounts[n].uid,
           \A n \in Name : accounts'[n].uid = 0 => accounts'[n].nick = UserName
    PROVE  Uids'
<1>1. Registered' = Registered
  BY DEF Registered
<1> QED BY <1>1 DEF Uids

LEMMA ClearKeeps ==
    ASSUME TypeOK, Uids, NicknameIsKept, NEW n \in Name, ClearNew(n), named' = named
    PROVE  /\ accounts' \in [Name -> Account] /\ Uids' /\ Kept /\ NicknameIsKept'
           /\ ~accounts'[n].isNew
<1>1. accounts \in [Name -> Account]
  BY DEF TypeOK
<1>2. \A m \in Name : accounts'[m] = IF m = n THEN [accounts[n] EXCEPT !.isNew = FALSE] ELSE accounts[m]
  BY <1>1 DEF ClearNew
<1>3. \A m \in Name : accounts'[m].uid = accounts[m].uid /\ accounts'[m].nick = accounts[m].nick
  BY <1>1, <1>2 DEF Account
<1>4. accounts' \in [Name -> Account]
  BY <1>1 DEF ClearNew, Account
<1>5. Uids'
  BY <1>3, SameUids DEF Uids
<1>6. Kept /\ NicknameIsKept' /\ ~accounts'[n].isNew
  BY <1>1, <1>2, <1>3 DEF Kept, NicknameIsKept, Account
<1> QED BY <1>4, <1>5, <1>6

LEMMA RenameKeeps ==
    ASSUME Inv, NEW c \in Client, pc[c] = "set", UpdateNick(c)
    PROVE  /\ accounts' \in [Name -> Account] /\ Uids' /\ Kept /\ NicknameIsKept'
           /\ named' \in [Name -> Nick \cup {UserName}]
<1> USE DEF Inv
<1>1. accounts \in [Name -> Account] /\ wish[c] \in Nick \cup {UserName} /\ name[c] \in Name
  BY DEF TypeOK
<1>2. told[c] # 0 /\ accounts[name[c]].uid = told[c]
  BY DEF Requests
<1>3. \A n \in Name : accounts[n].uid = told[c] <=> n = name[c]
  BY <1>1, <1>2 DEF Uids
<1>4. \A n \in Name : accounts'[n] =
          IF n = name[c] THEN [accounts[n] EXCEPT !.nick = wish[c]] ELSE accounts[n]
  BY <1>3 DEF UpdateNick
<1>5. \A n \in Name : /\ accounts'[n].uid = accounts[n].uid
                      /\ accounts'[n].isNew = accounts[n].isNew
                      /\ accounts'[n].nick = IF n = name[c] THEN wish[c] ELSE accounts[n].nick
  BY <1>1, <1>4 DEF Account
<1>6. accounts' \in [Name -> Account]
  <2>1. \A n \in Name : accounts'[n] \in Account
    BY <1>1, <1>4 DEF Account
  <2>2. accounts' = [n \in Name |-> accounts'[n]]
    BY DEF UpdateNick
  <2> QED BY <2>1, <2>2
<1>7. Uids'
  BY <1>2, <1>5, SameUids DEF Uids
<1>8. /\ named' \in [Name -> Nick \cup {UserName}]
      /\ \A n \in Name : named'[n] = IF n = name[c] THEN wish[c] ELSE named[n]
  BY <1>1 DEF UpdateNick, TypeOK
<1> QED BY <1>5, <1>6, <1>7, <1>8 DEF Kept, NicknameIsKept

-----------------------------------------------------------------------------
(* Every step keeps the invariant *)

LEMMA InitInv == Init => Inv
<1> SUFFICES ASSUME Init PROVE Inv
  OBVIOUS
<1> USE DEF Init, NoAccount
<1>0. Registered = {} /\ Cardinality(Name) \in Nat
  BY NameAssumption, FS_CardinalityType DEF Registered
<1>1. TypeOK
  BY <1>0, FailAssumption DEF TypeOK, Account
<1>2. Uids
  BY <1>0, FS_EmptySet DEF Uids
<1>3. Requests /\ Newness /\ NicknameIsKept
  BY DEF Requests, Newness, NicknameIsKept
<1> QED BY <1>1, <1>2, <1>3 DEF Inv

\* The table as a step leaves it, if the step is not a renaming.
Table == accounts' \in [Name -> Account] /\ Uids' /\ Kept /\ NicknameIsKept'

LEMMA SameTable == Inv /\ UNCHANGED <<accounts, named>> => Table
BY DEF Inv, Table, TypeOK, Uids, Registered, Kept, NicknameIsKept

\* The requests of the other clients only depend on what the table keeps.
LEMMA Others ==
    ASSUME Inv, Table, NEW c \in Client, name' \in [Client -> Name],
           \A d \in Client \ {c} :
               /\ pc'[d] = pc[d] /\ name'[d] = name[d] /\ found'[d] = found[d]
               /\ told'[d] = told[d] /\ late'[d] = late[d],
           settled \subseteq settled', settled' \subseteq settled \cup {name[c]},
           settled' # settled => UNCHANGED accounts /\ pc[c] = "answer" /\ ~accounts[name[c]].isNew,
           pc'[c] \in {"clear", "answer"} =>
               found'[c].uid # 0 /\ accounts'[name'[c]].uid = found'[c].uid,
           pc'[c] \in {"done", "set"} => told'[c] # 0 /\ accounts'[name'[c]].uid = told'[c],
           pc'[c] \notin {"done", "set"} => told'[c] = 0,
           late'[c] /\ pc'[c] \in {"select", "insert", "clear", "answer"} =>
               name'[c] \in settled' /\ (pc'[c] \in {"clear", "answer"} => ~found'[c].isNew)
    PROVE  Requests' /\ Newness'
<1> USE DEF Inv, Table
<1>1. \A d \in Client : name[d] \in Name
  BY DEF TypeOK
<1>2. Requests'
  BY <1>1 DEF Requests, Kept
<1>3. \A n \in settled' : accounts'[n].uid # 0 /\ ~accounts'[n].isNew
  <2>1. \A n \in settled : accounts'[n].uid # 0 /\ ~accounts'[n].isNew
    BY DEF Newness, Kept, TypeOK
  <2>2. settled' # settled => accounts'[name[c]].uid # 0 /\ ~accounts'[name[c]].isNew
    BY DEF Requests
  <2> QED BY <2>1, <2>2
<1>4. Newness'
  BY <1>3 DEF Newness
<1> QED BY <1>2, <1>4

LEMMA ClientStep ==
    ASSUME Inv, NEW c \in Client,
           \/ Login(c) \/ Handler(c) \/ DbError(c) \/ Lost(c) \/ LostRename(c)
           \/ \E n \in Name : Again(c, n)
           \/ \E nick \in Nick : Ask(c, nick)
    PROVE  Inv'
<1> USE FailAssumption DEF Inv, TypeOK, Requests, Newness, Goto
<1>1. CASE Login(c)
  <2>1. Table
    BY <1>1, SameTable DEF Login
  <2>2. TypeOK'
    BY <1>1, <2>1 DEF Login
  <2>3. Requests' /\ Newness'
    BY ZenonT(40), <1>1, <2>1, <2>2, Others DEF Login
  <2> QED BY <2>1, <2>2, <2>3 DEF Table
<1>2. CASE Select(c)
  <2>1. Table
    BY <1>2, SameTable DEF Select
  <2>2. TypeOK'
    BY <1>2, <2>1 DEF Select
  <2>3. Requests' /\ Newness'
    BY <1>2, <2>1, <2>2, Others DEF Select
  <2> QED BY <2>1, <2>2, <2>3 DEF Table
<1>3. CASE Clear(c)
  <2>1. Table
    BY <1>3, ClearKeeps DEF Clear, Table
  <2>2. TypeOK'
    BY <1>3, <2>1 DEF Clear, Table
  <2>3. Requests' /\ Newness'
    BY <1>3, <2>1, <2>2, Others DEF Clear, Table, Kept
  <2> QED BY <2>1, <2>2, <2>3 DEF Table
<1>4. CASE Answer(c)
  <2>1. Table
    BY <1>4, SameTable DEF Answer
  <2>2. TypeOK'
    BY <1>4, <2>1 DEF Answer, Account
  <2>3. Requests' /\ Newness'
    BY <1>4, <2>1, <2>2, Others DEF Answer
  <2> QED BY <2>1, <2>2, <2>3 DEF Table
<1>5. CASE \E n \in Name : Again(c, n)
  <2>1. Table
    BY <1>5, SameTable DEF Again
  <2>2. TypeOK'
    BY <1>5, <2>1, Counting DEF Again
  <2>3. Requests' /\ Newness'
    BY <1>5, <2>1, <2>2, Others DEF Again
  <2> QED BY <2>1, <2>2, <2>3 DEF Table
<1>6. CASE \E nick \in Nick : Ask(c, nick)
  <2>1. Table
    BY <1>6, SameTable DEF Ask
  <2>2. TypeOK'
    BY <1>6, <2>1 DEF Ask
  <2>3. Requests' /\ Newness'
    BY <1>6, <2>1, <2>2, Others DEF Ask
  <2> QED BY <2>1, <2>2, <2>3 DEF Table
<1>7. CASE Rename(c)
  <2>1. Table /\ named' \in [Name -> Nick \cup {UserName}]
    BY <1>7, RenameKeeps DEF Rename, Table
  <2>2. TypeOK'
    BY <1>7, <2>1 DEF Rename, Table
  <2>3. Requests' /\ Newness'
    <3>1. /\ pc[c] = "set" /\ pc'[c] = "done"
          /\ UNCHANGED <<name, found, told, late, settled>>
          /\ \A d \in Client \ {c} : pc'[d] = pc[d]
      BY <1>7 DEF Rename
    <3>2. name[c] \in Name
      OBVIOUS
    <3> QED BY <2>1, <2>2, <3>1, <3>2, Others DEF Table, Kept
  <2> QED BY <2>1, <2>2, <2>3 DEF Table
<1>8. CASE DbError(c)
  <2>1. Table
    BY <1>8, SameTable DEF DbError
  <2>2. TypeOK'
    <3>1. failed' \in 0..MaxFail
      BY <1>8 DEF DbError
    <3>2. pc' \in [Client -> {"idle", "select", "insert", "clear", "answer", "done", "set"}]
      BY <1>8 DEF DbError
    <3> QED BY <1>8, <3>1, <3>2 DEF DbError
  <2>3. Requests' /\ Newness'
    <3>1. \/ pc[c] \in {"select", "insert"} /\ pc'[c] = "idle"
          \/ pc[c] = "clear" /\ pc'[c] = "answer"
          \/ pc[c] = "set" /\ pc'[c] = "done"
      BY <1>8 DEF DbError
    <3>2. /\ UNCHANGED <<accounts, name, found, told, late, settled>>
          /\ \A d \in Client \ {c} : pc'[d] = pc[d]
      BY <1>8 DEF DbError
    <3> QED BY <2>1, <2>2, <3>1, <3>2, Others
  <2> QED BY <2>1, <2>2, <2>3 DEF Table
<1>9. CASE Insert(c)
  <2>1. Table
    <3>1. CASE accounts[name[c]].uid = 0
      BY <1>9, <3>1, CreateKeeps DEF Insert, Table
    <3>2. CASE accounts[name[c]].uid # 0
      BY <1>9, <3>2, SameTable DEF Insert
    <3> QED BY <3>1, <3>2
  <2>2. TypeOK'
    BY <1>9, <2>1 DEF Insert, Table
  <2>3. Requests' /\ Newness'
    BY <1>9, <2>1, <2>2, Others DEF Insert
  <2> QED BY <2>1, <2>2, <2>3 DEF Table
<1>10. CASE Lost(c)
  <2>1. Table
    <3>1. CASE UNCHANGED accounts
      BY <1>10, <3>1, SameTable DEF Lost
    <3>2. CASE accounts[name[c]].uid = 0 /\ Create(name[c])
      BY <1>10, <3>2, CreateKeeps DEF Lost, Table
    <3>3. CASE ClearNew(name[c])
      BY <1>10, <3>3, ClearKeeps DEF Lost, Table
    <3> QED BY <1>10, <3>1, <3>2, <3>3 DEF Lost
  <2>2. TypeOK'
    BY <1>10, <2>1 DEF Lost, Table
  <2>3. Requests' /\ Newness'
    BY <1>10, <2>1, <2>2, Others DEF Lost
  <2> QED BY <2>1, <2>2, <2>3 DEF Table
<1>11. CASE LostRename(c)
  <2>1. Table /\ named' \in [Name -> Nick \cup {UserName}]
    <3>1. CASE UNCHANGED <<accounts, named>>
      BY <3>1, SameTable DEF TypeOK
    <3>2. CASE UpdateNick(c)
      BY <1>11, <3>2, RenameKeeps DEF LostRename, Table
    <3> QED BY <1>11, <3>1, <3>2 DEF LostRename
  <2>2. TypeOK'
    BY <1>11, <2>1 DEF LostRename, Table
  <2>3. Requests' /\ Newness'
    <3>1. /\ pc[c] = "set" /\ pc'[c] = "done"
          /\ UNCHANGED <<name, found, told, late, settled>>
          /\ \A d \in Client \ {c} : pc'[d] = pc[d]
      BY <1>11 DEF LostRename
    <3>2. name[c] \in Name
      OBVIOUS
    <3> QED BY <2>1, <2>2, <3>1, <3>2, Others DEF Table, Kept
  <2> QED BY <2>1, <2>2, <2>3 DEF Table
<1> QED
  BY <1>1, <1>2, <1>3, <1>4, <1>5, <1>6, <1>7, <1>8, <1>9, <1>10, <1>11 DEF Handler

LEMMA InvStep == Inv /\ [Next]_vars => Inv'
<1> SUFFICES ASSUME Inv, [Next]_vars PROVE Inv'
  OBVIOUS
<1>1. CASE Next
  BY <1>1, ClientStep DEF Next
<1>2. CASE UNCHANGED vars
  <2>1. Table
    BY <1>2, SameTable DEF vars
  <2>2. TypeOK' /\ Requests' /\ Newness'
    BY <1>2 DEF vars, Inv, TypeOK, Requests, Newness
  <2> QED BY <2>1, <2>2 DEF Inv, Table
<1> QED BY <1>1, <1>2

LEMMA Invariance == Spec => []Inv
BY InitInv, InvStep, PTL DEF Spec

-----------------------------------------------------------------------------
(* The theorems *)

\* Every variable keeps its type: the uids never outnumber the names.
THEOREM TypeCorrect == Spec => []TypeOK
<1>1. Inv => TypeOK
  BY DEF Inv
<1> QED BY <1>1, Invariance, PTL

\* However many clients race for however many names, a uid once told is its
\* name's for good and nobody else's.
THEOREM UidsAreKept == Spec => []ToldUidIsKept
<1>1. Inv => ToldUidIsKept
  <2> SUFFICES ASSUME Inv, NEW c \in Client, NEW d \in Client, told[c] # 0
               PROVE  /\ accounts[name[c]].uid = told[c]
                      /\ told[d] # 0 => ((told[c] = told[d]) <=> (name[c] = name[d]))
    BY DEF ToldUidIsKept
  <2>1. /\ accounts[name[c]].uid = told[c]
        /\ told[d] # 0 => accounts[name[d]].uid = told[d]
    BY DEF Inv, Requests
  <2>2. name[c] \in Name /\ name[d] \in Name
    BY DEF Inv, TypeOK
  <2> QED BY <2>1, <2>2 DEF Inv, Uids
<1> QED BY <1>1, Invariance, PTL

\* The nickname last set stays, whatever logins and registrations run meanwhile.
THEOREM NicknamesAreKept == Spec => []NicknameIsKept
<1>1. Inv => NicknameIsKept
  BY DEF Inv
<1> QED BY <1>1, Invariance, PTL

\* Once is_new was cleared and answered, no later login is told otherwise.
THEOREM NewOnce == Spec => []NewnessEnds
<1>1. Inv => NewnessEnds
  BY DEF Inv, Newness, NewnessEnds
<1> QED BY <1>1, Invariance, PTL

=============================================================================
