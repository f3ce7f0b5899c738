---------------------------- MODULE SdkAccounts ----------------------------
(***************************************************************************)
(* Registration, login and nicknames at the SDK (login_user and user_set   *)
(* of cheshire-server-services/src/sdk.rs) over the accounts table         *)
(* (cheshire-server-core/src/database.rs).  One endpoint registers and     *)
(* logs in: a name that has no account is registered and the client is     *)
(* told to try again.                                                      *)
(*                                                                         *)
(* Requests run concurrently, each a sequence of statements with nothing   *)
(* around them but the table's UNIQUE constraint.  A statement may fail,   *)
(* and a client that goes away takes its request with it at any await.     *)
(***************************************************************************)
EXTENDS Naturals, FiniteSets

CONSTANTS
    Client,     \* clients, each of which logs in until it has an account
    Name,       \* user names
    Nick,       \* nicknames
    UserName,   \* the nickname an account begins with: its user name
    MaxFail     \* bound: failed statements and lost requests

ASSUME NameAssumption == IsFiniteSet(Name)
ASSUME FailAssumption == MaxFail \in Nat

NoAccount == [uid |-> 0, isNew |-> FALSE, nick |-> UserName]

VARIABLES
    accounts,   \* the account of each name, or NoAccount
    pc,         \* where each client's request is
    name,       \* the name each client logs in with
    wish,       \* the nickname a client asks for
    found,      \* the account the request's SELECT found
    told,       \* the uid each client was told; 0 before it is logged in
    late,       \* history: the request began after its name was settled
    settled,    \* history: names whose is_new was cleared by an answered login
    named,      \* history: the nickname last set for each name
    failed      \* failures so far

vars == <<accounts, pc, name, wish, found, told, late, settled, named, failed>>

Init ==
    /\ accounts = [n \in Name |-> NoAccount]
    /\ pc = [c \in Client |-> "idle"]
    /\ name \in [Client -> Name]
    /\ wish = [c \in Client |-> UserName]
    /\ found = [c \in Client |-> NoAccount]
    /\ told = [c \in Client |-> 0]
    /\ late = [c \in Client |-> FALSE]
    /\ settled = {}
    /\ named = [n \in Name |-> UserName]
    /\ failed = 0

Goto(c, loc) == pc' = [pc EXCEPT ![c] = loc]

-----------------------------------------------------------------------------
(* login_user *)

\* The client sends POST /user/login, again while it has no account.
Login(c) ==
    /\ pc[c] = "idle"
    /\ Goto(c, "select")
    /\ late' = [late EXCEPT ![c] = name[c] \in settled]
    /\ UNCHANGED <<accounts, name, wish, found, told, settled, named, failed>>

\* Mutant of Select: accounts that are still new are not found.
SelectOld(c) ==
    LET account == accounts[name[c]]
    IN /\ pc[c] = "select"
       /\ found' = [found EXCEPT ![c] = account]
       /\ Goto(c, IF account.uid = 0 \/ account.isNew THEN "insert" ELSE "answer")
       /\ UNCHANGED <<accounts, name, wish, told, late, settled, named, failed>>

\* get_sdk_account_by_user_name, and the response made from what it found.
Select(c) ==
    LET account == accounts[name[c]]
    IN /\ pc[c] = "select"
       /\ found' = [found EXCEPT ![c] = account]
       /\ Goto(c, IF account.uid = 0 THEN "insert"
                  ELSE IF account.isNew THEN "clear" ELSE "answer")
       /\ UNCHANGED <<accounts, name, wish, told, late, settled, named, failed>>

\* create_sdk_account: the next uid and is_new = 1.
Create(n) ==
    accounts' = [accounts EXCEPT ![n] =
        [uid |-> Cardinality({m \in Name : accounts[m].uid # 0}) + 1, isNew |-> TRUE,
         nick |-> UserName]]

\* Mutants of Insert: there is no constraint; a conflict sets is_new again.
InsertUnchecked(c) ==
    /\ pc[c] = "insert"
    /\ Create(name[c])
    /\ Goto(c, "idle")
    /\ UNCHANGED <<name, wish, found, told, late, settled, named, failed>>

InsertUpserts(c) ==
    /\ pc[c] = "insert"
    /\ \/ /\ accounts[name[c]].uid = 0
          /\ Create(name[c])
       \/ /\ accounts[name[c]].uid # 0
          /\ accounts' = [accounts EXCEPT ![name[c]].isNew = TRUE]
    /\ Goto(c, "idle")
    /\ UNCHANGED <<name, wish, found, told, late, settled, named, failed>>

\* The account is made and the answer is 100900, without a uid; or somebody
\* made it since the SELECT, the constraint fails and the answer is a 500.
Insert(c) ==
    /\ pc[c] = "insert"
    /\ \/ /\ accounts[name[c]].uid = 0
          /\ Create(name[c])
       \/ /\ accounts[name[c]].uid # 0
          /\ UNCHANGED accounts
    /\ Goto(c, "idle")
    /\ UNCHANGED <<name, wish, found, told, late, settled, named, failed>>

\* clear_sdk_new_flag.
ClearNew(n) == accounts' = [accounts EXCEPT ![n].isNew = FALSE]

\* Mutant of Clear: the account is written back as it was found.
ClearWritesBack(c) ==
    /\ pc[c] = "clear"
    /\ accounts' = [accounts EXCEPT ![name[c]] = [found[c] EXCEPT !.isNew = FALSE]]
    /\ Goto(c, "answer")
    /\ UNCHANGED <<name, wish, found, told, late, settled, named, failed>>

Clear(c) ==
    /\ pc[c] = "clear"
    /\ ClearNew(name[c])
    /\ Goto(c, "answer")
    /\ UNCHANGED <<name, wish, found, told, late, settled, named, failed>>

\* The answer with the uid and IsNew as the SELECT found them.
Answer(c) ==
    /\ pc[c] = "answer"
    /\ told' = [told EXCEPT ![c] = found[c].uid]
    /\ settled' = IF accounts[name[c]].isNew THEN settled ELSE settled \cup {name[c]}
    /\ Goto(c, "done")
    /\ UNCHANGED <<accounts, name, wish, found, late, named, failed>>

\* A logged-in client starts over, with this name or another.
Again(c, n) ==
    /\ pc[c] = "done"
    /\ name' = [name EXCEPT ![c] = n]
    /\ told' = [told EXCEPT ![c] = 0]
    /\ Goto(c, "idle")
    /\ UNCHANGED <<accounts, wish, found, late, settled, named, failed>>

-----------------------------------------------------------------------------
(* user_set *)

\* A logged-in client asks for a nickname, under the uid it was told.
Ask(c, nick) ==
    /\ pc[c] = "done"
    /\ wish' = [wish EXCEPT ![c] = nick]
    /\ Goto(c, "set")
    /\ UNCHANGED <<accounts, name, found, told, late, settled, named, failed>>

\* update_sdk_nickname: the account with the uid, if there is one.
UpdateNick(c) ==
    /\ accounts' = [n \in Name |->
           IF accounts[n].uid = told[c] THEN [accounts[n] EXCEPT !.nick = wish[c]] ELSE accounts[n]]
    /\ named' = [named EXCEPT ![name[c]] = wish[c]]

Rename(c) ==
    /\ pc[c] = "set"
    /\ UpdateNick(c)
    /\ wish' = [wish EXCEPT ![c] = UserName]
    /\ Goto(c, "done")
    /\ UNCHANGED <<name, found, told, late, settled, failed>>

-----------------------------------------------------------------------------
(* Failures *)

\* A statement fails: the answer is a 500, except that a failed clear is only
\* logged and the login answered all the same.
DbError(c) ==
    /\ failed < MaxFail
    /\ failed' = failed + 1
    /\ wish' = [wish EXCEPT ![c] = UserName]
    /\ \/ pc[c] \in {"select", "insert"} /\ Goto(c, "idle")
       \/ pc[c] = "clear" /\ Goto(c, "answer")
       \/ pc[c] = "set" /\ Goto(c, "done")
    /\ UNCHANGED <<accounts, name, found, told, late, settled, named>>

\* The connection or the server goes away and the handler is dropped at its
\* await; a statement under way takes effect or not.
Lost(c) ==
    /\ failed < MaxFail
    /\ failed' = failed + 1
    /\ pc[c] \in {"select", "insert", "clear", "answer"}
    /\ \/ UNCHANGED accounts
       \/ pc[c] = "insert" /\ accounts[name[c]].uid = 0 /\ Create(name[c])
       \/ pc[c] = "clear" /\ ClearNew(name[c])
    /\ Goto(c, "idle")
    /\ UNCHANGED <<name, wish, found, told, late, settled, named>>

\* The same for a nickname.
LostRename(c) ==
    /\ failed < MaxFail
    /\ failed' = failed + 1
    /\ pc[c] = "set"
    /\ UpdateNick(c) \/ UNCHANGED <<accounts, named>>
    /\ wish' = [wish EXCEPT ![c] = UserName]
    /\ Goto(c, "done")
    /\ UNCHANGED <<name, found, told, late, settled>>

Handler(c) == Select(c) \/ Insert(c) \/ Clear(c) \/ Answer(c) \/ Rename(c)

Next ==
    \E c \in Client :
        \/ Login(c) \/ Handler(c) \/ DbError(c) \/ Lost(c) \/ LostRename(c)
        \/ \E n \in Name : Again(c, n)
        \/ \E nick \in Nick : Ask(c, nick)

\* Handlers run; the user of a client keeps trying until he is logged in.
Fairness == \A c \in Client : WF_vars(Login(c)) /\ WF_vars(Handler(c))

Spec == Init /\ [][Next]_vars /\ Fairness

-----------------------------------------------------------------------------
(* Properties *)

Account == [uid : 0..Cardinality(Name), isNew : BOOLEAN, nick : Nick \cup {UserName}]

TypeOK ==
    /\ accounts \in [Name -> Account]
    /\ pc \in [Client -> {"idle", "select", "insert", "clear", "answer", "done", "set"}]
    /\ wish \in [Client -> Nick \cup {UserName}]
    /\ named \in [Name -> Nick \cup {UserName}]
    /\ name \in [Client -> Name]
    /\ found \in [Client -> Account]
    /\ told \in [Client -> 0..Cardinality(Name)]
    /\ late \in [Client -> BOOLEAN]
    /\ settled \subseteq Name
    /\ failed \in 0..MaxFail

\* A uid that a client was told is its name's for good and nobody else's,
\* however registrations of one name race: the player saved under it is found
\* by every later login.
ToldUidIsKept ==
    \A c, d \in Client :
        told[c] # 0 =>
            /\ accounts[name[c]].uid = told[c]
            /\ told[d] # 0 => ((told[c] = told[d]) <=> (name[c] = name[d]))

\* An account keeps the nickname it was given last, by whichever client and
\* answered or not: logins and registrations that are under way with an older
\* state of the account do not take it back, and nobody else gets it.
NicknameIsKept == \A n \in Name : accounts[n].nick = named[n]

\* Once a login of a name was answered with is_new cleared, no later one is
\* answered as a new account again.
NewnessEnds ==
    \A c \in Client : pc[c] = "answer" /\ late[c] => ~found[c].isNew

\* README: any name is registered or logged in directly.  A client that keeps
\* trying is logged in once statements stop failing: losing the race for the
\* name costs it one more try.
LoginSucceeds == \A c \in Client : pc[c] = "idle" ~> pc[c] = "done"

=============================================================================
