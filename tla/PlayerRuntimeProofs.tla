------------------------ MODULE PlayerRuntimeProofs ------------------------
(***************************************************************************)
(* Machine-checked proofs about PlayerRuntime, for any connections,        *)
(* accounts and changes.                                                   *)
(***************************************************************************)
EXTENDS PlayerRuntime, TLAPS

-----------------------------------------------------------------------------
(* The inductive invariant *)

\* Where a task is says what its locals are: a packet in hand is for an account,
\* which the slot names once the login has been accepted, and a task inside
\* ensure_player has a call of it to return from.
LocalsOK ==
    \A c \in Conn :
        /\ pc[c] \in Busy => target[c] \in Uid
        /\ pc[c] \in Busy \ {"login"} => slot[c] = target[c]
        /\ pc[c] \in Loading => ensures[c] \in {1, 2}

\* A task that has passed ensure_player finds its player loaded, until a
\* restart ends the task.
LoadedOK ==
    \A c \in Conn, u \in Uid :
        target[c] = u /\ pc[c] \in {"handle", "save", "reply"} => players[u] # NotLoaded

\* While a player is not loaded nothing but defaults is written to its row, so
\* what a loading task holds is still what the row says.
LoadingTask(c, u) ==
    /\ target[c] = u /\ pc[c] = "create" =>
          snap[c] = {} /\ (players[u] = NotLoaded => Parse(data[u]) = {})
    /\ target[c] = u /\ pc[c] = "insert" /\ players[u] = NotLoaded =>
          data[u] = snap[c]

LoadingOK == \A c \in Conn, u \in Uid : LoadingTask(c, u)

\* The change in hand was sent as the account in hand, is in the PlayerInfo
\* that is being saved, and is only answered after it was sent.
ChangeOK ==
    /\ \A c \in Conn :
          /\ change[c] # NoChange => pc[c] \in Busy /\ sentTo[change[c]] = target[c]
          /\ pc[c] = "save" => change[c] \in snap[c]
    /\ \A m \in replied : sentTo[m] \in Uid

\* Every write in flight for a loaded player carries all the changes the cache
\* holds, but those that crossed it.
WritesOK ==
    \A c \in Conn, u \in Uid :
        target[c] = u /\ Writing(c) /\ players[u] # NotLoaded
            => players[u] \ crossed \subseteq snap[c]

\* A change about to be answered is in the row, unless it crossed a write.
StoredOK ==
    \A c \in Conn :
        pc[c] = "reply" /\ change[c] \notin crossed \cup {NoChange}
            => change[c] \in Parse(data[target[c]])

IInv ==
    /\ TypeOK /\ LocalsOK /\ LoadedOK /\ LoadingOK /\ CacheIsAhead
    /\ ChangeOK /\ ChangesStayInTheirAccount
    /\ WritesOK /\ StoredOK /\ RepliedIsDurable

-----------------------------------------------------------------------------
(* Preservation, one lemma per group of conjuncts, one step per action *)

USE DEF Busy, Loading, locals, history, Goto, DropLocals, Close

\* The types of the locals need LocalsOK: ensure_player's call count is only
\* decremented where it is positive.
LEMMA TypeStep ==
    ASSUME TypeOK, LocalsOK, [Next]_vars
    PROVE  TypeOK' /\ LocalsOK'
<1> USE SentinelAssumption
<1> USE DEF TypeOK, LocalsOK, Info, Row
<1>1. ASSUME NEW c \in Conn, Accept(c) PROVE TypeOK' /\ LocalsOK'
  BY <1>1 DEF Accept
<1>2. ASSUME NEW c \in Conn, Hangup(c) PROVE TypeOK' /\ LocalsOK'
  BY <1>2 DEF Hangup
<1>3. ASSUME NEW c \in Conn, NEW u \in Uid, Login(c, u) PROVE TypeOK' /\ LocalsOK'
  BY <1>3 DEF Login
<1>4. ASSUME NEW c \in Conn, CheckBan(c) PROVE TypeOK' /\ LocalsOK'
  BY <1>4 DEF CheckBan
<1>5. ASSUME NEW c \in Conn, NEW m \in Change \cup {NoChange}, Receive(c, m)
      PROVE  TypeOK' /\ LocalsOK'
  BY <1>5 DEF Receive
<1>6. ASSUME NEW c \in Conn, Check(c) PROVE TypeOK' /\ LocalsOK'
  BY <1>6 DEF Check, EnsureReturns
<1>7. ASSUME NEW c \in Conn, Select(c) PROVE TypeOK' /\ LocalsOK'
  BY <1>7 DEF Select, Parse
<1>8. ASSUME NEW c \in Conn, Create(c) PROVE TypeOK' /\ LocalsOK'
  BY <1>8 DEF Create, Upsert
<1>9. ASSUME NEW c \in Conn, Insert(c) PROVE TypeOK' /\ LocalsOK'
  BY <1>9 DEF Insert, EnsureReturns
<1>10. ASSUME NEW c \in Conn, Handle(c) PROVE TypeOK' /\ LocalsOK'
  BY <1>10 DEF Handle
<1>11. ASSUME NEW c \in Conn, Save(c) PROVE TypeOK' /\ LocalsOK'
  BY <1>11 DEF Save, Upsert
<1>12. ASSUME NEW c \in Conn, Reply(c) PROVE TypeOK' /\ LocalsOK'
  BY <1>12 DEF Reply
<1>13. ASSUME NEW c \in Conn, DbError(c) PROVE TypeOK' /\ LocalsOK'
  BY <1>13 DEF DbError, Writing
<1>14. CASE Restart
  BY <1>14 DEF Restart
<1>15. ASSUME NEW u \in Uid, Ban(u) PROVE TypeOK' /\ LocalsOK'
  BY <1>15 DEF Ban
<1>16. CASE UNCHANGED vars
  BY <1>16 DEF vars
<1> QED
  BY <1>1, <1>2, <1>3, <1>4, <1>5, <1>6, <1>7, <1>8, <1>9, <1>10, <1>11, <1>12,
     <1>13, <1>14, <1>15, <1>16 DEF Next, Task, Peer

\* What the steps that write the cache or a row do, point by point.
LEMMA InsertEffect ==
    ASSUME TypeOK, LocalsOK, NEW c \in Conn, Insert(c)
    PROVE  /\ target[c] \in Uid /\ pc[c] = "insert" /\ snap[c] \in Info
           /\ \A u \in Uid : players'[u] =
                 IF u = target[c] /\ players[u] = NotLoaded THEN snap[c] ELSE players[u]
           /\ pc'[c] \in {"check", "handle"} /\ snap'[c] = {}
           /\ \A d \in Conn \ {c} : pc'[d] = pc[d] /\ snap'[d] = snap[d]
           /\ UNCHANGED <<data, target, change, history>>
<1> QED BY DEF TypeOK, LocalsOK, Info, Insert, EnsureReturns

LEMMA HandleEffect ==
    ASSUME TypeOK, LocalsOK, NEW c \in Conn, Handle(c), players[target[c]] # NotLoaded,
           change[c] # NoChange
    PROVE  /\ target[c] \in Uid /\ pc[c] = "handle" /\ pc'[c] = "save"
           /\ change[c] \in Change /\ players[target[c]] \in Info
           /\ players'[target[c]] = players[target[c]] \cup {change[c]}
           /\ players'[target[c]] # NotLoaded
           /\ snap'[c] = players[target[c]] \cup {change[c]}
           /\ \A u \in Uid \ {target[c]} : players'[u] = players[u]
           /\ \A d \in Conn \ {c} : pc'[d] = pc[d] /\ snap'[d] = snap[d]
           /\ crossed' = crossed \cup {m \in {change[c]} : OtherWrite(c)}
           /\ UNCHANGED <<data, target, change, sentTo, replied>>
<1> USE SentinelAssumption
<1>1. target[c] \in Uid /\ change[c] \in Change /\ players[target[c]] \in Info
  BY DEF TypeOK, LocalsOK, Handle
<1>2. players[target[c]] \cup {change[c]} \in Info
  BY <1>1 DEF Info
<1>3. players' = [players EXCEPT ![target[c]] = players[target[c]] \cup {change[c]}]
  BY DEF Handle
<1>4. snap' = [snap EXCEPT ![c] = players[target[c]] \cup {change[c]}]
  BY DEF Handle
<1>5. pc[c] = "handle" /\ pc' = [pc EXCEPT ![c] = "save"]
  BY DEF Handle, Goto
<1>6. /\ crossed' = crossed \cup {m \in {change[c]} : OtherWrite(c)}
      /\ UNCHANGED <<data, target, change, sentTo, replied>>
  BY DEF Handle
<1> QED BY <1>1, <1>2, <1>3, <1>4, <1>5, <1>6 DEF TypeOK

LEMMA CreateEffect ==
    ASSUME TypeOK, LocalsOK, NEW c \in Conn, Create(c)
    PROVE  /\ target[c] \in Uid /\ pc[c] = "create" /\ pc'[c] = "insert"
           /\ data'[target[c]] = snap[c] /\ Parse(snap[c]) = snap[c]
           /\ snap[c] \notin {Absent, Garbled}
           /\ \A u \in Uid \ {target[c]} : data'[u] = data[u]
           /\ \A d \in Conn \ {c} : pc'[d] = pc[d]
           /\ UNCHANGED <<players, snap, target, change, history>>
<1> USE SentinelAssumption
<1> QED BY DEF TypeOK, LocalsOK, Create, Upsert, Parse

LEMMA SaveEffect ==
    ASSUME TypeOK, LocalsOK, NEW c \in Conn, Save(c)
    PROVE  /\ target[c] \in Uid /\ pc[c] = "save" /\ pc'[c] = "reply"
           /\ data'[target[c]] = snap[c] /\ Parse(snap[c]) = snap[c]
           /\ snap[c] \notin {Absent, Garbled}
           /\ \A u \in Uid \ {target[c]} : data'[u] = data[u]
           /\ \A d \in Conn \ {c} : pc'[d] = pc[d]
           /\ UNCHANGED <<players, snap, target, change, history>>
<1> USE SentinelAssumption
<1> QED BY DEF TypeOK, LocalsOK, Save, Upsert, Parse

\* What a load makes of a row, and what the cache holds, are PlayerInfos.
LEMMA InfoFacts ==
    ASSUME TypeOK
    PROVE  \A u \in Uid : Parse(data[u]) \in Info /\ Cached(u) \in Info
BY DEF TypeOK, Parse, Cached, Row, Info

\* Nothing but a restart unloads a player, and that leaves no task behind.
LEMMA LoadedStep ==
    ASSUME TypeOK, LocalsOK, LoadedOK, [Next]_vars
    PROVE  LoadedOK'
<1> USE DEF LoadedOK
<1>1. ASSUME NEW c \in Conn, Accept(c) PROVE LoadedOK'
  BY <1>1 DEF Accept, TypeOK, LocalsOK
<1>2. ASSUME NEW c \in Conn, Hangup(c) PROVE LoadedOK'
  BY <1>2 DEF Hangup, TypeOK, LocalsOK
<1>3. ASSUME NEW c \in Conn, NEW u \in Uid, Login(c, u) PROVE LoadedOK'
  BY <1>3 DEF Login, TypeOK, LocalsOK
<1>4. ASSUME NEW c \in Conn, CheckBan(c) PROVE LoadedOK'
  BY <1>4 DEF CheckBan, TypeOK, LocalsOK
<1>5. ASSUME NEW c \in Conn, NEW m \in Change \cup {NoChange}, Receive(c, m) PROVE LoadedOK'
  BY <1>5 DEF Receive, TypeOK, LocalsOK
<1>6. ASSUME NEW c \in Conn, Check(c) PROVE LoadedOK'
  BY <1>6 DEF Check, EnsureReturns, TypeOK, LocalsOK
<1>7. ASSUME NEW c \in Conn, Select(c) PROVE LoadedOK'
  BY <1>7 DEF Select, Parse, TypeOK, LocalsOK
<1>8. ASSUME NEW c \in Conn, Create(c) PROVE LoadedOK'
  BY <1>8, CreateEffect
<1>9. ASSUME NEW c \in Conn, Insert(c) PROVE LoadedOK'
  BY <1>9, InsertEffect, SentinelAssumption
<1>10. ASSUME NEW c \in Conn, Handle(c) PROVE LoadedOK'
  <2>1. CASE players[target[c]] # NotLoaded /\ change[c] # NoChange
    BY <1>10, <2>1, HandleEffect
  <2>2. CASE ~(players[target[c]] # NotLoaded /\ change[c] # NoChange)
    BY <1>10, <2>2 DEF Handle, TypeOK, LocalsOK
  <2> QED BY <2>1, <2>2
<1>11. ASSUME NEW c \in Conn, Save(c) PROVE LoadedOK'
  BY <1>11, SaveEffect
<1>12. ASSUME NEW c \in Conn, Reply(c) PROVE LoadedOK'
  BY <1>12 DEF Reply, TypeOK, LocalsOK
<1>13. ASSUME NEW c \in Conn, DbError(c) PROVE LoadedOK'
  BY <1>13 DEF DbError, Writing, TypeOK, LocalsOK
<1>14. CASE Restart
  BY <1>14 DEF Restart, Writing, Parse, TypeOK, LocalsOK
<1>15. ASSUME NEW u \in Uid, Ban(u) PROVE LoadedOK'
  BY <1>15 DEF Ban, TypeOK, LocalsOK
<1>16. CASE UNCHANGED vars
  BY <1>16 DEF vars, TypeOK, LocalsOK
<1> QED
  BY <1>1, <1>2, <1>3, <1>4, <1>5, <1>6, <1>7, <1>8, <1>9, <1>10, <1>11, <1>12,
     <1>13, <1>14, <1>15, <1>16 DEF Next, Task, Peer

\* The first of several loaders inserts what the row holds, and until then the
\* others write only the default into a row that held nothing.
LEMMA LoadingStep ==
    ASSUME TypeOK, LocalsOK, LoadedOK, LoadingOK, [Next]_vars
    PROVE  LoadingOK'
<1> USE DEF LoadedOK, LoadingOK, LoadingTask
<1>1. ASSUME NEW c \in Conn, Accept(c) PROVE LoadingOK'
  BY <1>1 DEF Accept, TypeOK, LocalsOK
<1>2. ASSUME NEW c \in Conn, Hangup(c) PROVE LoadingOK'
  BY <1>2 DEF Hangup, TypeOK, LocalsOK
<1>3. ASSUME NEW c \in Conn, NEW u \in Uid, Login(c, u) PROVE LoadingOK'
  BY <1>3 DEF Login, TypeOK, LocalsOK
<1>4. ASSUME NEW c \in Conn, CheckBan(c) PROVE LoadingOK'
  BY <1>4 DEF CheckBan, TypeOK, LocalsOK
<1>5. ASSUME NEW c \in Conn, NEW m \in Change \cup {NoChange}, Receive(c, m) PROVE LoadingOK'
  BY <1>5 DEF Receive, TypeOK, LocalsOK
<1>6. ASSUME NEW c \in Conn, Check(c) PROVE LoadingOK'
  BY <1>6 DEF Check, EnsureReturns, TypeOK, LocalsOK
<1>7. ASSUME NEW c \in Conn, Select(c) PROVE LoadingOK'
  BY <1>7 DEF Select, Parse, TypeOK, LocalsOK
<1>8. ASSUME NEW c \in Conn, Create(c) PROVE LoadingOK'
  <2>1. \A d \in Conn : Parse(snap[d]) = snap[d]
    BY SentinelAssumption DEF TypeOK, Parse
  <2>2. pc[c] = "create" /\ snap[c] = {} /\ data'[target[c]] = {} /\ Parse({}) = {}
    BY <1>8, <2>1, CreateEffect
  <2>3. ASSUME NEW d \in Conn, target[d] = target[c], pc[d] = "insert",
               players[target[c]] = NotLoaded
        PROVE  snap[d] = {}
    BY <1>8, <2>1, <2>2, <2>3, CreateEffect
  <2>4. ASSUME NEW d \in Conn, NEW u \in Uid, u = target[c] PROVE LoadingTask(d, u)'
    BY <1>8, <2>2, <2>3, <2>4, CreateEffect
  <2>5. ASSUME NEW d \in Conn, NEW u \in Uid, u # target[c] PROVE LoadingTask(d, u)'
    BY <1>8, <2>5, CreateEffect
  <2> QED BY <2>4, <2>5
<1>9. ASSUME NEW c \in Conn, Insert(c) PROVE LoadingOK'
  BY <1>9, InsertEffect, SentinelAssumption
<1>10. ASSUME NEW c \in Conn, Handle(c) PROVE LoadingOK'
  <2>1. CASE players[target[c]] # NotLoaded /\ change[c] # NoChange
    BY <1>10, <2>1, HandleEffect
  <2>2. CASE ~(players[target[c]] # NotLoaded /\ change[c] # NoChange)
    BY <1>10, <2>2 DEF Handle, TypeOK, LocalsOK
  <2> QED BY <2>1, <2>2
<1>11. ASSUME NEW c \in Conn, Save(c) PROVE LoadingOK'
  BY <1>11, SaveEffect
<1>12. ASSUME NEW c \in Conn, Reply(c) PROVE LoadingOK'
  BY <1>12 DEF Reply, TypeOK, LocalsOK
<1>13. ASSUME NEW c \in Conn, DbError(c) PROVE LoadingOK'
  BY <1>13 DEF DbError, Writing, TypeOK, LocalsOK
<1>14. CASE Restart
  BY <1>14 DEF Restart, Writing, Parse, TypeOK, LocalsOK
<1>15. ASSUME NEW u \in Uid, Ban(u) PROVE LoadingOK'
  BY <1>15 DEF Ban, TypeOK, LocalsOK
<1>16. CASE UNCHANGED vars
  BY <1>16 DEF vars, TypeOK, LocalsOK
<1> QED
  BY <1>1, <1>2, <1>3, <1>4, <1>5, <1>6, <1>7, <1>8, <1>9, <1>10, <1>11, <1>12,
     <1>13, <1>14, <1>15, <1>16 DEF Next, Task, Peer

\* The cache only grows, and what is saved was cloned from it.
LEMMA CacheStep ==
    ASSUME TypeOK, LocalsOK, LoadedOK, LoadingOK, CacheIsAhead, [Next]_vars
    PROVE  CacheIsAhead'
<1> USE DEF LoadedOK, LoadingOK, LoadingTask, CacheIsAhead
<1>1. ASSUME NEW c \in Conn, Accept(c) PROVE CacheIsAhead'
  BY <1>1 DEF Accept, TypeOK, LocalsOK
<1>2. ASSUME NEW c \in Conn, Hangup(c) PROVE CacheIsAhead'
  BY <1>2 DEF Hangup, TypeOK, LocalsOK
<1>3. ASSUME NEW c \in Conn, NEW u \in Uid, Login(c, u) PROVE CacheIsAhead'
  BY <1>3 DEF Login, TypeOK, LocalsOK
<1>4. ASSUME NEW c \in Conn, CheckBan(c) PROVE CacheIsAhead'
  BY <1>4 DEF CheckBan, TypeOK, LocalsOK
<1>5. ASSUME NEW c \in Conn, NEW m \in Change \cup {NoChange}, Receive(c, m) PROVE CacheIsAhead'
  BY <1>5 DEF Receive, TypeOK, LocalsOK
<1>6. ASSUME NEW c \in Conn, Check(c) PROVE CacheIsAhead'
  BY <1>6 DEF Check, EnsureReturns, TypeOK, LocalsOK
<1>7. ASSUME NEW c \in Conn, Select(c) PROVE CacheIsAhead'
  BY <1>7 DEF Select, Parse, TypeOK, LocalsOK
<1>8. ASSUME NEW c \in Conn, Create(c) PROVE CacheIsAhead'
  BY <1>8, CreateEffect
<1>9. ASSUME NEW c \in Conn, Insert(c) PROVE CacheIsAhead'
  BY <1>9, InsertEffect, SentinelAssumption
<1>10. ASSUME NEW c \in Conn, Handle(c) PROVE CacheIsAhead'
  <2>1. CASE players[target[c]] # NotLoaded /\ change[c] # NoChange
    BY <1>10, <2>1, HandleEffect
  <2>2. CASE ~(players[target[c]] # NotLoaded /\ change[c] # NoChange)
    BY <1>10, <2>2 DEF Handle, TypeOK, LocalsOK
  <2> QED BY <2>1, <2>2
<1>11. ASSUME NEW c \in Conn, Save(c) PROVE CacheIsAhead'
  BY <1>11, SaveEffect
<1>12. ASSUME NEW c \in Conn, Reply(c) PROVE CacheIsAhead'
  BY <1>12 DEF Reply, TypeOK, LocalsOK
<1>13. ASSUME NEW c \in Conn, DbError(c) PROVE CacheIsAhead'
  BY <1>13 DEF DbError, Writing, TypeOK, LocalsOK
<1>14. CASE Restart
  BY <1>14 DEF Restart, Writing, Parse, TypeOK, LocalsOK
<1>15. ASSUME NEW u \in Uid, Ban(u) PROVE CacheIsAhead'
  BY <1>15 DEF Ban, TypeOK, LocalsOK
<1>16. CASE UNCHANGED vars
  BY <1>16 DEF vars, TypeOK, LocalsOK
<1> QED
  BY <1>1, <1>2, <1>3, <1>4, <1>5, <1>6, <1>7, <1>8, <1>9, <1>10, <1>11, <1>12,
     <1>13, <1>14, <1>15, <1>16 DEF Next, Task, Peer

\* A change is sent once, and travels with its task.
LEMMA ChangeStep ==
    ASSUME TypeOK, LocalsOK, LoadedOK, ChangeOK, [Next]_vars
    PROVE  ChangeOK'
<1> USE DEF ChangeOK
<1>1. ASSUME NEW c \in Conn, Accept(c) PROVE ChangeOK'
  BY <1>1, SentinelAssumption DEF Accept, TypeOK, LocalsOK
<1>2. ASSUME NEW c \in Conn, Hangup(c) PROVE ChangeOK'
  BY <1>2, SentinelAssumption DEF Hangup, TypeOK, LocalsOK
<1>3. ASSUME NEW c \in Conn, NEW u \in Uid, Login(c, u) PROVE ChangeOK'
  BY <1>3, SentinelAssumption DEF Login, TypeOK, LocalsOK
<1>4. ASSUME NEW c \in Conn, CheckBan(c) PROVE ChangeOK'
  BY <1>4, SentinelAssumption DEF CheckBan, TypeOK, LocalsOK
<1>5. ASSUME NEW c \in Conn, NEW m \in Change \cup {NoChange}, Receive(c, m) PROVE ChangeOK'
  BY <1>5, SentinelAssumption DEF Receive, TypeOK, LocalsOK
<1>6. ASSUME NEW c \in Conn, Check(c) PROVE ChangeOK'
  BY <1>6, SentinelAssumption DEF Check, EnsureReturns, TypeOK, LocalsOK
<1>7. ASSUME NEW c \in Conn, Select(c) PROVE ChangeOK'
  BY <1>7, SentinelAssumption DEF Select, Parse, TypeOK, LocalsOK
<1>8. ASSUME NEW c \in Conn, Create(c) PROVE ChangeOK'
  BY <1>8, CreateEffect
<1>9. ASSUME NEW c \in Conn, Insert(c) PROVE ChangeOK'
  BY <1>9, InsertEffect, SentinelAssumption
<1>10. ASSUME NEW c \in Conn, Handle(c) PROVE ChangeOK'
  <2>1. CASE players[target[c]] # NotLoaded /\ change[c] # NoChange
    BY <1>10, <2>1, HandleEffect
  <2>2. CASE ~(players[target[c]] # NotLoaded /\ change[c] # NoChange)
    BY <1>10, <2>2 DEF Handle, TypeOK, LocalsOK
  <2> QED BY <2>1, <2>2
<1>11. ASSUME NEW c \in Conn, Save(c) PROVE ChangeOK'
  BY <1>11, SaveEffect
<1>12. ASSUME NEW c \in Conn, Reply(c) PROVE ChangeOK'
  <2>1. change[c] # NoChange => sentTo[change[c]] \in Uid
    BY <1>12 DEF Reply, LocalsOK
  <2>2. \A m \in replied' : m \in replied \/ (m = change[c] /\ m # NoChange)
    <3>1. replied' = replied \cup ({change[c]} \cap Change)
      BY <1>12 DEF Reply
    <3> QED BY <3>1, SentinelAssumption
  <2> QED BY <1>12, <2>1, <2>2 DEF Reply, TypeOK
<1>13. ASSUME NEW c \in Conn, DbError(c) PROVE ChangeOK'
  BY <1>13, SentinelAssumption DEF DbError, Writing, TypeOK, LocalsOK
<1>14. CASE Restart
  BY <1>14, SentinelAssumption DEF Restart, Writing, Parse, TypeOK, LocalsOK
<1>15. ASSUME NEW u \in Uid, Ban(u) PROVE ChangeOK'
  BY <1>15, SentinelAssumption DEF Ban, TypeOK, LocalsOK
<1>16. CASE UNCHANGED vars
  BY <1>16, SentinelAssumption DEF vars, TypeOK, LocalsOK
<1> QED
  BY <1>1, <1>2, <1>3, <1>4, <1>5, <1>6, <1>7, <1>8, <1>9, <1>10, <1>11, <1>12,
     <1>13, <1>14, <1>15, <1>16 DEF Next, Task, Peer

\* What a task saves or loads for an account comes from that account.
LEMMA StayStep ==
    ASSUME TypeOK, LocalsOK, ChangeOK, ChangesStayInTheirAccount, [Next]_vars
    PROVE  ChangesStayInTheirAccount'
<1> USE DEF ChangesStayInTheirAccount, ChangeOK
<1>1. ASSUME NEW c \in Conn, Accept(c) PROVE ChangesStayInTheirAccount'
  BY <1>1, SentinelAssumption DEF Cached, Parse, Accept, TypeOK, LocalsOK
<1>2. ASSUME NEW c \in Conn, Hangup(c) PROVE ChangesStayInTheirAccount'
  BY <1>2, SentinelAssumption DEF Cached, Parse, Hangup, TypeOK, LocalsOK
<1>3. ASSUME NEW c \in Conn, NEW u \in Uid, Login(c, u) PROVE ChangesStayInTheirAccount'
  BY <1>3, SentinelAssumption DEF Cached, Parse, Login, TypeOK, LocalsOK
<1>4. ASSUME NEW c \in Conn, CheckBan(c) PROVE ChangesStayInTheirAccount'
  BY <1>4, SentinelAssumption DEF Cached, Parse, CheckBan, TypeOK, LocalsOK
<1>5. ASSUME NEW c \in Conn, NEW m \in Change \cup {NoChange}, Receive(c, m) PROVE ChangesStayInTheirAccount'
  <2>1. \A x \in Change : sentTo[x] \in Uid => sentTo'[x] = sentTo[x]
    BY <1>5, SentinelAssumption DEF Receive, TypeOK
  <2>2. \A u \in Uid : Parse(data[u]) \cup Cached(u) \subseteq Change
    BY InfoFacts DEF Info
  <2>3. ASSUME NEW d \in Conn, pc'[d] \in {"create", "insert", "save"}
        PROVE  /\ pc'[d] = pc[d] /\ target'[d] = target[d] /\ target[d] \in Uid
               /\ snap[d] \subseteq Change
    BY <1>5, <2>3 DEF Receive, TypeOK, LocalsOK, Info
  <2>4. \A u \in Uid : (Parse(data[u]) \cup Cached(u))' = Parse(data[u]) \cup Cached(u)
    BY <1>5 DEF Receive, Parse, Cached
  <2>5. snap' = snap
    BY <1>5 DEF Receive
  <2> QED BY <2>1, <2>2, <2>3, <2>4, <2>5
<1>6. ASSUME NEW c \in Conn, Check(c) PROVE ChangesStayInTheirAccount'
  BY <1>6, SentinelAssumption DEF Cached, Parse, Check, EnsureReturns, TypeOK, LocalsOK
<1>7. ASSUME NEW c \in Conn, Select(c) PROVE ChangesStayInTheirAccount'
  <2>1. target[c] \in Uid /\ snap'[c] = Parse(data[target[c]])
    BY <1>7 DEF Select, TypeOK, LocalsOK
  <2>2. \A d \in Conn \ {c} : pc'[d] = pc[d] /\ snap'[d] = snap[d]
    BY <1>7 DEF Select, TypeOK
  <2>3. \A u \in Uid : (Parse(data[u]) \cup Cached(u))' = Parse(data[u]) \cup Cached(u)
    BY <1>7 DEF Select, Parse, Cached
  <2>4. UNCHANGED <<target, sentTo>>
    BY <1>7 DEF Select
  <2> QED BY <2>1, <2>2, <2>3, <2>4
<1>8. ASSUME NEW c \in Conn, Create(c) PROVE ChangesStayInTheirAccount'
  BY <1>8, CreateEffect DEF Cached, Parse
<1>9. ASSUME NEW c \in Conn, Insert(c) PROVE ChangesStayInTheirAccount'
  BY <1>9, InsertEffect, SentinelAssumption DEF Cached, Parse
<1>10. ASSUME NEW c \in Conn, Handle(c) PROVE ChangesStayInTheirAccount'
  <2>1. CASE players[target[c]] # NotLoaded /\ change[c] # NoChange
    BY <1>10, <2>1, HandleEffect DEF Cached, Parse
  <2>2. CASE ~(players[target[c]] # NotLoaded /\ change[c] # NoChange)
    BY <1>10, <2>2 DEF Cached, Parse, Handle, TypeOK, LocalsOK
  <2> QED BY <2>1, <2>2
<1>11. ASSUME NEW c \in Conn, Save(c) PROVE ChangesStayInTheirAccount'
  BY <1>11, SaveEffect DEF Cached, Parse
<1>12. ASSUME NEW c \in Conn, Reply(c) PROVE ChangesStayInTheirAccount'
  BY <1>12, SentinelAssumption DEF Cached, Parse, Reply, TypeOK, LocalsOK
<1>13. ASSUME NEW c \in Conn, DbError(c) PROVE ChangesStayInTheirAccount'
  BY <1>13, SentinelAssumption DEF Cached, Parse, DbError, Writing, TypeOK, LocalsOK
<1>14. CASE Restart
  BY <1>14, SentinelAssumption DEF Cached, Restart, Writing, Parse, TypeOK, LocalsOK
<1>15. ASSUME NEW u \in Uid, Ban(u) PROVE ChangesStayInTheirAccount'
  BY <1>15, SentinelAssumption DEF Cached, Parse, Ban, TypeOK, LocalsOK
<1>16. CASE UNCHANGED vars
  BY <1>16, SentinelAssumption DEF Cached, Parse, vars, TypeOK, LocalsOK
<1> QED
  BY <1>1, <1>2, <1>3, <1>4, <1>5, <1>6, <1>7, <1>8, <1>9, <1>10, <1>11, <1>12,
     <1>13, <1>14, <1>15, <1>16 DEF Next, Task, Peer

\* A change is marked when it overtakes a write in flight, and a default is
\* written only to a row whose player nobody had loaded.
LEMMA WritesStep ==
    ASSUME TypeOK, LocalsOK, LoadedOK, LoadingOK, CacheIsAhead, WritesOK, [Next]_vars
    PROVE  WritesOK'
<1> USE DEF WritesOK
<1>1. ASSUME NEW c \in Conn, Accept(c) PROVE WritesOK'
  BY <1>1, SentinelAssumption DEF Accept, TypeOK, LocalsOK, Writing
<1>2. ASSUME NEW c \in Conn, Hangup(c) PROVE WritesOK'
  BY <1>2, SentinelAssumption DEF Hangup, TypeOK, LocalsOK, Writing
<1>3. ASSUME NEW c \in Conn, NEW u \in Uid, Login(c, u) PROVE WritesOK'
  BY <1>3, SentinelAssumption DEF Login, TypeOK, LocalsOK, Writing
<1>4. ASSUME NEW c \in Conn, CheckBan(c) PROVE WritesOK'
  BY <1>4, SentinelAssumption DEF CheckBan, TypeOK, LocalsOK, Writing
<1>5. ASSUME NEW c \in Conn, NEW m \in Change \cup {NoChange}, Receive(c, m) PROVE WritesOK'
  BY <1>5, SentinelAssumption DEF Receive, TypeOK, LocalsOK, Writing
<1>6. ASSUME NEW c \in Conn, Check(c) PROVE WritesOK'
  BY <1>6, SentinelAssumption DEF Check, EnsureReturns, TypeOK, LocalsOK, Writing
<1>7. ASSUME NEW c \in Conn, Select(c) PROVE WritesOK'
  <2>1. ASSUME pc'[c] = "create" PROVE players[target[c]] = NotLoaded
    BY <1>7, <2>1 DEF Select, CacheIsAhead, LocalsOK, TypeOK
  <2>2. \A d \in Conn \ {c} : pc'[d] = pc[d] /\ snap'[d] = snap[d]
    BY <1>7 DEF Select, TypeOK
  <2>3. UNCHANGED <<players, target, crossed>> /\ pc'[c] \in {"create", "insert"}
    BY <1>7 DEF Select, TypeOK
  <2> QED BY <2>1, <2>2, <2>3 DEF Writing
<1>8. ASSUME NEW c \in Conn, Create(c) PROVE WritesOK'
  BY <1>8, CreateEffect DEF Writing
<1>9. ASSUME NEW c \in Conn, Insert(c) PROVE WritesOK'
  <2>1. ASSUME NEW d \in Conn \ {c}, Writing(d), target[d] = target[c],
               players[target[c]] = NotLoaded
        PROVE  snap[c] = {}
    <3>1. pc[d] = "create" /\ Parse(data[target[c]]) = {}
      BY <1>9, <2>1, InsertEffect DEF Writing, LoadedOK, LoadingOK, LoadingTask
    <3>2. data[target[c]] = snap[c] /\ Parse(snap[c]) = snap[c]
      BY <1>9, <2>1, InsertEffect, SentinelAssumption DEF LoadingOK, LoadingTask, Parse
    <3> QED BY <3>1, <3>2
  <2>2. ~Writing(c)'
    BY <1>9, InsertEffect DEF Writing
  <2> SUFFICES ASSUME NEW d \in Conn \ {c}, NEW u \in Uid, target[d] = u, Writing(d),
                      players'[u] # NotLoaded
               PROVE  players'[u] \ crossed \subseteq snap[d]
    BY <1>9, <2>2, InsertEffect DEF Writing
  <2>3. CASE players[u] # NotLoaded
    BY <1>9, <2>3, InsertEffect
  <2>4. CASE players[u] = NotLoaded
    BY <1>9, <2>1, <2>4, InsertEffect
  <2> QED BY <2>3, <2>4
<1>10. ASSUME NEW c \in Conn, Handle(c) PROVE WritesOK'
  <2>1. CASE players[target[c]] # NotLoaded /\ change[c] # NoChange
    <3>1. ASSUME NEW d \in Conn \ {c}, Writing(d), target[d] = target[c]
          PROVE  change[c] \in crossed'
      BY <1>10, <2>1, <3>1, HandleEffect DEF OtherWrite
    <3>2. ASSUME NEW d \in Conn \ {c}, NEW u \in Uid, target[d] = u, Writing(d),
                 players'[u] # NotLoaded
          PROVE  players'[u] \ crossed' \subseteq snap[d]
      BY <1>10, <2>1, <3>1, <3>2, HandleEffect
    <3>3. players'[target[c]] = snap'[c] /\ target' = target
      BY <1>10, <2>1, HandleEffect
    <3> QED BY <1>10, <2>1, <3>2, <3>3, HandleEffect DEF Writing
  <2>2. CASE ~(players[target[c]] # NotLoaded /\ change[c] # NoChange)
    BY <1>10, <2>2 DEF Handle, TypeOK, LocalsOK, Writing
  <2> QED BY <2>1, <2>2
<1>11. ASSUME NEW c \in Conn, Save(c) PROVE WritesOK'
  BY <1>11, SaveEffect DEF Writing
<1>12. ASSUME NEW c \in Conn, Reply(c) PROVE WritesOK'
  BY <1>12, SentinelAssumption DEF Reply, TypeOK, LocalsOK, Writing
<1>13. ASSUME NEW c \in Conn, DbError(c) PROVE WritesOK'
  BY <1>13, SentinelAssumption DEF DbError, TypeOK, LocalsOK, Writing
<1>14. CASE Restart
  BY <1>14, SentinelAssumption DEF Restart, TypeOK, LocalsOK, Writing
<1>15. ASSUME NEW u \in Uid, Ban(u) PROVE WritesOK'
  BY <1>15, SentinelAssumption DEF Ban, TypeOK, LocalsOK, Writing
<1>16. CASE UNCHANGED vars
  BY <1>16, SentinelAssumption DEF vars, TypeOK, LocalsOK, Writing
<1> QED
  BY <1>1, <1>2, <1>3, <1>4, <1>5, <1>6, <1>7, <1>8, <1>9, <1>10, <1>11, <1>12,
     <1>13, <1>14, <1>15, <1>16 DEF Next, Task, Peer

\* A write carries all its row holds, but changes that crossed a write.
LEMMA WriteKeeps ==
    ASSUME TypeOK, LocalsOK, LoadedOK, LoadingOK, CacheIsAhead, WritesOK,
           NEW c \in Conn, Writing(c)
    PROVE  Parse(data[target[c]]) \ crossed \subseteq Parse(snap[c])
<1>1. target[c] \in Uid /\ Parse(snap[c]) = snap[c]
  BY SentinelAssumption DEF LocalsOK, Writing, Parse, TypeOK
<1>2. CASE players[target[c]] = NotLoaded
  BY <1>1, <1>2 DEF Writing, LoadedOK, LoadingOK, LoadingTask
<1>3. CASE players[target[c]] # NotLoaded
  BY <1>1, <1>3 DEF WritesOK, CacheIsAhead, Parse
<1> QED BY <1>2, <1>3

\* A save stores its own change, and no write takes an answered one out.
LEMMA StoredStep ==
    ASSUME TypeOK, LocalsOK, LoadedOK, LoadingOK, CacheIsAhead, ChangeOK, WritesOK, StoredOK,
           [Next]_vars
    PROVE  StoredOK'
<1> USE DEF StoredOK
<1>1. ASSUME NEW c \in Conn, Accept(c) PROVE StoredOK'
  BY <1>1, SentinelAssumption DEF Accept, TypeOK, LocalsOK
<1>2. ASSUME NEW c \in Conn, Hangup(c) PROVE StoredOK'
  BY <1>2, SentinelAssumption DEF Hangup, TypeOK, LocalsOK
<1>3. ASSUME NEW c \in Conn, NEW u \in Uid, Login(c, u) PROVE StoredOK'
  BY <1>3, SentinelAssumption DEF Login, TypeOK, LocalsOK
<1>4. ASSUME NEW c \in Conn, CheckBan(c) PROVE StoredOK'
  BY <1>4, SentinelAssumption DEF CheckBan, TypeOK, LocalsOK
<1>5. ASSUME NEW c \in Conn, NEW m \in Change \cup {NoChange}, Receive(c, m) PROVE StoredOK'
  BY <1>5, SentinelAssumption DEF Receive, TypeOK, LocalsOK
<1>6. ASSUME NEW c \in Conn, Check(c) PROVE StoredOK'
  BY <1>6, SentinelAssumption DEF Check, EnsureReturns, TypeOK, LocalsOK
<1>7. ASSUME NEW c \in Conn, Select(c) PROVE StoredOK'
  BY <1>7 DEF Select, TypeOK
<1>8. ASSUME NEW c \in Conn, Create(c) PROVE StoredOK'
  <2>1. Parse(data[target[c]]) \ crossed \subseteq snap[c]
    BY <1>8, WriteKeeps, CreateEffect DEF Writing
  <2>2. ASSUME NEW d \in Conn, d # c, pc[d] = "reply", change[d] \notin crossed \cup {NoChange}
        PROVE  change[d] \in Parse(data'[target[d]])
    <3>1. change[d] \in Parse(data[target[d]]) /\ target[d] \in Uid
      BY <2>2 DEF LocalsOK
    <3> QED BY <1>8, <2>1, <2>2, <3>1, CreateEffect
  <2> QED BY <1>8, <2>2, CreateEffect
<1>9. ASSUME NEW c \in Conn, Insert(c) PROVE StoredOK'
  BY <1>9, InsertEffect
<1>10. ASSUME NEW c \in Conn, Handle(c) PROVE StoredOK'
  <2>1. CASE players[target[c]] # NotLoaded /\ change[c] # NoChange
    BY <1>10, <2>1, HandleEffect
  <2>2. CASE ~(players[target[c]] # NotLoaded /\ change[c] # NoChange)
    BY <1>10, <2>2 DEF Handle, TypeOK, LocalsOK
  <2> QED BY <2>1, <2>2
<1>11. ASSUME NEW c \in Conn, Save(c) PROVE StoredOK'
  <2>1. Parse(data[target[c]]) \ crossed \subseteq snap[c]
    BY <1>11, WriteKeeps, SaveEffect DEF Writing
  <2>2. ASSUME NEW d \in Conn, d # c, pc[d] = "reply", change[d] \notin crossed \cup {NoChange}
        PROVE  change[d] \in Parse(data'[target[d]])
    <3>1. change[d] \in Parse(data[target[d]]) /\ target[d] \in Uid
      BY <2>2 DEF LocalsOK
    <3> QED BY <1>11, <2>1, <2>2, <3>1, SaveEffect
  <2>3. change[c] # NoChange => change[c] \in Parse(data'[target[c]])
    BY <1>11, SaveEffect DEF ChangeOK
  <2> QED BY <1>11, <2>2, <2>3, SaveEffect
<1>12. ASSUME NEW c \in Conn, Reply(c) PROVE StoredOK'
  BY <1>12, SentinelAssumption DEF Reply, TypeOK, LocalsOK
<1>13. ASSUME NEW c \in Conn, DbError(c) PROVE StoredOK'
  BY <1>13, SentinelAssumption DEF DbError, TypeOK, LocalsOK
<1>14. CASE Restart
  BY <1>14 DEF Restart
<1>15. ASSUME NEW u \in Uid, Ban(u) PROVE StoredOK'
  BY <1>15, SentinelAssumption DEF Ban, TypeOK, LocalsOK
<1>16. CASE UNCHANGED vars
  BY <1>16, SentinelAssumption DEF vars, TypeOK, LocalsOK
<1> QED
  BY <1>1, <1>2, <1>3, <1>4, <1>5, <1>6, <1>7, <1>8, <1>9, <1>10, <1>11, <1>12,
     <1>13, <1>14, <1>15, <1>16 DEF Next, Task, Peer

\* What is answered is stored, and no write takes it out of the row again.
LEMMA DurableStep ==
    ASSUME TypeOK, LocalsOK, LoadedOK, LoadingOK, CacheIsAhead, ChangeOK, WritesOK, StoredOK,
           RepliedIsDurable, [Next]_vars
    PROVE  RepliedIsDurable'
<1> USE DEF RepliedIsDurable
<1>1. ASSUME NEW c \in Conn, Accept(c) PROVE RepliedIsDurable'
  BY <1>1, SentinelAssumption DEF Accept, TypeOK, LocalsOK
<1>2. ASSUME NEW c \in Conn, Hangup(c) PROVE RepliedIsDurable'
  BY <1>2, SentinelAssumption DEF Hangup, TypeOK, LocalsOK
<1>3. ASSUME NEW c \in Conn, NEW u \in Uid, Login(c, u) PROVE RepliedIsDurable'
  BY <1>3, SentinelAssumption DEF Login, TypeOK, LocalsOK
<1>4. ASSUME NEW c \in Conn, CheckBan(c) PROVE RepliedIsDurable'
  BY <1>4, SentinelAssumption DEF CheckBan, TypeOK, LocalsOK
<1>5. ASSUME NEW c \in Conn, NEW m \in Change \cup {NoChange}, Receive(c, m) PROVE RepliedIsDurable'
  <2>1. \A x \in replied : sentTo'[x] = sentTo[x]
    BY <1>5, SentinelAssumption DEF Receive, TypeOK, ChangeOK
  <2> QED BY <1>5, <2>1 DEF Receive, Parse
<1>6. ASSUME NEW c \in Conn, Check(c) PROVE RepliedIsDurable'
  BY <1>6, SentinelAssumption DEF Check, EnsureReturns, TypeOK, LocalsOK
<1>7. ASSUME NEW c \in Conn, Select(c) PROVE RepliedIsDurable'
  BY <1>7 DEF Select, Parse
<1>8. ASSUME NEW c \in Conn, Create(c) PROVE RepliedIsDurable'
  <2>1. Parse(data[target[c]]) \ crossed \subseteq Parse(snap[c])
    BY <1>8, WriteKeeps, CreateEffect DEF Writing
  <2>2. \A m \in replied : sentTo[m] \in Uid
    BY DEF ChangeOK
  <2>3. \A u \in Uid : Parse(data[u])' = IF u = target[c] THEN Parse(snap[c]) ELSE Parse(data[u])
    BY <1>8, CreateEffect DEF Parse
  <2> QED BY <1>8, <2>1, <2>2, <2>3, CreateEffect
<1>9. ASSUME NEW c \in Conn, Insert(c) PROVE RepliedIsDurable'
  BY <1>9, InsertEffect
<1>10. ASSUME NEW c \in Conn, Handle(c) PROVE RepliedIsDurable'
  <2>1. CASE players[target[c]] # NotLoaded /\ change[c] # NoChange
    BY <1>10, <2>1, HandleEffect
  <2>2. CASE ~(players[target[c]] # NotLoaded /\ change[c] # NoChange)
    BY <1>10, <2>2 DEF Handle, TypeOK, LocalsOK
  <2> QED BY <2>1, <2>2
<1>11. ASSUME NEW c \in Conn, Save(c) PROVE RepliedIsDurable'
  <2>1. Parse(data[target[c]]) \ crossed \subseteq Parse(snap[c])
    BY <1>11, WriteKeeps, SaveEffect DEF Writing
  <2>2. \A m \in replied : sentTo[m] \in Uid
    BY DEF ChangeOK
  <2>3. \A u \in Uid : Parse(data[u])' = IF u = target[c] THEN Parse(snap[c]) ELSE Parse(data[u])
    BY <1>11, SaveEffect DEF Parse
  <2> QED BY <1>11, <2>1, <2>2, <2>3, SaveEffect
<1>12. ASSUME NEW c \in Conn, Reply(c) PROVE RepliedIsDurable'
  <2>1. \A m \in replied' : m \in replied \/ (m = change[c] /\ m # NoChange)
    <3>1. replied' = replied \cup ({change[c]} \cap Change)
      BY <1>12 DEF Reply
    <3> QED BY <3>1, SentinelAssumption
  <2>2. change[c] \notin crossed \cup {NoChange} => change[c] \in Parse(data[sentTo[change[c]]])
    BY <1>12 DEF Reply, ChangeOK, StoredOK
  <2>3. UNCHANGED <<data, sentTo, crossed>>
    BY <1>12 DEF Reply
  <2> QED BY <2>1, <2>2, <2>3 DEF Parse
<1>13. ASSUME NEW c \in Conn, DbError(c) PROVE RepliedIsDurable'
  BY <1>13, SentinelAssumption DEF DbError, TypeOK, LocalsOK
<1>14. CASE Restart
  <2> SUFFICES ASSUME NEW m \in replied \ crossed
               PROVE  m \in Parse(data'[sentTo[m]])
    BY <1>14 DEF Restart, Parse
  <2>1. sentTo[m] \in Uid /\ m \in Parse(data[sentTo[m]])
    BY DEF ChangeOK
  <2>2. CASE data'[sentTo[m]] = data[sentTo[m]]
    BY <2>1, <2>2
  <2>3. ASSUME NEW c \in Conn, Writing(c), target[c] = sentTo[m],
               data'[sentTo[m]] = snap[c]
        PROVE  m \in Parse(data'[sentTo[m]])
    BY <2>1, <2>3, WriteKeeps
  <2> QED BY <1>14, <2>1, <2>2, <2>3 DEF Restart
<1>15. ASSUME NEW u \in Uid, Ban(u) PROVE RepliedIsDurable'
  BY <1>15, SentinelAssumption DEF Ban, TypeOK, LocalsOK
<1>16. CASE UNCHANGED vars
  BY <1>16, SentinelAssumption DEF vars, TypeOK, LocalsOK
<1> QED
  BY <1>1, <1>2, <1>3, <1>4, <1>5, <1>6, <1>7, <1>8, <1>9, <1>10, <1>11, <1>12,
     <1>13, <1>14, <1>15, <1>16 DEF Next, Task, Peer

-----------------------------------------------------------------------------
(* The theorems *)

LEMMA InitInv == Init => IInv
BY SentinelAssumption
   DEF Init, IInv, TypeOK, LocalsOK, LoadedOK, LoadingOK, LoadingTask, CacheIsAhead,
       ChangeOK, ChangesStayInTheirAccount, Cached, Parse, WritesOK, Writing,
       StoredOK, RepliedIsDurable, Info, Row

LEMMA NextInv == IInv /\ [Next]_vars => IInv'
BY TypeStep, LoadedStep, LoadingStep, CacheStep, ChangeStep, StayStep,
   WritesStep, StoredStep, DurableStep
   DEF IInv

\* The inductive invariant holds in every state of every behaviour.
THEOREM Invariance == Spec => []IInv
BY InitInv, NextInv, PTL DEF Spec

\* Every variable keeps its type (the locals of a gate task included).
THEOREM TypeCorrect == Spec => []TypeOK
<1>1. IInv => TypeOK
  BY DEF IInv
<1> QED BY <1>1, Invariance, PTL

\* handle_packet never reports "player is not loaded".
THEOREM Loaded == Spec => []LoadedWhenHandled
<1>1. IInv => LoadedWhenHandled
  BY DEF IInv, LocalsOK, LoadedOK, LoadedWhenHandled
<1> QED BY <1>1, Invariance, PTL

\* However many connections use an account, its row and all PlayerInfos in
\* flight stay behind the cache.
THEOREM Ahead == Spec => []CacheIsAhead
<1>1. IInv => CacheIsAhead
  BY DEF IInv
<1> QED BY <1>1, Invariance, PTL

\* No change ever reaches an account it was not sent as.
THEOREM Isolation == Spec => []ChangesStayInTheirAccount
<1>1. IInv => ChangesStayInTheirAccount
  BY DEF IInv
<1> QED BY <1>1, Invariance, PTL

\* What has been answered stays stored, but for changes that crossed a write.
THEOREM Durability == Spec => []RepliedIsDurable
<1>1. IInv => RepliedIsDurable
  BY DEF IInv
<1> QED BY <1>1, Invariance, PTL

\* A loaded player only gains changes until a restart unloads it.
THEOREM CacheGrows == Spec => CacheNeverRegresses
<1>1. ASSUME IInv, [Next]_vars, NEW u \in Uid, players[u] # NotLoaded,
             players'[u] # NotLoaded
      PROVE  players[u] \subseteq players'[u]
  <2> USE <1>1 DEF IInv
  <2>1. CASE UNCHANGED players
    BY <2>1
  <2>2. ASSUME NEW c \in Conn, Insert(c) PROVE players[u] \subseteq players'[u]
    BY <2>2, InsertEffect
  <2>3. ASSUME NEW c \in Conn, Handle(c) PROVE players[u] \subseteq players'[u]
    <3>1. CASE players[target[c]] # NotLoaded /\ change[c] # NoChange
      BY <2>3, <3>1, HandleEffect
    <3>2. CASE ~(players[target[c]] # NotLoaded /\ change[c] # NoChange)
      BY <2>3, <3>2, <2>1 DEF Handle
    <3> QED BY <3>1, <3>2
  <2>4. CASE Restart
    BY <2>4 DEF Restart
  <2> QED
    BY <2>1, <2>2, <2>3, <2>4 DEF Next, Task, Peer, Accept, Hangup, Login, CheckBan,
       Receive, Check, Select, Create, Save, Reply, DbError, Ban, vars
<1>2. IInv /\ [Next]_vars =>
        [\A u \in Uid : players[u] # NotLoaded /\ players'[u] # NotLoaded
              => players[u] \subseteq players'[u]]_vars
  BY <1>1
<1> QED BY <1>2, Invariance, PTL DEF Spec, CacheNeverRegresses

\* A ban stays, and the row of a banned account nobody holds stays as it is.
THEOREM BanHolds == Spec => BanFreezesRow
<1>1. ASSUME IInv, [Next]_vars, NEW u \in Uid, banned[u]
      PROVE  banned'[u] /\ ((\A c \in Conn : slot[c] # u) => data'[u] = data[u])
  <2> USE <1>1 DEF IInv
  <2>1. CASE UNCHANGED <<banned, data>>
    BY <2>1
  <2>2. ASSUME NEW c \in Conn, Writing(c) PROVE slot[c] = target[c]
    BY <2>2 DEF LocalsOK, Writing
  <2>3. ASSUME NEW c \in Conn, Create(c) \/ Save(c)
        PROVE  banned' = banned /\ (slot[c] # u => data'[u] = data[u])
    BY <2>2, <2>3, CreateEffect, SaveEffect DEF Create, Save, Upsert, Writing
  <2>4. CASE Restart
    BY <2>2, <2>4 DEF Restart
  <2>5. ASSUME NEW v \in Uid, Ban(v) PROVE banned'[u] /\ data' = data
    BY <2>5 DEF Ban, TypeOK
  <2> QED
    BY <2>1, <2>3, <2>4, <2>5 DEF Next, Task, Peer, Accept, Hangup, Login, CheckBan,
       Receive, Check, Select, Insert, Handle, Reply, DbError, vars
<1>2. IInv /\ [Next]_vars =>
        [\A u \in Uid : banned[u] =>
              /\ banned'[u]
              /\ (\A c \in Conn : slot[c] # u) => data'[u] = data[u]]_vars
  BY <1>1
<1> QED BY <1>2, Invariance, PTL DEF Spec, BanFreezesRow

\* Steps that touch neither the cache, nor a row, nor a reply are invisible to
\* the users of the durable store, whatever becomes of the unanswered changes.
LEMMA Invisible ==
    ASSUME UNCHANGED <<players, data, replied, crossed>>,
           \A m \in replied : sentTo'[m] = sentTo[m]
    PROVE  UNCHANGED DS!vars
BY DEF DS!vars, Current, Stored, Answered, Parse

\* A write in flight carries what the store may make of the account's state,
\* and leaves that state as it is.
LEMMA WriteStores ==
    ASSUME TypeOK, LocalsOK, LoadedOK, LoadingOK, CacheIsAhead, WritesOK,
           NEW c \in Conn, Writing(c)
    PROVE  /\ Parse(snap[c]) = snap[c] /\ snap[c] \in DS!Writable(target[c])
           /\ players[target[c]] = NotLoaded => snap[c] = Parse(data[target[c]])
<1>1. target[c] \in Uid /\ Parse(snap[c]) = snap[c]
  BY SentinelAssumption DEF LocalsOK, Writing, Parse, TypeOK
<1>2. CASE players[target[c]] = NotLoaded
  <2>1. snap[c] = {} /\ Parse(data[target[c]]) = {}
    BY <1>1, <1>2 DEF Writing, LoadedOK, LoadingOK, LoadingTask
  <2> QED BY <1>1, <1>2, <2>1 DEF DS!Writable, Current
<1>3. CASE players[target[c]] # NotLoaded
  <2>1. Current[target[c]] = players[target[c]]
    BY <1>1, <1>3 DEF Current
  <2>2. snap[c] \subseteq players[target[c]]
    BY <1>1, <1>3 DEF CacheIsAhead, Writing
  <2>3. players[target[c]] \ crossed \subseteq snap[c]
    BY <1>1, <1>3 DEF WritesOK
  <2> QED BY <1>1, <1>3, <2>1, <2>2, <2>3 DEF DS!Writable
<1> QED BY <1>2, <1>3

\* The tasks, the cache and the players table refine the durable store for every
\* account: writes store, replies answer, restarts restart.
THEOREM Refinement == Spec => ImplementsDurableStore
<1> USE SentinelAssumption DEF IInv
<1>1. Init => DS!Init
  BY DEF Init, DS!Init, Current, Stored, Answered, Parse
<1>2. ASSUME IInv, [Next]_vars PROVE [DS!Next]_(DS!vars)
  <2> USE <1>2
  <2>1. CASE UNCHANGED <<players, data, replied, sentTo, crossed>>
    BY <2>1, Invisible
  <2>2. ASSUME NEW c \in Conn, NEW m \in Change \cup {NoChange}, Receive(c, m)
        PROVE  UNCHANGED DS!vars
    <3>1. \A x \in replied : sentTo'[x] = sentTo[x]
      BY <2>2 DEF Receive, TypeOK, ChangeOK
    <3> QED BY <2>2, <3>1, Invisible DEF Receive
  <2>3. ASSUME NEW c \in Conn, Create(c) \/ Save(c) PROVE DS!Next
    <3>1. /\ Writing(c) /\ target[c] \in Uid /\ data'[target[c]] = snap[c]
          /\ \A u \in Uid \ {target[c]} : data'[u] = data[u]
          /\ UNCHANGED <<players, history>>
      BY <2>3, CreateEffect, SaveEffect DEF Writing
    <3>2. Stored' = [Stored EXCEPT ![target[c]] = snap[c]]
      <4>1. Stored'[target[c]] = snap[c]
        BY <3>1, WriteStores DEF Stored
      <4>2. \A u \in Uid \ {target[c]} : Stored'[u] = Stored[u]
        BY <3>1 DEF Stored, Parse
      <4> QED BY <3>1, <4>1, <4>2 DEF Stored
    <3>3. Current' = Current
      <4>1. Current'[target[c]] = Current[target[c]]
        BY <3>1, WriteStores DEF Current
      <4>2. \A u \in Uid \ {target[c]} : Current'[u] = Current[u]
        BY <3>1 DEF Current, Parse
      <4> QED BY <4>1, <4>2 DEF Current
    <3>4. Answered' = Answered
      BY <3>1 DEF Answered
    <3>5. DS!Store(target[c])
      BY <3>1, <3>2, <3>3, <3>4, WriteStores DEF DS!Store
    <3> QED BY <3>1, <3>5 DEF DS!Next
  <2>4. ASSUME NEW c \in Conn, Insert(c) PROVE UNCHANGED DS!vars
    <3>1. \A u \in Uid : Current[u]' = Current[u]
      BY <2>4, InsertEffect DEF Current, LoadingOK, LoadingTask, Parse, TypeOK
    <3>2. Current' = Current
      BY <3>1 DEF Current
    <3> QED BY <2>4, <3>2, InsertEffect DEF DS!vars, Stored, Answered, Parse
  <2>5. ASSUME NEW c \in Conn, Handle(c) PROVE [DS!Next]_(DS!vars)
    <3>1. CASE players[target[c]] # NotLoaded /\ change[c] # NoChange
      <4>1. Stored' = Stored /\ Answered' = Answered
        BY <2>5, <3>1, HandleEffect DEF Stored, Answered, Parse
      <4>2. Current' = [Current EXCEPT ![target[c]] = @ \cup {change[c]}]
        <5>1. Current'[target[c]] = Current[target[c]] \cup {change[c]}
          BY <2>5, <3>1, HandleEffect DEF Current
        <5>2. \A u \in Uid \ {target[c]} : Current'[u] = Current[u]
          BY <2>5, <3>1, HandleEffect DEF Current, Parse
        <5> QED BY ZenonT(40), <2>5, <3>1, <5>1, <5>2, HandleEffect DEF Current
      <4>3. crossed' \in {crossed, crossed \cup {change[c]}}
        BY <2>5, <3>1, HandleEffect
      <4>4. DS!Submit(target[c], change[c])
        BY <4>1, <4>2, <4>3 DEF DS!Submit
      <4> QED BY <2>5, <3>1, <4>4, HandleEffect DEF DS!Next
    <3>2. CASE ~(players[target[c]] # NotLoaded /\ change[c] # NoChange)
      BY <2>1, <2>5, <3>2 DEF Handle
    <3> QED BY <3>1, <3>2
  <2>6. ASSUME NEW c \in Conn, Reply(c) PROVE [DS!Next]_(DS!vars)
    <3>1. replied' = replied \cup ({change[c]} \cap Change)
          /\ UNCHANGED <<players, data, sentTo, crossed>>
      BY <2>6 DEF Reply
    <3>2. Current' = Current /\ Stored' = Stored
      BY <3>1 DEF Current, Stored, Parse
    <3>3. CASE change[c] # NoChange
      <4>1. sentTo[change[c]] = target[c] /\ target[c] \in Uid /\ change[c] \in Change
        BY <2>6, <3>3 DEF Reply, ChangeOK, LocalsOK, TypeOK
      <4>2. Answered' = Answered \cup {<<target[c], change[c]>>}
        BY <3>1, <4>1 DEF Answered
      <4>3. change[c] \in Stored[target[c]] \cup crossed
        BY <2>6, <3>3, <4>1 DEF Reply, StoredOK, Stored
      <4>4. DS!Answer(target[c], change[c])
        BY <3>1, <3>2, <4>2, <4>3 DEF DS!Answer
      <4> QED BY <4>1, <4>4 DEF DS!Next
    <3>4. CASE change[c] = NoChange
      <4>1. Answered' = Answered
        BY <3>1, <3>4 DEF Answered
      <4> QED BY <3>1, <3>2, <4>1 DEF DS!vars
    <3> QED BY <3>3, <3>4
  <2>7. CASE Restart
    <3>1. Answered' = Answered /\ crossed' = crossed
      BY <2>7 DEF Restart, Answered
    <3>2. Current' = Stored'
      BY <2>7 DEF Restart, Current, Stored, Parse
    <3>3. Stored' \in [Uid -> SUBSET Change]
      BY <2>7 DEF Restart, Stored, Parse, Row, Info
    <3>4. ASSUME NEW u \in Uid PROVE Stored'[u] \in {Stored[u]} \cup DS!Writable(u)
      <4>1. CASE data'[u] = data[u]
        BY <4>1 DEF Stored, Parse
      <4>2. ASSUME NEW c \in Conn, Writing(c), target[c] = u, data'[u] = snap[c]
            PROVE  Stored'[u] \in DS!Writable(u)
        BY <4>2, WriteStores DEF Stored
      <4> QED BY <2>7, <4>1, <4>2 DEF Restart
    <3> QED BY <3>1, <3>2, <3>3, <3>4 DEF DS!Next, DS!Restart
  <2> QED
    BY <2>1, <2>2, <2>3, <2>4, <2>5, <2>6, <2>7 DEF Next, Task, Peer, Accept,
       Hangup, Login, CheckBan, Check, Select, DbError, Ban, vars
<1> QED BY <1>1, <1>2, Invariance, PTL DEF Spec, ImplementsDurableStore, DS!Spec

=============================================================================
