--------------------------- MODULE PlayerRuntime ---------------------------
(***************************************************************************)
(* The player runtime (cheshire-server-core/src/game/mod.rs), the players  *)
(* table it loads from and saves to (cheshire-server-core/src/database.rs) *)
(* and the gate tasks that call it (cheshire-server-services/src/gate.rs). *)
(*                                                                         *)
(* One gate task serves one connection and handles its packets in turn.    *)
(* Nothing ties a connection to a peer: a peer that goes away while its    *)
(* task waits for a statement is not noticed, and may be back on another   *)
(* connection while the old task is still loading or saving.               *)
(* All tasks share the cache `players`, a map behind a tokio mutex.  The   *)
(* mutex is never held across an await: every action below is the code     *)
(* between two awaits, and a task is at the location `pc` between them.    *)
(*                                                                         *)
(* A PlayerInfo is abstracted to the set of changes it has absorbed; a     *)
(* change is one client packet whose handler sets `dirty`.  The default    *)
(* PlayerInfo has absorbed none.                                           *)
(***************************************************************************)
EXTENDS Naturals

CONSTANTS
    Conn,       \* connections to the gate; one is used again when its task has returned
    Uid,        \* accounts
    Change,     \* the packets that change a player, over the whole run
    NoUid,      \* `None` of the task's uid slot
    NoChange,   \* the packet being handled changes nothing
    Unsent,     \* the change has not been sent yet
    Absent,     \* the players table has no row for the uid
    Garbled,    \* the row's data does not parse as a PlayerInfo
    NotLoaded   \* `players` has no entry for the uid

Info == SUBSET Change
Row  == {Absent, Garbled} \cup Info

ASSUME SentinelAssumption ==
    /\ NoUid \notin Uid
    /\ Unsent \notin Uid \cup {NoUid}
    /\ NoChange \notin Change
    /\ \A info \in Info : info \notin {Absent, Garbled, NotLoaded}

VARIABLES
    players,    \* [Uid -> Info or NotLoaded]: the cache
    data,       \* [Uid -> Row]: the `data` column of the players table
    banned,     \* [Uid -> BOOLEAN]: the `is_banned` column
    pc,         \* where each connection's gate task is
    slot,       \* the uid the connection is logged in as
    target,     \* the uid the packet in hand is for
    change,     \* the change the packet in hand makes, or NoChange
    ensures,    \* calls of ensure_player still to return for this packet
    snap,       \* the PlayerInfo a task holds outside the lock
    sentTo,     \* history: the uid each change was sent as
    replied,    \* history: the changes whose reply was handed to the socket
    crossed     \* history: the changes made while an older write was in flight

locals  == <<slot, target, change, ensures, snap>>
history == <<sentTo, replied, crossed>>
vars == <<players, data, banned, pc, locals, history>>

Busy    == {"login", "check", "select", "create", "insert", "handle", "save", "reply"}
Loading == {"check", "select", "create", "insert"}

\* A task is waiting for an INSERT ... ON CONFLICT of save_player.
Writing(c) == pc[c] \in {"create", "save"}

\* Another task's write of the row of c's account is under way.
OtherWrite(c) == \E d \in Conn \ {c} : Writing(d) /\ target[d] = target[c]

\* What load_or_create_player makes of the column: the default PlayerInfo when
\* there is no row or serde cannot read it.
Parse(row) == IF row \in {Absent, Garbled} THEN {} ELSE row

\* The changes the cache holds for u: none when u is not loaded.
Cached(u) == IF players[u] = NotLoaded THEN {} ELSE players[u]

Init ==
    /\ players = [u \in Uid |-> NotLoaded]
    /\ data \in [Uid -> {Absent, Garbled, {}}]
    /\ banned = [u \in Uid |-> FALSE]
    /\ pc = [c \in Conn |-> "closed"]
    /\ slot = [c \in Conn |-> NoUid]
    /\ target = [c \in Conn |-> NoUid]
    /\ change = [c \in Conn |-> NoChange]
    /\ ensures = [c \in Conn |-> 0]
    /\ snap = [c \in Conn |-> {}]
    /\ sentTo = [m \in Change |-> Unsent]
    /\ replied = {}
    /\ crossed = {}

Goto(c, loc) == pc' = [pc EXCEPT ![c] = loc]

\* Mutant of DropLocals: the change outlives the packet it came in.
DropLocalsKeepsChange(c) ==
    /\ target' = [target EXCEPT ![c] = NoUid]
    /\ ensures' = [ensures EXCEPT ![c] = 0]
    /\ snap' = [snap EXCEPT ![c] = {}]
    /\ UNCHANGED change

\* The locals of handle_packet and handle_login go out of scope: the task is
\* back in the read loop, or its connection is closed.
DropLocals(c) ==
    /\ target' = [target EXCEPT ![c] = NoUid]
    /\ change' = [change EXCEPT ![c] = NoChange]
    /\ ensures' = [ensures EXCEPT ![c] = 0]
    /\ snap' = [snap EXCEPT ![c] = {}]

\* handle_client returns: the uid slot goes with the task.
Close(c) ==
    /\ Goto(c, "closed")
    /\ slot' = [slot EXCEPT ![c] = NoUid]
    /\ DropLocals(c)

-----------------------------------------------------------------------------
(* The connection *)

\* The accept loop spawns handle_client: a new task with an empty uid slot.
Accept(c) ==
    /\ pc[c] = "closed"
    /\ Goto(c, "idle")
    /\ UNCHANGED <<players, data, banned, locals, history>>

\* handle_client returns at end of stream or at a read or framing error, or
\* when write_all fails: the packet in hand is not answered.  A task that is at
\* a statement goes on with it whatever becomes of the peer.
Hangup(c) ==
    /\ pc[c] \in {"idle", "reply"}
    /\ Close(c)
    /\ UNCHANGED <<players, data, banned, history>>

-----------------------------------------------------------------------------
(* Gate: login and dispatch *)

\* A Cs10022 whose ticket checks and whose account exists: handle_login goes on
\* to read the players row.  Any other login is answered with a non-zero result
\* and leaves the uid slot as it was, whoever it held.
Login(c, u) ==
    /\ pc[c] = "idle"
    /\ Goto(c, "login")
    /\ target' = [target EXCEPT ![c] = u]
    /\ UNCHANGED <<players, data, banned, slot, change, ensures, snap, history>>

\* get_player_row and the is_banned test.  A banned account is refused with
\* result 17; otherwise the slot is taken before the player is loaded, and the
\* packet goes through ensure_player here and again in the runtime.
CheckBan(c) ==
    /\ pc[c] = "login"
    /\ \/ /\ banned[target[c]]
          /\ Goto(c, "idle")
          /\ DropLocals(c)
          /\ UNCHANGED slot
       \/ /\ ~banned[target[c]]
          /\ Goto(c, "check")
          /\ slot' = [slot EXCEPT ![c] = target[c]]
          /\ ensures' = [ensures EXCEPT ![c] = 2]
          /\ UNCHANGED <<target, change, snap>>
    /\ UNCHANGED <<players, data, banned, history>>

\* A game packet.  Before login it is dropped; after it, it goes to the runtime
\* under the uid in the slot.  m is the change it makes, or NoChange.
Receive(c, m) ==
    /\ pc[c] = "idle"
    /\ m # NoChange => sentTo[m] = Unsent
    /\ sentTo' = [x \in Change |-> IF x = m THEN slot[c] ELSE sentTo[x]]
    /\ \/ /\ slot[c] = NoUid
          /\ UNCHANGED <<pc, target, change, ensures>>
       \/ /\ slot[c] # NoUid
          /\ Goto(c, "check")
          /\ target' = [target EXCEPT ![c] = slot[c]]
          /\ change' = [change EXCEPT ![c] = m]
          /\ ensures' = [ensures EXCEPT ![c] = 1]
    /\ UNCHANGED <<players, data, banned, slot, snap, replied, crossed>>

-----------------------------------------------------------------------------
(* PlayerRuntime::ensure_player *)

\* Mutant of EnsureReturns: one call too many.
EnsureReturnsOnceMore(c) ==
    /\ ensures' = [ensures EXCEPT ![c] = @ - 1]
    /\ Goto(c, IF ensures[c] > 0 THEN "check" ELSE "handle")

EnsureReturns(c) ==
    /\ ensures' = [ensures EXCEPT ![c] = @ - 1]
    /\ Goto(c, IF ensures[c] > 1 THEN "check" ELSE "handle")

\* Mutant of Check: a task waits while another one loads the same account.
CheckWaits(c) ==
    /\ pc[c] = "check"
    /\ \A d \in Conn \ {c} : target[d] = target[c] => pc[d] \notin Loading
    /\ \/ /\ players[target[c]] # NotLoaded
          /\ EnsureReturns(c)
       \/ /\ players[target[c]] = NotLoaded
          /\ Goto(c, "select")
          /\ UNCHANGED ensures
    /\ UNCHANGED <<players, data, banned, slot, target, change, snap, history>>

\* contains_key under the lock; the lock is released before the load.
Check(c) ==
    /\ pc[c] = "check"
    /\ \/ /\ players[target[c]] # NotLoaded
          /\ EnsureReturns(c)
       \/ /\ players[target[c]] = NotLoaded
          /\ Goto(c, "select")
          /\ UNCHANGED ensures
    /\ UNCHANGED <<players, data, banned, slot, target, change, snap, history>>

\* load_or_create_player, the SELECT: a row that does not parse is treated like
\* a missing one.
Select(c) ==
    /\ pc[c] = "select"
    /\ snap' = [snap EXCEPT ![c] = Parse(data[target[c]])]
    /\ Goto(c, IF data[target[c]] \in {Absent, Garbled} THEN "create" ELSE "insert")
    /\ UNCHANGED <<players, data, banned, slot, target, change, ensures, history>>

\* Mutant of Upsert: INSERT OR REPLACE, which resets `is_banned`.
UpsertReplaces(u, info) ==
    /\ data' = [data EXCEPT ![u] = info]
    /\ banned' = [banned EXCEPT ![u] = FALSE]

\* save_player: the upsert replaces `data` and keeps `is_banned`.
Upsert(u, info) ==
    /\ data' = [data EXCEPT ![u] = info]
    /\ banned' = banned

\* load_or_create_player, the save of the default it made.
Create(c) ==
    /\ pc[c] = "create"
    /\ Upsert(target[c], snap[c])
    /\ Goto(c, "insert")
    /\ UNCHANGED <<players, locals, history>>

\* Mutant of Insert: insert(uid, info) instead of entry(uid).or_insert(info).
InsertOverwrites(c) ==
    /\ pc[c] = "insert"
    /\ players' = [players EXCEPT ![target[c]] = snap[c]]
    /\ snap' = [snap EXCEPT ![c] = {}]
    /\ EnsureReturns(c)
    /\ UNCHANGED <<data, banned, slot, target, change, history>>

\* entry(uid).or_insert under the lock: the first loader's value stays.
Insert(c) ==
    /\ pc[c] = "insert"
    /\ players' = [players EXCEPT ![target[c]] = IF @ = NotLoaded THEN snap[c] ELSE @]
    /\ snap' = [snap EXCEPT ![c] = {}]
    /\ EnsureReturns(c)
    /\ UNCHANGED <<data, banned, slot, target, change, history>>

-----------------------------------------------------------------------------
(* PlayerRuntime::handle_packet *)

\* Mutants of Handle: `dirty` is forgotten; the clone is made too early.
HandleForgetsDirty(c) ==
    LET u == target[c]
    IN /\ pc[c] = "handle"
       /\ players[u] # NotLoaded
       /\ players' = [players EXCEPT ![u] = @ \cup ({change[c]} \cap Change)]
       /\ Goto(c, "reply")
       /\ UNCHANGED <<data, banned, locals, history>>

HandleClonesFirst(c) ==
    LET u == target[c]
    IN /\ pc[c] = "handle"
       /\ players[u] # NotLoaded
       /\ players' = [players EXCEPT ![u] = @ \cup ({change[c]} \cap Change)]
       /\ snap' = [snap EXCEPT ![c] = players[u]]
       /\ crossed' = crossed \cup {m \in {change[c]} \cap Change : OtherWrite(c)}
       /\ Goto(c, IF change[c] = NoChange THEN "reply" ELSE "save")
       /\ UNCHANGED <<data, banned, slot, target, change, ensures, sentTo, replied>>

\* Under one lock: the handler runs; when it set `dirty` the PlayerInfo is
\* cloned for saving and `dirty` is cleared, before the save is even tried.
\* A player that is not loaded is an error that ends the connection.
Handle(c) ==
    LET u == target[c]
        info == players[u] \cup {change[c]}
    IN /\ pc[c] = "handle"
       /\ \/ /\ players[u] = NotLoaded
             /\ Close(c)
             /\ UNCHANGED <<players, crossed>>
          \/ /\ players[u] # NotLoaded /\ change[c] = NoChange
             /\ Goto(c, "reply")
             /\ UNCHANGED <<players, locals, crossed>>
          \/ /\ players[u] # NotLoaded /\ change[c] # NoChange
             /\ players' = [players EXCEPT ![u] = info]
             /\ snap' = [snap EXCEPT ![c] = info]
             /\ crossed' = crossed \cup {m \in {change[c]} : OtherWrite(c)}
             /\ Goto(c, "save")
             /\ UNCHANGED <<slot, target, change, ensures>>
       /\ UNCHANGED <<data, banned, sentTo, replied>>

\* save_player of the clone, outside the lock.
Save(c) ==
    /\ pc[c] = "save"
    /\ Upsert(target[c], snap[c])
    /\ Goto(c, "reply")
    /\ UNCHANGED <<players, locals, history>>

\* handle_packet has returned Ok: handle_client writes the responses.
Reply(c) ==
    /\ pc[c] = "reply"
    /\ Goto(c, "idle")
    /\ DropLocals(c)
    /\ replied' = replied \cup ({change[c]} \cap Change)
    /\ UNCHANGED <<players, data, banned, slot, sentTo, crossed>>

-----------------------------------------------------------------------------
(* Failures and the environment *)

\* Mutant of DbError: a failed load is logged and the packet handled.
DbErrorIgnored(c) ==
    \/ /\ pc[c] = "select"
       /\ EnsureReturns(c)
       /\ UNCHANGED <<players, data, banned, slot, target, change, snap, history>>
    \/ /\ pc[c] = "login" \/ Writing(c)
       /\ Close(c)
       /\ UNCHANGED <<players, data, banned, history>>

\* A statement fails: the `?` carries the error up to handle_client, which
\* returns it.  The change stays in the cache and the row stays as it was.
DbError(c) ==
    /\ pc[c] \in {"login", "select"} \/ Writing(c)
    /\ Close(c)
    /\ UNCHANGED <<players, data, banned, history>>

\* The server is stopped (abort_all drops every task at its await) or killed,
\* and started again with an empty cache.  A statement in flight at that moment
\* may or may not reach the file; of several for one row any may be the last.
Restart ==
    /\ players' = [u \in Uid |-> NotLoaded]
    /\ data' \in [Uid -> Row]
    /\ \A u \in Uid :
          \/ data'[u] = data[u]
          \/ \E c \in Conn : Writing(c) /\ target[c] = u /\ data'[u] = snap[c]
    /\ pc' = [c \in Conn |-> "closed"]
    /\ slot' = [c \in Conn |-> NoUid]
    /\ target' = [c \in Conn |-> NoUid]
    /\ change' = [c \in Conn |-> NoChange]
    /\ ensures' = [c \in Conn |-> 0]
    /\ snap' = [c \in Conn |-> {}]
    /\ UNCHANGED <<banned, history>>

\* An operator sets is_banned in the database; no code of the server does.
Ban(u) ==
    /\ data[u] # Absent
    /\ banned' = [banned EXCEPT ![u] = TRUE]
    /\ UNCHANGED <<players, data, pc, locals, history>>

-----------------------------------------------------------------------------
Task(c) ==
    CheckBan(c) \/ Check(c) \/ Select(c) \/ Create(c) \/ Insert(c)
        \/ Handle(c) \/ Save(c) \/ Reply(c)

Peer(c) ==
    \/ Accept(c) \/ Hangup(c) \/ DbError(c)
    \/ \E u \in Uid : Login(c, u)
    \/ \E m \in Change \cup {NoChange} : Receive(c, m)

Next ==
    \/ \E c \in Conn : Task(c) \/ Peer(c)
    \/ \E u \in Uid : Ban(u)
    \/ Restart

\* tokio keeps polling a task that is ready and SQLite answers every statement;
\* nothing makes a peer send, an operator act or a statement fail.
Fairness == \A c \in Conn : WF_vars(Task(c))

Spec == Init /\ [][Next]_vars /\ Fairness

-----------------------------------------------------------------------------
(* Properties *)

TypeOK ==
    /\ players \in [Uid -> {NotLoaded} \cup Info]
    /\ data \in [Uid -> Row]
    /\ banned \in [Uid -> BOOLEAN]
    /\ pc \in [Conn -> Busy \cup {"idle", "closed"}]
    /\ slot \in [Conn -> Uid \cup {NoUid}]
    /\ target \in [Conn -> Uid \cup {NoUid}]
    /\ change \in [Conn -> Change \cup {NoChange}]
    /\ ensures \in [Conn -> 0..2]
    /\ snap \in [Conn -> Info]
    /\ sentTo \in [Change -> Uid \cup {NoUid, Unsent}]
    /\ replied \in SUBSET Change
    /\ crossed \in SUBSET Change

\* The error "player is not loaded" of handle_packet cannot occur: between
\* ensure_player and get_mut the lock is released, and nothing may take the
\* entry out in between.
LoadedWhenHandled ==
    \A c \in Conn : pc[c] = "handle" => players[target[c]] # NotLoaded

\* Whatever the tasks of one account do concurrently, the cache is never behind
\* the disk: once a player is loaded, the row and every PlayerInfo still held
\* by a task that is loading or saving hold only changes the cache holds too.
CacheIsAhead ==
    \A u \in Uid : players[u] # NotLoaded =>
        /\ data[u] \notin {Absent, Garbled} /\ data[u] \subseteq players[u]
        /\ \A c \in Conn :
              target[c] = u /\ pc[c] \in {"create", "insert", "save"}
                  => snap[c] \subseteq players[u]

\* A loaded player never loses a change while the server is up, although two
\* tasks may load it at the same time and the later one inserts an older value.
CacheNeverRegresses ==
    [][\A u \in Uid : players[u] # NotLoaded /\ players'[u] # NotLoaded
          => players[u] \subseteq players'[u]]_vars

\* A change reaches only the account it was sent as: no cache entry, row or
\* held PlayerInfo of another account ever contains it, and a packet dropped
\* before login reaches none.
ChangesStayInTheirAccount ==
    /\ \A u \in Uid :
          \A m \in Parse(data[u]) \cup Cached(u) : sentTo[m] = u
    /\ \A c \in Conn : pc[c] \in {"create", "insert", "save"} =>
          \A m \in snap[c] : sentTo[m] = target[c]

\* A ban outlives every save of the row (save_player rewrites `data` of a row an
\* operator may have banned meanwhile), and a banned account that no connection
\* holds can no longer change: nothing is logged in as it and no login gets in.
BanFreezesRow ==
    [][\A u \in Uid : banned[u] =>
          /\ banned'[u]
          /\ (\A c \in Conn : slot[c] # u) => data'[u] = data[u]]_vars

\* Every packet is eventually handled: the connection waits for the next one or
\* is gone.  No task waits for another one's load, save or lock for ever.
RequestFinishes ==
    \A c \in Conn : pc[c] \in Busy ~> pc[c] \notin Busy

\* What a reply promises: the change it answers is in the row and stays there,
\* through failed saves, account switches, restarts, loads by other tasks and
\* reconnections beside tasks that are still at a statement.  The one exception
\* is in the code: save_player is called outside the lock, so a change made while
\* an older write of the row is in flight (of a second user, or of the same user's
\* last connection) is lost from the row when that write comes last.
RepliedIsDurable ==
    \A m \in replied \ crossed : m \in Parse(data[sentTo[m]])

\* The refinement: an account's current state is its cache entry, or what a
\* load would make of its row; its stored state is what its row holds.
Current  == [u \in Uid |-> IF players[u] = NotLoaded THEN Parse(data[u]) ELSE players[u]]
Stored   == [u \in Uid |-> Parse(data[u])]
Answered == {<<sentTo[m], m>> : m \in replied}

DS == INSTANCE DurableStore WITH
        current <- Current, stored <- Stored, answered <- Answered

\* The tasks, the cache and the table together behave like a durable store: no
\* load changes an account's state, a save stores the current state but for
\* changes that crossed an older write, no request is answered before its change
\* is stored or crossed, and a restart loses no stored change.
ImplementsDurableStore == DS!Spec

=============================================================================
