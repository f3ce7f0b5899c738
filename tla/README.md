# A formal model of CheshireLane9

CheshireLane9 is a private game server: an SDK over HTTPS where users register and
log in, a dispatch service that tells clients where the gate is, a gate that speaks
a framed binary protocol and runs the players' game, an intercepting proxy that
brings clients to the SDK, and a desktop window that starts and stops all of it.
This directory holds TLA+ specifications of the parts of it that keep state, the
TLC runs that check them on small instances, and TLAPS proofs, for every instance,
about all of them.

Paths below are short: `core/` is `src/crates/cheshire-server-core/src/`,
`services/` is `src/crates/cheshire-server-services/src/`, `app/` is
`src/crates/cheshire-server-app/`, `runtime/` is
`src/crates/cheshire-server-runtime/src/`.

## 1. The system

### Components, their state and operations

| Component | Code | State | Operations that change it |
| --- | --- | --- | --- |
| Player runtime | `core/game/mod.rs` | `players`, a map of loaded PlayerInfos behind a tokio mutex; `dirty` of each | `ensure_player`, `handle_packet` |
| Players table | `core/database.rs` | one row per uid: `data` (JSON), `is_banned` | `get_player_row`, `load_or_create_player`, `save_player` |
| Gate | `services/gate.rs` | per connection: read buffer, previous packet id, uid slot | accept, read, login, dispatch of packets, write |
| Packet framing | `core/packet.rs` | none of its own; works on the connection's buffer | `split_from_after`, `Packet::new`, response encoder |
| Player contents | `core/game/player_info.rs`, `core/game/mod.rs` | ships, skins, resources, secretaries, chat room, stories | the packet handlers and the chat commands `ship` and `skin` |
| SDK accounts | `services/sdk.rs`, `core/database.rs` | the accounts table: uid, unique name, `is_new`, nickname | `login_user`, `user_set` |
| Certificates | `services/certificates.rs` | four files: CA and TLS certificate and key | `ensure`, at every start |
| SDK proxy | `services/sdk_proxy.rs` | the CA it signs with | interception (a library) |
| Dispatch | `services/dispatch.rs` | per connection: read buffer | read loop; the answers are stateless |
| Server runtime | `runtime/lib.rs`, `core/database.rs` | the JoinSet of services, the connections' tasks, the database's schema | start-up, `migrate`, `select!` of shutdown and service ends, `abort_all`, drain, drop of the tokio runtime |
| Desktop controller | `app/src/server_controller.rs`, `main.rs` | `running`, `shutdown`, `thread` behind a mutex; what the window shows | `start`, `stop`, `shutdown_and_wait`, the runtime thread |
| Game data | `core/data/mod.rs` | four tables in OnceLocks, for the life of the process | `load_all` |
| Configuration | `core/config.rs`, `app/src/config_editor.rs`, `main.rs` | `config.toml`; the window's fields; the running configuration | load, show, collect, save, start |
| Log panel | `app/src/log_sink.rs` | a buffer per event, a channel, posted closures, the text | write, drop, relay, append and cut |
| Protocol | generated messages, derive macro | none | none |

### How they interact

* Gate tasks, one per connection, call the player runtime. They share its cache,
  and through it and the pool the players table. The mutex is never held across an
  `.await`; the load, the save and the ban check are statements awaited without it.
* The SDK writes the accounts table and the gate reads it at login; a uid handed
  out by the SDK is the key of the player's row.
* The server runtime prepares certificates, loads the tables and spawns the
  services; when it ends it drops their tasks at whatever await they are.
* The desktop controller runs the server runtime on a thread of its own; they meet
  in a mutex, a oneshot channel, a join and closures posted to the event loop.
* A panic or failure of a run passes from the server runtime through its thread to
  the window only if the thread gets to its cleanup.
* The certificate files, the database and the configuration outlive the process; the
  game tables outlive a run, but not the process.

### What is hard about it

* Two tasks of one account interleave at every await of load, change, save, reply. It
  takes no second user: a task does not notice that its peer is gone while it awaits a
  statement, and the peer may be back on a new connection before it is done.
* `dirty` is cleared before the save is tried, so a failed save is not repeated.
* Stopping the server drops tasks between a statement and its answer.
* TCP delivers frames in pieces, and the client adds padding bytes the frame does
  not announce.
* Answers get lost after the state has changed, and clients repeat themselves.
* Certificates are written file by file; a start may end between any two of them.
* The UI thread joins a thread that reports to the UI thread.
* Some connections' tasks are in a JoinSet that `abort_all` reaches, others are not.
* The migration is seven statements without a transaction over files of any version.
* `config.toml` is written in place, from a form that drops entries and adds them.
* The window and the command line may run side by side on one `config.toml`.
* Threads log at the same time into one panel that is cut at every append.

`hazards` in `PROJECT.json` lists each of these where it bites in the code, with the
properties that cover it, or why none does yet.

### What makes each component correct

* **Player runtime and table**: a request finds its player loaded; the cache is
  never behind the row; no change is lost or reaches another account; an answered
  change is durable unless it was made while an older save was under way; a ban stays;
  every request finishes.
* **Framing**: the packets sent are those found, in order, all of them in the end
  unless the connection breaks.
* **Player contents**: the client shows what the server holds; creation and chat
  commands are idempotent where a player would expect it; secretaries exist.
* **SDK accounts**: a uid once told stays its name's, and so does the nickname that
  was set last; a client that keeps trying gets in; an account is not new twice.
* **Certificates**: the served chain verifies under the installed CA, and the CA is
  not replaced behind the user's back.
* **Controller**: one server at a time, which can be stopped, is shown as what it
  is, and never keeps the process from ending.
* **Server runtime**: whoever is served is served by a complete process; runs do not
  overlap down to their last task; the loss of one service ends the run; and it is
  what the controller takes it for.
* **Configuration**: what runs is what the file says, until somebody else changes it;
  what was saved is shown again.
* **Log panel**: exactly the end of the log, event after event.

## 2. The modules

| Module | Models | Lives in |
| --- | --- | --- |
| `DurableStore` | abstract: what the users of an account are promised | - |
| `PlayerRuntime` | runtime, table, gate tasks, restarts; implements `DurableStore` | `core/game/mod.rs`, `core/database.rs`, `services/gate.rs` |
| `PlayerRuntimeProofs` | proofs about `PlayerRuntime` | - |
| `PlayerInfo` | handlers and contents of one player, the client's view | `core/game/player_info.rs`, `core/game/mod.rs` |
| `PlayerInfoProofs` | proofs about `PlayerInfo` | - |
| `PacketStream` | the byte stream, framing, the read loops of gate and dispatch | `core/packet.rs`, `services/gate.rs`, `services/dispatch.rs` |
| `PacketStreamProofs` | proofs about `PacketStream` | - |
| `SdkAccounts` | concurrent registration, login and nicknames | `services/sdk.rs`, `core/database.rs` |
| `SdkAccountsProofs` | proofs about `SdkAccounts` | - |
| `Certificates` | the four files over starts, failures, deletions | `services/certificates.rs`, `sdk.rs`, `sdk_proxy.rs` |
| `CertificatesProofs` | proofs about `Certificates` | - |
| `ServerController` | UI thread, runtime threads, closures; a run is a black box | `app/src/server_controller.rs`, `main.rs` |
| `ServerControllerProofs` | proofs about `ServerController` | - |
| `ServerRuntime` | what is in the box: `run_until_shutdown` in its tokio runtime | `runtime/lib.rs`, `core/data/mod.rs`, `core/database.rs` |
| `DesktopServer` | `ServerController` and `ServerRuntime` joined; implements `ServerController` | `app/src/server_controller.rs` |
| `DesktopServerProofs` | proofs about `DesktopServer` | - |
| `Configuration` | file, form, running servers of the window and the command line | `core/config.rs`, `app/src/config_editor.rs`, `main.rs` |
| `LogPanel` | writers, channel, relay, panel | `app/src/log_sink.rs` |
| `WindowProofs` | proofs about `Configuration` and `LogPanel`, what the window edits and shows | - |

`MC*` modules give the constants of a run their values. Operators introduced by
"Mutant of X" are variants of X with one plausible mistake; nothing uses them. They
are the evidence that a property can fail: with X replaced by the variant, TLC must
find the property violated (`mutants` in `PROJECT.json`).

### PlayerRuntime

One gate task per connection; `pc` says at which await it is. Nothing ties a connection
to a peer: whoever goes away while its task is at a statement may be on another
connection at once, and the old task goes on beside the new one (`Hangup` is only what
the task itself sees: end of stream, a failed read or a failed write). `Accept`, `Hangup`
are `handle_client`'s spawn and returns; `Login`, `CheckBan` are `handle_login`;
`Receive` is the dispatch of a packet with or without a uid in the slot; `Check`,
`Select`, `Create`, `Insert` are `ensure_player` and `load_or_create_player` cut at
their awaits; `Handle`, `Save`, `Reply` are `handle_packet` and the write of its
responses. `DbError` is the `?` behind each statement. `Restart` is the end of the
process and an empty cache. `Ban` is an operator's UPDATE.

* A PlayerInfo is the set of changes it has absorbed. A packet that sets `dirty`
  adds one element. This keeps what the properties are about: which changes are
  where, and which value is older.
* A statement is atomic, and either happens or fails. Of those in flight at a
  `Restart`, any may or may not have reached the file.
* After a login the packet passes `ensure_player` twice (`ensures = 2`), once from
  the login and once from the runtime; other packets once.
* `Login(c, u)` is a login whose MD5 ticket and account check out, on any connection as
  any account. All other logins leave the state as it is.
* `sentTo`, `replied` and `crossed` are history: no guard reads them except to send
  each change once. `crossed` holds the changes that were made while another task's
  write of the same row was in flight. `save_player` runs outside the lock, so the
  older write may come last and take such a change out of the row, answered or not; it
  stays in the cache until a restart. `RepliedIsDurable` and `DurableStore` promise
  durability to all other changes, whoever else is connected.

### PlayerInfo

The runtime's lock, load and save are one step here, because `PlayerRuntime` shows
what they do to an account. `Finish` is the frame of every handler: new
contents, the save if the handler set `dirty`, which may fail or lose the answer,
and what the client then shows. `GiveAllShips` ranges over every order of the ship
table, since the code walks a hash map. The client is external: it keeps ships by
id, picks secretaries and skins among what it shows, and creates a player when the
login's answer has uid 0. `resources` counts the initial grants, which is how a
second `init` shows. Left out: constant answers and display fields nothing reads.

### PacketStream

Bytes, lengths and ids are the real ones. `Init` chooses the server and the first
id of the connection. `Send` is the client's framing, as `packet.rs` and its tests
describe it: an empty payload is announced with length 6 and sent as the 7 header
bytes, with or without one padding byte. `Read` takes any number of bytes; `Split` is
one round of the loop over `split_from_after`, with `drop_padding_before_next_packet`
in front. A read, the handler of a packet or the write of its answer may fail
(`ReadFails`, and the exits of `Split`); the task then returns, and what is in the buffer
is never parsed (`pc = "broken"`). `dispatch` calls it without a previous id, so that
`previous` stays `NoId` and the padding rule never applies; its requests all have
required fields, so that no client sends it an empty payload. A padding byte after the packet with id 0 is left
out: the gate does not remember that id and would not drop the byte.

### SdkAccounts

A request is a sequence of statements: `Select`, then `Insert` for a new name,
`Clear` for a new account, `Answer`. Two requests interleave freely; the UNIQUE
constraint is `Insert`'s second disjunct. `DbError` is a failed statement, with
`clear_sdk_new_flag`'s failure only logged; `Lost` drops the handler at an await.
`Ask` and `Rename` are `user_set` of a client that is logged in. `named`, `late` and
`settled` are history. The uid a client is told is the one it later presents to the
gate and under which its player is saved.

### Certificates

A key pair is a number, a CA certificate the number of the pair it was made for, a
TLS certificate its own pair and its signer's. `Write` and `WriteFails` are the
four writes in the order of the code; a failed one leaves the old, a cut off or the
new file. `Serve` is what `sdk::serve` and `sdk_proxy::serve` require of the files:
TLS certificate and key are compared, CA certificate and key are not. `broken`
is history: a start broke off, and no later one has replaced the CA and got through. `Install` and
`Delete` are the user and the operator; whoever deletes a file of the CA accepts
that clients must install a new one, as the repository's README says.

### ServerController

`ui` and `rt[t]` are the control points of the UI thread and of the runtime
threads; `shutdown` and `thread` name the thread whose sender or handle they hold.
Each critical section of the mutex is one action. Joins are guards on `rt`. A
server run (`run_until_shutdown`) returns on the signal, returns on its own at any
time, or panics. The window's buttons are enabled by `shown` alone, as in
`app-window.slint`. The controller's mutex is never held across a join or a send, so
it is no variable. `TakeSender` empties `shutdown`: the future at the other end completes
whether the sender is sent on or dropped, since the outcome of its await is not looked at.

### ServerRuntime and DesktopServer

`stage[t]` is where run `t` is: `prepare`, `load`, `connect`, `migrate`, then
`select`, `drain` (after `abort_all`) and `drop`, where the tokio runtime itself goes
away. `Migrate` is one statement of `migrate()`; a database file is new, or of a
version that had only the accounts table, or both tables without the later columns.
`Fail` is a `?` or a panic during start-up. `service[t][s]` is the task of a service;
services in `Tracked` (gate, dispatch) own a JoinSet of their connections, so that
the connections are dropped with them; those in `Detached` (the SDK's axum server,
the proxy's hyper server) spawn tasks on their own, which only `DropTask` ends. One
open connection per service and run stands for any number. `Load` is `load_all` up to its
first `set`: under `LOAD_LOCK` it returns if a run before has loaded everything, or parses
all files. `SetTable` sets one OnceLock, of which there are five with the assets
directory; one that is set already is an error. Nothing else fails between the first and
the last of them, which is why `Fail` is not enabled there and why `LoadIsWhole` holds:
a start that fails never leaves the tables in a state that no later start gets past.

The module has no `Next`: it is only used through `DesktopServer`, which joins it to
the controller. `SpawnRun` is the controller's spawn and the run's begin, `RunReturns`
the return or unwinding of `block_on` after the runtime was dropped, `signalled` the
oneshot channel between them. `ImplementsController` says that the composition is a
`ServerController`, fairness included. All runs use one database; the window could
name another one, which would be the simpler case. The command line calls
`run_until_shutdown` once, which is the case of one start.

### Configuration

A configuration is a `settings` field, which stands for all fields that are one entry
of the file each, the list of hashes, and the list of dispatch servers, of which the
form edits the first. `Show` and `Collect` are `from_config`/`apply_to_ui` and
`from_ui`/`into_config`; the automatic entries (the `dTag-1` hash, the remaining
fields of the server) are dropped by one and added by the other. `Broken` is what a
write that does not get through may leave. `EditFile` puts a file of any other origin
there.

The window and the command line are two processes that run side by side (`process`).
`load_or_create` takes two steps, `Launch` or `CliStart` for the read and `Create` or
`CliCreate` for the write of a file that was not found, and anything may happen to the
file in between. `running[m]` is the configuration of the server of process `m`; it
becomes `Other` when somebody else, an editor or the other process, changes the file.
`saved` and `edited` are history. A process that dies while it writes is a write that
fails and an `Exit`. A second window is left out, and so are a read or a write in the
middle of somebody else's write. Whether the *server* runs is
abstracted to `running` and `shown`: `ServerController` has the details, and the
window showing "running" for longer than the server runs is all that matters here.

### LogPanel

`MakeWriter`, `Write` and `Drop` are `tracing`'s use of `ChannelWriter`, one character
at a time, `Receive` and `Post` the relay thread, `RunAppend` the closure in the event
loop. Characters have one to four bytes. `logged` and `appended` are history. Its formulas are
called `LogInit`, `LogNext` and `LogSpec`, so that `WindowProofs` can extend it together
with `Configuration`.

## 3. The runs

| Run | Checks | Instance | States |
| --- | --- | --- | --- |
| `player_runtime` | 5 invariants, `BanFreezesRow`, refinement of `DurableStore` | 2 connections, 2 accounts, 2 changes | 353,261 |
| `player_shared` | `CacheNeverRegresses`, `RequestFinishes` | 2 connections, 1 account, 3 changes | 549,944 |
| `packet_stream` | order and progress of framing | gate or dispatch, 3 packets, 3 payloads, padding 1 or 255 or none, first id 21, 65534 or 65535, reads, handlers and writes fail | 38,575 |
| `packet_stream_zero` | violates `ParsedInOrder` (finding) | padding 0 | until violated |
| `player_info` | view, row, creation, secretaries, commands | 4 templates, 2 skins, packets of 2 ships | 435,986 |
| `sdk_accounts` | uid and nickname stability, newness, progress | 2 clients, 2 names, 1 nickname, 2 failures | 214,830 |
| `certificates` | chain, trust, repair | writes fail, process dies anywhere | 33,521 |
| `certificates_interrupted` | violates `ServedChainVerifies` (finding) | the same | until violated |
| `server_controller` | exclusion, window, stop, end, no hanging | 3 starts, threads return or panic | 146 |
| `desktop_server` | readiness, whole loading, exclusion to the last task, end on failure, refinement of `ServerController` | 3 starts, a tracked and a detached service, 3 databases | 8,703 |
| `configuration` | file and server agree, saved is shown | window and command line, 2 texts and an unusable one, 2 hashes | 65,832 |
| `log_panel` | the panel is the log's end, events in order | 2 threads, 3 events, characters of 1 to 4 bytes, 5 bytes kept | 28,548 |

### Why the bounds are enough

* **player_runtime**: two connections give every pair of tasks on one account, whether
  of two users or of one who came back, and a task that changes accounts; the second
  account is the one a change could stray to. Two changes are needed for an older and
  a newer clone. The initial row is absent, garbled or a default. Connections, accounts
  and changes are each symmetric; the properties of this run are all safety
  properties, for which symmetry is sound.
* **player_shared**: three changes, so that a clone of one, of two and of three
  changes can be in flight together; no symmetry, because it checks liveness.
* **packet_stream**: the padding rule looks at one packet and the header after it;
  three packets give a padding byte before, between and after, and a payload that
  looks like a header. `Read` cuts at every byte. The first ids make the second or the
  third id wrap to 0; without padding there is no state the rule could confuse.
* **player_info**: two ships to a packet makes 0, 1, 2, 3 and more packets' worth of
  ships reachable; a template whose statistics are missing, one whose skin is
  missing and a starter that is in no table are among the templates; the initial
  row is a fresh player or one of an old version with doubled skins.
* **sdk_accounts**: two clients with equal or different names; one nickname besides
  the user name tells apart whether it was set or undone; two failures let each
  client lose one request, or one lose two. Failures are bounded because a client
  whose every request fails never gets in.
* **certificates**: seven pairs; five places of the files and one in a client can
  hold one, so a new one exists at all times and numbers can be used again, which
  makes the number of starts unbounded.
* **server_controller**, **desktop_server**: three starts give a thread, its successor,
  and a successor to a thread that was reaped. The proofs do not depend on the number.
  The four services are two of each kind; one of each suffices, since no action looks
  at two services but "some ended" and "all joined".
* **configuration**: one process of each kind; one hash less and one more than the form
  shows, and files with no, one and two servers; two values tell an old configuration from a new one.
* **log_panel**: the events are of 1, 5 and 5 bytes, so that the panel holds one event,
  several, or a part of one, and cuts fall before, after and inside characters.

Deadlock is checked in every run but `log_panel`, where the bound on events stops the
system by design. `PacketStream` and `ServerController` end: `Over` and `Exited` are
the explicit stuttering of a closed connection and an ended process.

### Fairness

* `PlayerRuntime`: weak fairness of each task's next step. tokio polls a ready task
  and SQLite answers; the mutex is held for bounded code only. Nothing makes a peer
  send, a statement fail or a server restart.
* `PacketStream`: weak fairness of the server only. A client may stop anywhere, and
  nothing makes a read, a handler or a write fail or succeed.
* `SdkAccounts`: weak fairness of handlers, and of the user's next attempt, which
  is the premise of the claim that trying again gets one in.
* `ServerController`: weak fairness of callbacks, of closures in the event loop and
  of the runtime threads; a server returns *if it was told to*, since `select!`
  then ends and `abort_all` does not wait for clients. The user is never fair.
  `UiReturns` needs no more than that: the thread a start joins has cleared the state,
  and the one a closing window joins was told to stop.
* `DesktopServer`: the same for the controller, and weak fairness of the run's own
  steps: a start-up ends, `select!` sees that a branch is ready, aborted and dropped
  tasks reach an await. No service need ever bind, fail or have a client. That a
  stopped server returns is no assumption here but what `ImplementsController` shows.
* `Certificates`, `PlayerInfo`, `Configuration`, `LogPanel`, `DurableStore`: safety
  only, no fairness.

## 4. What the runs found

* **`packet_stream_zero`**. The test `drops_delayed_padding_byte_before_next_ordered_packet`
  (`core/packet.rs:224`) says that a late padding byte is dropped before the next
  packet. It uses the value 1 and hands over the next frame whole. With the value 0
  and a read that ends inside the next header, the byte and the frame's first byte
  read as length 0, a two-byte frame is cut, `Packet::new` answers `TooShort` and
  the connection is closed. With non-zero padding the rule is right however the
  stream is cut: the length it would read is at least 256, so the gate waits.
* **`certificates_interrupted`**. The repository's README (line 147) calls the TLS
  files a certificate "signed by the local CA". `ensure_ca` takes two files that exist for
  a pair (`certificates.rs:29`) and writes certificate and key one after the other. In
  TLC's trace the first start breaks off in the write of the CA key, with a key in the
  file and no TLS files. The CA certificate is deleted; the next start makes a new CA and
  breaks off as soon as its certificate is written. The third start takes the new
  certificate and the old key for a pair, signs a TLS certificate with that key and
  serves it: it does not verify under the CA file. `certificates` shows what remains
  true: the chain verifies as long as no start broke off, trust is never lost
  silently, and deleting the CA repairs it.

Not findings, because the code promises nothing else, but worth knowing:

* Two connections of one account save their clones in no particular order, so an
  answered change may be overwritten in the row by an older clone (it stays in the
  cache). The connections may be those of one user who reconnects while the old task
  is still saving. These are the changes in `crossed`.
* After a panic of the runtime thread the window keeps showing a running server that
  neither button affects, though closing still works.
* A hash that starts with `dTag-` is accepted and saved by the form, which then cannot
  show the file it wrote.
* `load_or_create` may overwrite with the defaults what the other process saved after it
  found no file.

## 5. What is proved

For any sets of connections, clients, accounts, changes, key pairs, names, texts, services, threads
and log lines, any finite game tables, any number of packets and starts, and wherever
the stream is cut:

| Theorem | Says |
| --- | --- |
| `PlayerRuntimeProofs` | |
| `TypeCorrect` | the type invariant |
| `Loaded` | `handle_packet` never finds its player missing |
| `Ahead` | the cache is never behind the row or a clone in flight |
| `Isolation` | a change reaches only the account it was sent as |
| `Durability` | an answered change is in the row, for good, unless it crossed an older write |
| `CacheGrows` | no step takes a change out of a loaded player |
| `BanHolds` | a ban is never undone and freezes an account nobody holds |
| `Refinement` | the runtime implements `DurableStore`, for every account |
| `PlayerInfoProofs` | |
| `NothingUnsaved` | no handler changes a player without saving it |
| `OneCreation` | a player is created once |
| `TypeCorrect` | the type invariant |
| `ViewAgrees` | the client shows the player that the server holds |
| `SecretariesAreOwned` | the secretary is a ship of the player |
| `SkinsStayUnlocked` | after `skin` the skins of all ships are unlocked, once each |
| `ShipsOnce` | `ship` given twice adds nothing the second time |
| `PacketStreamProofs` | |
| `TypeCorrect` | the type invariant |
| `ParsesInOrder` | the packets found are those sent, in order, and framing never fails |
| `SdkAccountsProofs` | |
| `TypeCorrect` | the type invariant |
| `UidsAreKept` | a uid told is its name's and nobody else's |
| `NicknamesAreKept` | a nickname is not undone by requests under way |
| `NewOnce` | an account is not answered as new again |
| `CertificatesProofs` | |
| `TypeCorrect` | the type invariant |
| `ChainVerifies` | the served chain verifies unless a start broke off |
| `TrustHolds` | an installed CA is not replaced |
| `ReplacementRepairs` | a start that replaces the CA leaves a matching set |
| `ServerControllerProofs` | |
| `TypeCorrect` | the type invariant |
| `NeverTwo` | two runtime threads never exist, none outlives `main()` |
| `WindowIsRight` | the window does not show a running server as stopped |
| `StopCanReach` | the sender of a running server is not lost |
| `DesktopServerProofs` | |
| `TypeCorrect` | the type invariant |
| `ServesWhenReady` | whoever is served is served by a complete process |
| `LoadsWhole` | outside `load_all` all tables are set or none is |
| `RunsNeverOverlap` | no task of a run outlives it |
| `Refinement` | every step is a `ServerController` step or a stutter |
| `WindowProofs` | |
| `TypeCorrect` | the type invariant of `Configuration` |
| `SavedComesBack` | a saved configuration is shown again as it was saved |
| `RestartIsTheSame` | a running server has the configuration in the file, until somebody else changes it |
| `PanelTail` | the panel is the longest end of the log that fits |
| `EventsArrive` | events reach the panel in order, whole, none twice |

The assumptions are those the modules state, and TLC evaluates each of them in a run:
`SentinelAssumption` (the special values are none of the ordinary ones) for the player
runtime; `TablesAssumption` (a finite ship table whose complete templates include the second
starter, no skin with id 0, bounds that are natural numbers) for the player's contents; `BytesAssumption` (a natural number of packets, whose fields fit their
widths) for the stream; `PairAssumption` (more key pairs than places that can hold
one) and `DistinctAssumption` for certificates; `NameAssumption` (finitely many names,
since uids count accounts) and `FailAssumption`; `BoundAssumption` and
`ServiceAssumption` (a service is tracked or detached) for the desktop;
`DefaultAssumption`, `VersionAssumption` and `NoFileAssumption` for the configuration;
`EventAssumption` (characters have 1 to 4 bytes, no event is empty) and
`BoundAssumption` for the log panel.

`ParsesInOrder` alone has a hypothesis, `0 \notin Padding`: the client's padding
bytes are not zero. It is needed: `packet_stream_zero` is the same system with a zero
byte, and violates the property. Nothing else is assumed finite or bounded.

### PlayerRuntimeProofs

The argument is one inductive invariant,

    IInv == TypeOK /\ LocalsOK /\ LoadedOK /\ LoadingOK /\ CacheIsAhead
              /\ ChangeOK /\ ChangesStayInTheirAccount
              /\ WritesOK /\ StoredOK /\ RepliedIsDurable

None of the checked invariants is inductive alone:

* `LoadedWhenHandled` needs `LoadedOK`: the player stays loaded from the end of
  `ensure_player` to the reply, not only at `handle`.
* `CacheIsAhead` is disturbed when an account *becomes* loaded. `LoadingOK` says
  that until then only defaults are written to its row, so that every loader holds
  what the row says; it is why `or_insert` instead of `insert` is enough.
* `ChangesStayInTheirAccount` needs `LocalsOK` and `ChangeOK`: the slot, the target
  and the account of the change in hand are the same once a login is accepted.
* `RepliedIsDurable` needs `WritesOK`: every write in flight for a loaded player
  carries all that the cache holds but the changes that crossed it, so that no write
  takes another change out of the row, in whatever order the writes come. And it needs
  `StoredOK`: a task at `reply` has its change in the row, unless that crossed a write.

`LEMMA InsertEffect`, `HandleEffect`, `CreateEffect` and `SaveEffect` say point by
point what the steps that write the cache or a row do; `TypeStep`, `LoadedStep`,
`LoadingStep`, `CacheStep`, `ChangeStep`, `StayStep`, `WritesStep`, `StoredStep` and
`DurableStep` each preserve one group of conjuncts, with a step per action. `WriteKeeps`
is the fact behind the last two: a write carries what its row holds, but for crossed
changes. It needs no assumption about who is connected.
`Refinement` maps every action to a `DurableStore` step or a stutter: `Handle` to
`Submit`, `Create` and `Save` to `Store`, `Reply` to `Answer`, `Restart` to
`Restart`; all others do not show (`LEMMA Invisible`). `WriteStores` shows that what a
write carries is what the store may keep.

### The other invariants

None of the properties is inductive alone; each module's `Inv` adds what its steps
rely on.

* **`ServerControllerProofs`**: the controller only ever looks at the *last* thread.
  `Threads` says that all earlier ones are dead, `Joined` that whoever may spawn next
  or let `main()` return holds the last thread's handle or has seen it finish,
  `Claimed` that `running` and the sender are about that thread, `Reported` that the
  window is behind by at most the one closure it has posted. Two facts fall out of
  it: the second check of `running` in `start()` never fails, and a panicked thread
  is never reaped by a later start, since the window goes on showing it as running.
* **`DesktopServerProofs`**: every step is a controller step or leaves its variables
  alone, so that the controller's invariant holds of the composition without being
  proved again (`ControllerNext`, `ControllerInv`). `Linked` says that a run is under
  way exactly while its thread serves; `Stages` what has been loaded, migrated and
  spawned at each stage, `Filled` how far `load_all` has come: one run at a time is in
  it, and when it is at the i-th table exactly the ones before are set, so that no `set`
  finds its table set already. `OneRun` then follows from the controller's exclusion.
* **`CertificatesProofs`**: `Placed` says what is there at each step of a start,
  `Trusting` that a step that writes a CA file is never reached under an installed
  CA, `Replacing` what a start that replaces the CA has written so far, `Unbroken`
  that the files fit each other. `SixFit` and `NewPairIsPair` count: with more than six
  pairs there is always a new one, so `NewPair` is a pair and differs from the others.
* **`SdkAccountsProofs`**: `Uids` says that uids are handed out in order and none
  twice, which is a statement about the cardinality of the registered names
  (`CreateKeeps`); `Requests` that what a request found stays true of the account
  until it answers, except `is_new` and the nickname; `Newness` connects the history
  of answered logins to what later ones can find. `ClearKeeps` and `RenameKeeps` do
  the same for the other two statements.
* **`PlayerInfoProofs`**: for the saving of changes, `FinishKeeps` states once what
  all handlers have in common, and each handler then only shows which fields it sets.
  A client is told to create a player only while the uid is 0. The contents have an
  invariant of their own, `Contents`. Its half `Played` says that the player and its
  row are `Sound` and that a client in play shows the player (`Shown`). It
  rests on the ids of ships being their places in the list (`Numbered`), which
  `AddShips`, whose new id is the largest one plus 1, keeps (`AddShipsEffect`), and
  without which packets that split the ships could not be put together to the list
  again (`PacketsCover`, `DockShowsShips`). `Commands` is what the chat commands leave
  behind: after `ship`, every complete template is owned, so the next one adds nothing.
* **`PacketStreamProofs`**: `Pending` lays out all bytes ever sent, with a place `at[k]`
  for each frame and possibly one padding byte behind a packet without payload
  (`Laid`), and says that the bytes in the buffer and under way are this layout from
  an offset on that lies between two frames (`Held`). `Front` is the heart of it:
  whatever `drop_padding_before_next_packet` leaves begins with a frame, or with a
  padding byte behind which the next header is still incomplete. The byte is dropped in
  time because ids count up (`Numbering`) and the gate remembers the last one
  (`Follows`), so that the rule recognises the next header (`PaddingGoes`) and never
  takes the head of a frame for padding (`FrameStays`). A padding byte that waits is read
  as the high byte of a length of at least 256, more than there is, so nothing is cut
  (`PaddingWaits`). Id 0 is the exception of the code, which takes it for no id;
  `Follows` leaves it out and a packet with it is not followed by padding.
* **`WindowProofs`**, configuration: `Shown` says that while the window's server runs
  the window shows it, so that Save and Start are disabled and the window does not write
  the file, and that no server runs without its process, so that none runs while its
  process creates the file. `ChangeKeeps` does the rest for all writers at once: whoever
  changes the file runs no server, or starts one with what it wrote.
  `Remembered` says that what was saved came from a form, and that the form, as
  long as nobody edits it, collects to the same configuration again. The step that
  matters is a new start of the window: the form leaves out the automatic entry of the
  version list and the servers after the first, so that it collects again what the
  file says only because the file was collected from a form (`ShowCollect`,
  `KeptOthers`).
* **`WindowProofs`**, log panel: `PanelInv` is both properties with `Writers`, which
  says that what a thread has written of its event and what it has left is the event.
  `CutFits` shows that the cut keeps the longest end that fits the limit; `CutTwice` that
  cutting, appending and cutting again is cutting the whole log once, which is why the
  panel, that has forgotten the beginning, is still the end of the log (`TailMoves`).
  `DropEvent`, `WriterStep` and `RelayStep` follow an event through buffer, channel and
  closures.

Several of the code's loops are recursive functions in the models (`Keep`,
`AddShips`, `Bytes`, `Flat`). That such a function exists and what its values are is
proved without an induction theorem, from `LEMMA LeastNat`: a non-empty set of natural
numbers has a least element. `SumsExist` and `ConcatsExist` are of this kind: the least
length at which no function satisfies the equations would have a predecessor with
one, which can be extended. A loop's effect is proved in the same way, by the
first round after which it does not hold (`KeptRounds`, `AddShipsRounds`).

What is only model-checked is liveness, which is outside the prover: `RequestFinishes`,
`SentIsParsed`, `LoginSucceeds`, `EndShows`, `UiReturns`, `FailureEnds` and the
fairness part of `ImplementsController`. Every other property of a passing run is the
statement of a theorem.

## 6. What is not modelled

* **Protocol definitions**: generated, no state.
* **Response encoder**: only the header the client's frames share with it. A response
  longer than 65530 bytes would have its length truncated; whether one can occur is a
  question about encoded sizes, which the models abstract.
* **SDK proxy**: interception is a library's and the URI rewrite stateless; its use of
  the CA and the life of its connections are modelled.
* **Game tables**: their contents are constants of `PlayerInfo`, their parsing is left
  out. That a process never changes its assets directory is assumed.
* **Answers without state**: dispatch's, the SDK's constant endpoints and its detail
  lookup, the gate's constant packets.
* **Texts**: trimming, parsing and TOML of the configuration; status texts; the text
  of log lines.
* **Window**: layout; the buttons' enabling is modelled.
* **Pool limit of SQLite**: no task holds a connection while waiting for another.
* **A save that outlives its server**: sqlx runs statements on threads that nobody
  joins. `PlayerRuntime.Restart` lets a statement in flight take effect or not, but at
  the restart; whether it could land after a second server in the same process has
  loaded the row depends on SQLite and sqlx and is not visible in the repository.

* **Several processes**: a window and a command line meet in `Configuration`; a second
  window does not, nor do two server processes on one database or one set of certificates.

## 7. Plan

Done, in this order: `PlayerRuntime` with `DurableStore` and its proofs;
`Certificates`; `ServerController`; `PacketStream`; `PlayerInfo`; `SdkAccounts`; then
`ServerRuntime` and `DesktopServer`, dispatch and wrapping ids in `PacketStream`,
nicknames in `SdkAccounts`, `Configuration`, `LogPanel`, and the proofs of all
modules.

What would come next:

1. SDK and gate together: the account a ticket stands for, in place of any login, with a
   proof that the composition implements both parts.
2. The response encoder with its 16-bit length, given the sizes of the messages.
