--------------------------- MODULE ServerRuntime ----------------------------
(***************************************************************************)
(* Server::run_until_shutdown (cheshire-server-runtime/src/lib.rs) inside  *)
(* its tokio runtime: the start-up in order (certificates, game tables,    *)
(* database and its migration), the four services in a JoinSet, the wait   *)
(* for the first of them to end or for the shutdown future, abort_all and  *)
(* the drain, and the drop of the tokio runtime, which takes with it what  *)
(* no JoinSet knows of.                                                    *)
(*                                                                         *)
(* The game tables are statics and outlive a run, the schema is in the     *)
(* database file.  Who calls it, and when the shutdown future completes,   *)
(* is the business of the module that instantiates this one.               *)
(***************************************************************************)
EXTENDS Naturals, Sequences

CONSTANTS
    Run,        \* calls of run_until_shutdown
    Tracked,    \* services that keep their connections' tasks in a JoinSet
    Detached    \* services whose connections are tasks on their own

Service == Tracked \cup Detached

VARIABLES
    signalled,  \* the runs whose shutdown future has completed (read only)
    stage,      \* where each run is
    result,     \* what it is going to return
    tables,     \* the OnceLocks of the game data loader that are set
    schema,     \* what the database has of Migration
    service,    \* the task of each service of each run
    client      \* the services with an open connection (bound: one for each)

vars == <<stage, result, tables, schema, service, client>>

\* The statements of migrate() in their order.
Migration == <<"accounts", "user_name", "nick_name", "created_at", "is_new",
               "idx_accounts_user_name", "players">>
Schema    == {Migration[i] : i \in DOMAIN Migration}

\* The OnceLocks in the order load_all sets them: four tables, and the directory
\* they are from.  A run in the middle of it is at the one it sets next.
Tables   == <<"chapter", "ship", "ship_statistics", "skin", "assets_dir">>
Loaded   == {Tables[i] : i \in DOMAIN Tables}
StartUp  == {"prepare", "load", "connect", "migrate"}
Live     == {"starting", "serving"}

\* A database file is new, or was made before the accounts had more columns.
Init ==
    /\ stage = [t \in Run |-> "none"]
    /\ result = [t \in Run |-> "none"]
    /\ tables = {}
    /\ schema \in {{}, {"accounts"}, {"accounts", "players"}}
    /\ service = [t \in Run |-> [s \in Service |-> "none"]]
    /\ client = [t \in Run |-> {}]

At(t, here, there) == stage[t] = here /\ stage' = [stage EXCEPT ![t] = there]

-----------------------------------------------------------------------------
(* Start-up: the shutdown future is not looked at *)

Begin(t) ==
    /\ At(t, "none", "prepare")
    /\ UNCHANGED <<result, tables, schema, service, client>>

\* install_crypto_provider and certificates::ensure (see Certificates).
Prepare(t) ==
    /\ At(t, "prepare", "load")
    /\ UNCHANGED <<result, tables, schema, service, client>>

\* load_all takes LOAD_LOCK; then either an earlier run has loaded everything, or
\* the files are read and parsed.  (The directory is the same for every run.)
Load(t) ==
    /\ \A u \in Run : stage[u] \notin Loaded
    /\ At(t, "load", IF "assets_dir" \in tables THEN "connect" ELSE Tables[1])
    /\ UNCHANGED <<result, tables, schema, service, client>>

\* One OnceLock after the other is set; one that is set already is an error.
SetTable(t) ==
    /\ \E i \in DOMAIN Tables :
          LET next == IF i = Len(Tables) THEN "connect" ELSE Tables[i + 1]
          IN At(t, Tables[i], IF Tables[i] \in tables THEN "drop" ELSE next)
    /\ result' = [result EXCEPT ![t] = IF stage[t] \in tables THEN "error" ELSE @]
    /\ tables' = tables \cup {stage[t]}
    /\ UNCHANGED <<schema, service, client>>

Connect(t) ==
    /\ At(t, "connect", "migrate")
    /\ UNCHANGED <<result, tables, schema, service, client>>

\* Mutant of Pending: a database that has the accounts table gets no columns.
PendingIfNew ==
    {i \in DOMAIN Migration :
        Migration[i] \notin schema /\ (Migration[i] = "players" \/ "accounts" \notin schema)}

\* The statements that find something missing: IF NOT EXISTS, and
\* ensure_account_column.
Pending == {i \in DOMAIN Migration : Migration[i] \notin schema}

Migrate(t) ==
    /\ stage[t] = "migrate"
    /\ \E i \in Pending :
          /\ \A j \in Pending : i <= j
          /\ schema' = schema \cup {Migration[i]}
    /\ UNCHANGED <<stage, result, tables, service, client>>

\* Mutant of Fail: every table is parsed just before it is set.
FailParsing(t) ==
    /\ stage[t] \in StartUp \cup Loaded
    /\ stage' = [stage EXCEPT ![t] = "drop"]
    /\ \E r \in {"error", "panic"} : result' = [result EXCEPT ![t] = r]
    /\ UNCHANGED <<tables, schema, service, client>>

\* A `?` on the way, or a panic: no service is started.  From the first OnceLock
\* to the last there is nothing that fails.
Fail(t) ==
    /\ stage[t] \in StartUp
    /\ stage' = [stage EXCEPT ![t] = "drop"]
    /\ \E r \in {"error", "panic"} : result' = [result EXCEPT ![t] = r]
    /\ UNCHANGED <<tables, schema, service, client>>

\* Four spawns without an await between them; the tasks run at once.
SpawnServices(t) ==
    /\ Pending = {}
    /\ At(t, "migrate", "select")
    /\ service' = [service EXCEPT ![t] = [s \in Service |-> "starting"]]
    /\ UNCHANGED <<result, tables, schema, client>>

-----------------------------------------------------------------------------
(* The services' tasks *)

SetService(t, s, to) == service' = [service EXCEPT ![t][s] = to]

\* The listener is bound and whatever the service reads first is there.
Listen(t, s) ==
    /\ service[t][s] = "starting"
    /\ SetService(t, s, "serving")
    /\ UNCHANGED <<stage, result, tables, schema, client>>

Accept(t, s) ==
    /\ service[t][s] = "serving" /\ s \notin client[t]
    /\ client' = [client EXCEPT ![t] = @ \cup {s}]
    /\ UNCHANGED <<stage, result, tables, schema, service>>

Hangup(t, s) ==
    /\ s \in client[t]
    /\ client' = [client EXCEPT ![t] = @ \ {s}]
    /\ UNCHANGED <<stage, result, tables, schema, service>>

\* The future of a service is dropped with the connections it tracks.
DropFuture(t, s) == client' = [client EXCEPT ![t] = @ \ ({s} \cap Tracked)]

\* Bind or accept fails, a file does not load, or the task panics.
ServiceEnds(t, s) ==
    /\ service[t][s] \in Live
    /\ SetService(t, s, "ended")
    /\ DropFuture(t, s)
    /\ UNCHANGED <<stage, result, tables, schema>>

-----------------------------------------------------------------------------
(* The select, the drain and the end of the tokio runtime *)

\* Mutant of SelectService: only the end of all services ends the server.
SelectLastService(t) ==
    /\ \A s \in Service : service[t][s] = "ended"
    /\ At(t, "select", "drain")
    /\ result' = [result EXCEPT ![t] = "error"]
    /\ UNCHANGED <<tables, schema, service, client>>

\* join_next returns a service; no service returns Ok.
SelectService(t) ==
    /\ At(t, "select", "drain")
    /\ \E s \in Service : service[t][s] = "ended" /\ SetService(t, s, "joined")
    /\ result' = [result EXCEPT ![t] = "error"]
    /\ UNCHANGED <<tables, schema, client>>

\* The shutdown branch; either is taken when both are ready.
SelectShutdown(t) ==
    /\ t \in signalled
    /\ At(t, "select", "drain")
    /\ result' = [result EXCEPT ![t] = "ok"]
    /\ UNCHANGED <<tables, schema, service, client>>

\* Mutant of Join: the services are not aborted, only waited for.
JoinEnded(t, s) ==
    /\ stage[t] = "drain"
    /\ service[t][s] = "ended"
    /\ SetService(t, s, "joined")
    /\ UNCHANGED <<stage, result, tables, schema, client>>

\* abort_all has been called: each task ends at its next await, if it has not
\* ended by itself, and is joined.  Until then it serves.
Join(t, s) ==
    /\ stage[t] = "drain"
    /\ service[t][s] \in Live \cup {"ended"}
    /\ SetService(t, s, "joined")
    /\ DropFuture(t, s)
    /\ UNCHANGED <<stage, result, tables, schema>>

Drained(t) ==
    /\ \A s \in Service : service[t][s] = "joined"
    /\ At(t, "drain", "drop")
    /\ UNCHANGED <<result, tables, schema, service, client>>

\* The tokio runtime is dropped: it cancels every task that is left and waits
\* for those in a poll.
DropTask(t, s) ==
    /\ stage[t] = "drop"
    /\ s \in client[t]
    /\ client' = [client EXCEPT ![t] = @ \ {s}]
    /\ UNCHANGED <<stage, result, tables, schema, service>>

\* Mutant of Return: the tokio runtime is shut down in the background.
ReturnAtOnce(t) ==
    /\ At(t, "drop", "done")
    /\ UNCHANGED <<result, tables, schema, service, client>>

Return(t) ==
    /\ client[t] = {}
    /\ At(t, "drop", "done")
    /\ UNCHANGED <<result, tables, schema, service, client>>

-----------------------------------------------------------------------------
\* What the thread of the run does by itself, and what its workers do.
Thread(t) ==
    \/ Prepare(t) \/ Load(t) \/ SetTable(t) \/ Connect(t) \/ Migrate(t) \/ Fail(t)
    \/ SpawnServices(t) \/ SelectService(t) \/ SelectShutdown(t) \/ Drained(t)
    \/ \E s \in Service : Join(t, s) \/ DropTask(t, s)

Worker(t) ==
    \E s \in Service : Listen(t, s) \/ Accept(t, s) \/ Hangup(t, s) \/ ServiceEnds(t, s)

Step(t) == Thread(t) \/ Worker(t)

-----------------------------------------------------------------------------
TypeOK ==
    /\ stage \in [Run -> StartUp \cup Loaded \cup {"none", "select", "drain", "drop", "done"}]
    /\ result \in [Run -> {"none", "ok", "error", "panic"}]
    /\ tables \subseteq Loaded
    /\ schema \subseteq Schema
    /\ service \in [Run -> [Service -> Live \cup {"none", "ended", "joined"}]]
    /\ client \in [Run -> SUBSET Service]

\* Something of the run still executes.
Busy(t) == client[t] # {} \/ \E s \in Service : service[t][s] \in Live

\* Whoever is served is served by a complete process: a service listens, and a
\* connection is open, only when every table is loaded and the database has all
\* that the statements of database.rs name, however earlier starts broke off.
ServingIsReady ==
    \A t \in Run : Busy(t) => tables = Loaded /\ schema = Schema

\* A start that fails never spoils the ones after it: outside load_all either
\* all tables are loaded or none is.  A OnceLock is set once, so that a process
\* with some of them set could not start a server any more.
LoadIsWhole ==
    (\A t \in Run : stage[t] \notin Loaded) => tables \in {{}, Loaded}

=============================================================================
