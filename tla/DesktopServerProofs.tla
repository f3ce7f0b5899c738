------------------------ MODULE DesktopServerProofs -------------------------
(***************************************************************************)
(* Proofs about DesktopServer, for any number of starts and any services.  *)
(*                                                                         *)
(* Every step is a step of ServerController or leaves its variables alone, *)
(* so that the invariant of ServerControllerProofs holds here, too.  It    *)
(* says that only the last thread may still serve.  Linked adds that a run *)
(* is under way exactly while its thread serves, Stages what a run has at  *)
(* each of its stages, and Filled how far load_all has come.               *)
(***************************************************************************)
EXTENDS DesktopServer, Sequences, TLAPS

CP == INSTANCE ServerControllerProofs

Linked ==
    \A t \in Thread :
        /\ rt[t] = "unborn" <=> stage[t] = "none"
        /\ rt[t] = "serving" <=> stage[t] \notin {"none", "done"}

Stages ==
    \A t \in Thread :
        /\ stage[t] \notin {"select", "drain"} =>
               \A s \in Service : service[t][s] \notin Runtime!Live
        /\ stage[t] \notin {"select", "drain", "drop"} => client[t] = {}
        /\ stage[t] \in {"connect", "migrate"} => tables = Runtime!Loaded
        /\ stage[t] \in {"select", "drain"} \/ client[t] # {} =>
               tables = Runtime!Loaded /\ schema = Runtime!Schema

\* One run at a time fills the tables, from the first to the last.
Filling(t) == stage[t] \in Runtime!Loaded

Filled ==
    /\ \A t, u \in Thread : Filling(t) /\ Filling(u) => t = u
    /\ \A t \in Thread, i \in 1..5 :
          stage[t] = Runtime!Tables[i] => tables = {Runtime!Tables[j] : j \in 1..i - 1}
    /\ LoadIsWhole

Inv == CP!Inv /\ Runtime!TypeOK /\ Linked /\ Stages /\ Filled

-----------------------------------------------------------------------------
(* The controller's variables take steps of the controller *)

LEMMA ControllerInit == Init => Controller!Init
BY DEF Init

LEMMA ControllerNext == [Next]_vars => [Controller!Next]_controllerVars
<1> SUFFICES ASSUME [Next]_vars PROVE [Controller!Next]_controllerVars
  OBVIOUS
<1> USE DEF Controller!Next
<1>1. CASE ControllerStep
  BY <1>1 DEF ControllerStep, Controller!Callback, Controller!Runtime, Thread
<1>2. CASE SpawnRun
  BY <1>2 DEF SpawnRun, Controller!Callback
<1>3. ASSUME NEW t \in Thread, RuntimeStep(t) PROVE UNCHANGED controllerVars
  BY <1>3 DEF RuntimeStep
<1>4. ASSUME NEW t \in Thread, RunReturns(t) PROVE Controller!Next
  BY <1>4 DEF RunReturns, Controller!Runtime, Thread
<1>5. CASE UNCHANGED vars
  BY <1>5 DEF vars, controllerVars
<1> QED BY <1>1, <1>2, <1>3, <1>4, <1>5 DEF Next

\* ServerControllerProofs brings its own instance of the controller.
LEMMA SameController == (Controller!Next <=> CP!Next) /\ (Controller!Init <=> CP!Init)
<1>1. Controller!Next <=> CP!Next
  BY ZenonT(60) DEF Controller!Next, CP!Next, Controller!Callback, CP!Callback,
                    Controller!User, CP!User, Controller!Runtime, CP!Runtime,
                    Controller!RunClosure, CP!RunClosure, Controller!Exited,
                    CP!Exited, Controller!Reap, CP!Reap, Controller!Claim,
                    CP!Claim, Controller!Spawn, CP!Spawn, Controller!SpawnFails,
                    CP!SpawnFails, Controller!Track, CP!Track,
                    Controller!TakeThread, CP!TakeThread,
                    Controller!JoinAndExit, CP!JoinAndExit,
                    Controller!ClickStart, CP!ClickStart, Controller!ClickStop,
                    CP!ClickStop, Controller!CloseWindow, CP!CloseWindow,
                    Controller!StopServer, CP!StopServer,
                    Controller!TakeSender, CP!TakeSender,
                    Controller!ServerReturns, CP!ServerReturns,
                    Controller!ClearState, CP!ClearState, Controller!Report,
                    CP!Report, Controller!End, CP!End, Controller!Panic,
                    CP!Panic, Controller!vars, CP!vars, Controller!state,
                    CP!state, Controller!Thread, CP!Thread, Controller!None,
                    CP!None, Controller!Finished, CP!Finished
<1>2. Controller!Init <=> CP!Init
  BY Zenon DEF Controller!Init, CP!Init, Controller!None, CP!None, Controller!Thread, CP!Thread
<1> QED BY <1>1, <1>2

LEMMA ControllerInv == CP!Inv /\ [Next]_vars => CP!Inv'
<1>1. [Next]_vars => [CP!Next]_(CP!vars)
  BY ControllerNext, SameController DEF controllerVars, CP!vars, CP!state
<1> QED BY <1>1, CP!InvStep, BoundAssumption DEF CP!BoundAssumption

-----------------------------------------------------------------------------
(* The steps of a run *)

\* What a step of run t between its begin and its return keeps.
Kept(t) ==
    /\ Runtime!TypeOK' /\ Stages'
    /\ \A u \in Thread : u # t => stage'[u] = stage[u]
    /\ stage[t] \notin {"none", "done"} /\ stage'[t] \notin {"none", "done"}

LEMMA TablesAre ==
    /\ Len(Runtime!Tables) = 5 /\ DOMAIN Runtime!Tables = 1..5
    /\ Runtime!Tables[1] = "chapter" /\ Runtime!Tables[2] = "ship"
    /\ Runtime!Tables[3] = "ship_statistics" /\ Runtime!Tables[4] = "skin"
    /\ Runtime!Tables[5] = "assets_dir"
    /\ Runtime!Loaded = {"chapter", "ship", "ship_statistics", "skin", "assets_dir"}
<1>1. /\ Len(Runtime!Tables) = 5 /\ DOMAIN Runtime!Tables = 1..5
      /\ Runtime!Tables[1] = "chapter" /\ Runtime!Tables[2] = "ship"
      /\ Runtime!Tables[3] = "ship_statistics" /\ Runtime!Tables[4] = "skin"
      /\ Runtime!Tables[5] = "assets_dir"
  BY DEF Runtime!Tables
<1>2. \A i \in 1..5 : i \in {1, 2, 3, 4, 5}
  OBVIOUS
<1> QED BY <1>1, <1>2 DEF Runtime!Loaded

LEMMA LoadedAre == Runtime!Loaded = {"chapter", "ship", "ship_statistics", "skin", "assets_dir"}
BY TablesAre

\* It does not touch the tables.
Idle(t) == UNCHANGED tables /\ ~ Filling(t) /\ ~ Filling(t)'

LEMMA IdleKeeps ==
    ASSUME Filled, NEW t \in Thread, Idle(t), Runtime!TypeOK,
           \A u \in Thread : u # t => stage'[u] = stage[u]
    PROVE  Filled'
<1>1. \A u \in Thread : stage[u] \in Runtime!Loaded \/ stage'[u] \in Runtime!Loaded => stage'[u] = stage[u]
  BY DEF Idle, Filling
<1>2. \A i \in 1..5 : Runtime!Tables[i] \in Runtime!Loaded
  BY TablesAre DEF Runtime!Loaded
<1> QED BY <1>1, <1>2 DEF Idle, Filled, Filling, LoadIsWhole, Runtime!LoadIsWhole, Thread, Controller!Thread

\* Under LOAD_LOCK the tables are filled one by one, and none of them is set
\* already.
LEMMA LoadStep ==
    ASSUME Runtime!TypeOK, Stages, Filled, NEW t \in Thread, Runtime!Load(t) \/ Runtime!SetTable(t)
    PROVE  Kept(t) /\ Filled'
<1> USE TablesAre DEF Thread, Controller!Thread
<1>1. CASE Runtime!Load(t)
  <2>1. /\ \A u \in Thread : ~Filling(u)
        /\ stage[t] = "load" /\ UNCHANGED <<result, tables, schema, service, client>>
        /\ stage' = [stage EXCEPT ![t] = IF "assets_dir" \in tables THEN "connect" ELSE "chapter"]
    BY <1>1 DEF Runtime!Load, Runtime!At, Filling
  <2>2. tables \in {{}, Runtime!Loaded}
    BY <2>1 DEF Filled, LoadIsWhole, Runtime!LoadIsWhole, Filling
  <2>3. Runtime!TypeOK'
    BY <2>1 DEF Runtime!TypeOK, Runtime!StartUp
  <2>4. Stages'
    BY <2>1, <2>2 DEF Stages, Runtime!TypeOK
  <2>5. Filled'
    BY <2>1, <2>2 DEF Filled, Filling, LoadIsWhole, Runtime!LoadIsWhole, Runtime!TypeOK
  <2> QED BY <2>1, <2>3, <2>4, <2>5 DEF Kept, Runtime!TypeOK
<1>2. CASE Runtime!SetTable(t)
  <2>1. PICK i \in 1..5 :
              /\ stage[t] = Runtime!Tables[i]
              /\ stage' = [stage EXCEPT ![t] =
                    IF Runtime!Tables[i] \in tables THEN "drop"
                    ELSE IF i = 5 THEN "connect" ELSE Runtime!Tables[i + 1]]
    BY <1>2 DEF Runtime!SetTable, Runtime!At
  <2>2. /\ tables = {Runtime!Tables[j] : j \in 1..i - 1}
        /\ \A u \in Thread : u # t => ~Filling(u)
    BY <2>1 DEF Filled, Filling
  <2>3. /\ Runtime!Tables[i] \notin tables
        /\ tables' = {Runtime!Tables[j] : j \in 1..i} /\ tables' \subseteq Runtime!Loaded
    <3>1. tables' = tables \cup {Runtime!Tables[i]}
      BY <1>2, <2>1 DEF Runtime!SetTable
    <3>2. \A j \in 1..i : j \in {1, 2, 3, 4, 5} /\ (j = i \/ j \in 1..i - 1)
      OBVIOUS
    <3>3. \A j \in 1..i - 1 : j \in {1, 2, 3, 4, 5} /\ j # i /\ j \in 1..i
      OBVIOUS
    <3> QED BY <2>2, <3>1, <3>2, <3>3
  <2>4. /\ stage' = [stage EXCEPT ![t] = IF i = 5 THEN "connect" ELSE Runtime!Tables[i + 1]]
        /\ result' = result
        /\ UNCHANGED <<schema, service, client>>
    BY <1>2, <2>1, <2>3 DEF Runtime!SetTable, Runtime!TypeOK
  <2>5. i = 5 => tables' = Runtime!Loaded
    <3>1. \A j \in {1, 2, 3, 4, 5} : j \in 1..5
      OBVIOUS
    <3> QED BY <2>3, <3>1
  <2>6. Runtime!TypeOK'
    BY <2>3, <2>4 DEF Runtime!TypeOK, Runtime!StartUp
  <2>7. Stages'
    <3>1. tables # Runtime!Loaded
      BY <2>3 DEF Runtime!Loaded
    <3>2. /\ \A u \in Thread : u # t => stage'[u] = stage[u]
          /\ stage'[t] \notin {"migrate", "select", "drain"}
          /\ stage'[t] = "connect" => i = 5
          /\ stage[t] \notin {"select", "drain"}
      <4>1. \A k \in 1..5 : Runtime!Tables[k] \in Runtime!Loaded
        BY DEF Runtime!Loaded
      <4>2. i # 5 => i + 1 \in 1..5
        OBVIOUS
      <4> QED BY <2>1, <2>4, <4>1, <4>2 DEF Runtime!TypeOK
    <3> HIDE TablesAre
    <3> QED BY <2>4, <2>5, <3>1, <3>2 DEF Stages
  <2>8. Filled'
    <3>1. \A k, n \in 1..5 : Runtime!Tables[k] = Runtime!Tables[n] => k = n
      <4>1. \A k \in 1..5 : k \in {1, 2, 3, 4, 5}
        OBVIOUS
      <4> QED BY <4>1
    <3>2. /\ \A u \in Thread : u # t => stage'[u] = stage[u] /\ ~ Filling(u)'
          /\ i = 5 => stage'[t] = "connect" /\ ~ Filling(t)'
          /\ i # 5 => i + 1 \in 1..5 /\ stage'[t] = Runtime!Tables[i + 1] /\ Filling(t)'
      <4>1. \A k \in 1..5 : Runtime!Tables[k] \in Runtime!Loaded
        BY DEF Runtime!Loaded
      <4>2. i # 5 => i + 1 \in 1..5
        OBVIOUS
      <4> QED BY <2>2, <2>4, <4>1, <4>2 DEF Filling, Runtime!TypeOK
    <3> HIDE TablesAre
    <3>3. ASSUME NEW u \in Thread, NEW k \in 1..5, stage'[u] = Runtime!Tables[k]
          PROVE  tables' = {Runtime!Tables[j] : j \in 1..k - 1}
      <4>1. Filling(u)'
        BY <3>3, TablesAre DEF Filling, Runtime!Loaded
      <4>2. u = t /\ i # 5 /\ k = i + 1
        BY <3>1, <3>2, <3>3, <4>1
      <4> QED BY <2>3, <4>2
    <3>4. LoadIsWhole'
      BY <2>5, <3>2 DEF LoadIsWhole, Runtime!LoadIsWhole, Filling
    <3> QED BY <3>2, <3>3, <3>4 DEF Filled
  <2> QED BY <2>1, <2>4, <2>6, <2>7, <2>8 DEF Kept, Runtime!TypeOK
<1> QED BY <1>1, <1>2

LEMMA RunStep ==
    ASSUME Runtime!TypeOK, Stages, NEW t \in Thread, Runtime!Step(t),
           ~ Runtime!Load(t), ~ Runtime!SetTable(t)
    PROVE  Kept(t) /\ Idle(t)
<1> USE LoadedAre DEF Idle, Runtime!TypeOK, Stages, Filling, Kept, Runtime!StartUp, Runtime!Live,
            Thread, Service, Controller!Thread, Runtime!Service
<1>1. CASE Runtime!Prepare(t)
  BY <1>1 DEF Runtime!Prepare, Runtime!At
<1>3. CASE Runtime!Connect(t)
  BY <1>3 DEF Runtime!Connect, Runtime!At
<1>4. CASE Runtime!Migrate(t)
  <2>1. /\ stage[t] = "migrate" /\ schema' \subseteq Runtime!Schema /\ schema \subseteq schema'
        /\ UNCHANGED <<stage, result, tables, service, client>>
    BY <1>4 DEF Runtime!Migrate, Runtime!Pending, Runtime!Schema
  <2> QED BY <2>1
<1>5. CASE Runtime!Fail(t)
  BY ZenonT(40), <1>5 DEF Runtime!Fail
<1>6. CASE Runtime!SpawnServices(t)
  BY <1>6 DEF Runtime!SpawnServices, Runtime!At, Runtime!Pending, Runtime!Schema
<1>7. CASE Runtime!SelectService(t)
  <2>1. PICK s \in Service : service' = [service EXCEPT ![t][s] = "joined"]
    BY <1>7 DEF Runtime!SelectService, Runtime!SetService
  <2>2. /\ stage[t] = "select" /\ stage' = [stage EXCEPT ![t] = "drain"]
        /\ result' = [result EXCEPT ![t] = "error"]
        /\ UNCHANGED <<tables, schema, client>>
    BY <1>7 DEF Runtime!SelectService, Runtime!At
  <2> HIDE DEF Service
  <2>3. Runtime!TypeOK'
    BY <2>1, <2>2 DEF Service
  <2>4. Stages'
    BY <2>1, <2>2
  <2>5. Idle(t)
    BY <2>2
  <2> QED BY <2>2, <2>3, <2>4, <2>5
<1>8. CASE Runtime!SelectShutdown(t)
  BY <1>8 DEF Runtime!SelectShutdown, Runtime!At
<1>9. CASE Runtime!Drained(t)
  BY <1>9 DEF Runtime!Drained, Runtime!At
<1>10. ASSUME NEW s \in Service, Runtime!Join(t, s) PROVE Kept(t) /\ Idle(t)
  BY <1>10 DEF Runtime!Join, Runtime!SetService, Runtime!DropFuture
<1>11. ASSUME NEW s \in Service, Runtime!DropTask(t, s) PROVE Kept(t) /\ Idle(t)
  BY <1>11 DEF Runtime!DropTask
<1>12. ASSUME NEW s \in Service, Runtime!Listen(t, s) PROVE Kept(t) /\ Idle(t)
  BY <1>12 DEF Runtime!Listen, Runtime!SetService
<1>13. ASSUME NEW s \in Service, Runtime!Accept(t, s) PROVE Kept(t) /\ Idle(t)
  BY <1>13 DEF Runtime!Accept
<1>14. ASSUME NEW s \in Service, Runtime!Hangup(t, s) PROVE Kept(t) /\ Idle(t)
  BY <1>14 DEF Runtime!Hangup
<1>15. ASSUME NEW s \in Service, Runtime!ServiceEnds(t, s) PROVE Kept(t) /\ Idle(t)
  BY <1>15 DEF Runtime!ServiceEnds, Runtime!SetService, Runtime!DropFuture
<1> QED
  BY <1>1, <1>3, <1>4, <1>5, <1>6, <1>7, <1>8, <1>9, <1>10, <1>11, <1>12, <1>13, <1>14, <1>15
     DEF Runtime!Step, Runtime!Thread, Runtime!Worker

-----------------------------------------------------------------------------
(* Every step keeps the invariant *)

LEMMA InitInv == Init => Inv
<1> SUFFICES ASSUME Init PROVE Inv
  OBVIOUS
<1>1. CP!Inv
  BY SameController, CP!InitInv, BoundAssumption DEF Init, CP!BoundAssumption
<1>2. Runtime!TypeOK
  <2>1. Runtime!Migration[1] = "accounts" /\ Runtime!Migration[7] = "players"
        /\ DOMAIN Runtime!Migration = 1..7
    BY DEF Runtime!Migration
  <2>2. schema \subseteq Runtime!Schema
    BY <2>1 DEF Init, Runtime!Init, Runtime!Schema
  <2> QED BY <2>2 DEF Init, Runtime!Init, Runtime!TypeOK
<1>3. Stages /\ Filled
  BY TablesAre DEF Filled, Filling, LoadIsWhole, Runtime!LoadIsWhole, Init, Runtime!Init, Stages, Thread, Controller!Thread, Service, Runtime!Live
<1>4. Linked
  BY DEF Init, Controller!Init, Runtime!Init, Linked, Thread, Controller!Thread
<1> QED BY <1>1, <1>2, <1>3, <1>4 DEF Inv

LEMMA InvStep == Inv /\ [Next]_vars => Inv'
<1> SUFFICES ASSUME Inv, [Next]_vars PROVE Inv'
  OBVIOUS
<1> USE DEF Inv
<1>0. CP!Inv'
  BY ControllerInv
<1>1. DOMAIN rt = Thread /\ DOMAIN stage = Thread
  BY DEF CP!Inv, CP!TypeOK, CP!Thread, Thread, Controller!Thread, Runtime!TypeOK
<1>2. CASE ControllerStep
  <2>1. UNCHANGED runtimeVars
    BY <1>2 DEF ControllerStep
  <2>2. Runtime!TypeOK' /\ Stages' /\ Filled'
    BY <2>1 DEF runtimeVars, Runtime!TypeOK, Stages, Filled, Filling, LoadIsWhole, Runtime!LoadIsWhole
  <2>3. \A t \in Thread :
            rt'[t] = rt[t] \/ (rt[t] \in {"returned", "cleared", "reported"}
                               /\ rt'[t] \in {"cleared", "reported", "dead"})
    BY <1>1, <1>2
       DEF ControllerStep, Controller!User, Controller!ClickStart, Controller!ClickStop,
           Controller!CloseWindow, Controller!RunClosure, Controller!Exited, Controller!vars,
           Controller!Reap, Controller!Claim, Controller!SpawnFails, Controller!Track,
           Controller!TakeThread, Controller!JoinAndExit, Controller!ClearState,
           Controller!Report, Controller!End
  <2>4. Linked'
    BY <2>1, <2>3 DEF Linked, runtimeVars
  <2> QED BY <1>0, <2>2, <2>4
<1>3. CASE SpawnRun
  <2>1. spawned + 1 \in Thread
    <3>1. spawned \in 0..MaxStart /\ spawned < MaxStart
      BY <1>3 DEF SpawnRun, Controller!Spawn, CP!Inv, CP!TypeOK, CP!Threads
    <3> QED BY <3>1, BoundAssumption DEF Thread, Controller!Thread
  <2>2. rt' = [rt EXCEPT ![spawned + 1] = "serving"]
    BY <1>3 DEF SpawnRun, Controller!Spawn
  <2>3. /\ stage[spawned + 1] = "none"
        /\ stage' = [stage EXCEPT ![spawned + 1] = "prepare"]
        /\ UNCHANGED <<result, tables, schema, service, client>>
    BY <1>3 DEF SpawnRun, Runtime!Begin, Runtime!At
  <2>4. Runtime!TypeOK' /\ Stages' /\ Filled'
    BY <2>1, <2>3, TablesAre
       DEF Runtime!TypeOK, Runtime!StartUp, Stages, Filled, Filling, LoadIsWhole,
           Runtime!LoadIsWhole, Thread, Controller!Thread
  <2>5. Linked'
    BY <1>1, <2>1, <2>2, <2>3 DEF Linked
  <2> QED BY <1>0, <2>4, <2>5
<1>4. ASSUME NEW t \in Thread, RuntimeStep(t) PROVE Inv'
  <2>1. Kept(t) /\ Filled' /\ UNCHANGED rt
    <3>1. CASE Runtime!Load(t) \/ Runtime!SetTable(t)
      BY <1>4, <3>1, LoadStep DEF RuntimeStep, controllerVars
    <3>2. CASE ~ (Runtime!Load(t) \/ Runtime!SetTable(t))
      BY <1>4, <3>2, RunStep, IdleKeeps DEF RuntimeStep, controllerVars, Kept
    <3> QED BY <3>1, <3>2
  <2>2. Linked'
    BY <2>1 DEF Kept, Linked
  <2> QED BY <1>0, <2>1, <2>2 DEF Kept
<1>5. ASSUME NEW t \in Thread, RunReturns(t) PROVE Inv'
  <2>1. /\ client[t] = {} /\ stage[t] = "drop" /\ stage' = [stage EXCEPT ![t] = "done"]
        /\ UNCHANGED <<result, tables, schema, service, client>>
    BY <1>5 DEF RunReturns, Runtime!Return, Runtime!At
  <2>2. \E to \in {"returned", "panicked"} : rt' = [rt EXCEPT ![t] = to]
    BY <1>5 DEF RunReturns, Controller!Panic, Controller!ServerReturns
  <2>3. Runtime!TypeOK' /\ Stages' /\ Filled'
    BY <2>1, TablesAre
       DEF Runtime!TypeOK, Stages, Filled, Filling, LoadIsWhole, Runtime!LoadIsWhole,
           Thread, Controller!Thread
  <2>4. Linked'
    BY <1>1, <2>1, <2>2 DEF Linked
  <2> QED BY <1>0, <2>3, <2>4
<1>6. CASE UNCHANGED vars
  BY <1>0, <1>6 DEF vars, controllerVars, runtimeVars, Runtime!TypeOK, Linked, Stages,
                       Filled, Filling, LoadIsWhole, Runtime!LoadIsWhole
<1> QED BY <1>2, <1>3, <1>4, <1>5, <1>6 DEF Next

LEMMA Invariance == Spec => []Inv
BY InitInv, InvStep, PTL DEF Spec

-----------------------------------------------------------------------------
(* The theorems *)

\* Every variable of both modules keeps its type.
THEOREM TypeCorrect == Spec => []TypeOK
<1>1. Inv => TypeOK
  BY DEF Inv, CP!Inv, TypeOK, Controller!TypeOK, CP!TypeOK, Controller!Thread, CP!Thread,
         Controller!None, CP!None, Controller!Finished, CP!Finished
<1> QED BY <1>1, Invariance, PTL

\* A service listens, and a connection is open, only with the tables loaded and
\* the database migrated, whatever earlier runs did or left undone.
THEOREM ServesWhenReady == Spec => []ServingIsReady
<1>1. Inv => ServingIsReady
  BY DEF Inv, Stages, ServingIsReady, Runtime!ServingIsReady, Runtime!Busy, Thread,
         Controller!Thread, Service
<1> QED BY <1>1, Invariance, PTL

\* A start that fails leaves all tables loaded or none.
THEOREM LoadsWhole == Spec => []LoadIsWhole
<1>1. Inv => LoadIsWhole
  BY DEF Inv, Filled
<1> QED BY <1>1, Invariance, PTL

\* No run begins, and main() does not return, while a service or a connection
\* of an earlier run is left, those that no JoinSet tracks included.
THEOREM RunsNeverOverlap == Spec => []OneRun
<1>1. Inv => OneRun
  <2> SUFFICES ASSUME Inv, NEW t \in Thread, Runtime!Busy(t)
               PROVE  ui # "exited" /\ \A u \in Thread : u > t => stage[u] = "none"
    BY DEF OneRun
  <2>1. rt[t] = "serving"
    BY DEF Inv, Linked, Stages, Runtime!Busy, Service
  <2>2. t = spawned /\ spawned > 0
    BY <2>1, CP!OnlyTheLast, BoundAssumption
       DEF Inv, CP!BoundAssumption, Thread, Controller!Thread, CP!Thread
  <2>3. ui # "exited"
    BY <2>1, <2>2 DEF Inv, CP!Inv, CP!Joined, CP!LastFinished, CP!Finished
  <2>4. \A u \in Thread : u > t => stage[u] = "none"
    BY <2>2 DEF Inv, CP!Inv, CP!Threads, Linked, Thread, Controller!Thread, CP!Thread
  <2> QED BY <2>3, <2>4
<1> QED BY <1>1, Invariance, PTL

\* The safety of ImplementsController: what the window, the controller and its
\* threads do around the runtime is what ServerController lets them do.
THEOREM Refinement == Spec => Controller!Init /\ [][Controller!Next]_controllerVars
BY ControllerInit, ControllerNext, PTL DEF Spec

=============================================================================
