--------------------------- MODULE DesktopServer ----------------------------
(***************************************************************************)
(* The desktop application with the servers it runs: ServerController and  *)
(* ServerRuntime joined.  The controller's thread calls run_until_shutdown *)
(* between its spawn and its critical section, `signalled` is the oneshot  *)
(* channel between the two, and a panic unwinds through the drop of the    *)
(* tokio runtime before it ends the thread.                                *)
(***************************************************************************)
EXTENDS Naturals

CONSTANTS
    MaxStart,   \* bound: runs over the whole life of the application
    Tracked,    \* the gate and dispatch, say
    Detached    \* the SDK and its proxy

ASSUME BoundAssumption == MaxStart \in Nat \ {0}
ASSUME ServiceAssumption == Tracked \cap Detached = {}

VARIABLES
    running, shutdown, thread, ui, handle, shown, posted, spawned, rt, signalled,
    stage, result, tables, schema, service, client

Controller == INSTANCE ServerController
Runtime    == INSTANCE ServerRuntime WITH Run <- 1..MaxStart

controllerVars ==
    <<running, shutdown, thread, ui, handle, shown, posted, spawned, rt, signalled>>
runtimeVars == <<stage, result, tables, schema, service, client>>
vars == <<controllerVars, runtimeVars>>

Thread  == Controller!Thread
Service == Runtime!Service

Init == Controller!Init /\ Runtime!Init

\* The controller alone: all but the actions that begin or end a run.
ControllerStep ==
    /\ \/ Controller!User \/ Controller!RunClosure \/ Controller!Exited
       \/ Controller!Reap \/ Controller!Claim \/ Controller!SpawnFails \/ Controller!Track
       \/ Controller!TakeThread \/ Controller!JoinAndExit
       \/ \E t \in Thread : Controller!ClearState(t) \/ Controller!Report(t) \/ Controller!End(t)
    /\ UNCHANGED runtimeVars

SpawnRun == Controller!Spawn /\ Runtime!Begin(spawned + 1)

RuntimeStep(t) == Runtime!Step(t) /\ UNCHANGED controllerVars

\* block_on has returned or unwound, and the tokio runtime is gone.
RunReturns(t) ==
    /\ Runtime!Return(t)
    /\ IF result[t] = "panic" THEN Controller!Panic(t) ELSE Controller!ServerReturns(t)

Next == ControllerStep \/ SpawnRun \/ \E t \in Thread : RuntimeStep(t) \/ RunReturns(t)

\* As in ServerController, and: a start-up comes to an end, a select sees that
\* it is ready, aborted and dropped tasks reach their next await.  No service
\* need ever listen, end or have a client.
Fairness ==
    /\ WF_vars((Controller!Callback /\ UNCHANGED runtimeVars) \/ SpawnRun)
    /\ WF_vars(Controller!RunClosure /\ UNCHANGED runtimeVars)
    /\ \A t \in Thread :
          /\ WF_vars((Runtime!Thread(t) /\ UNCHANGED controllerVars) \/ RunReturns(t))
          /\ WF_vars(/\ Controller!ClearState(t) \/ Controller!Report(t) \/ Controller!End(t)
                     /\ UNCHANGED runtimeVars)

Spec == Init /\ [][Next]_vars /\ Fairness

-----------------------------------------------------------------------------
(* Properties *)

TypeOK == Controller!TypeOK /\ Runtime!TypeOK

\* A service listens only with every table loaded and the database migrated.
ServingIsReady == Runtime!ServingIsReady

\* A start that fails in load_all leaves no table behind.
LoadIsWhole == Runtime!LoadIsWhole

\* Runs never overlap, down to the last task: as long as a service or a
\* connection of one run lives, connections of the SDK and its proxy included,
\* which abort_all does not reach, no other run has begun and main() has not
\* returned.  So a new server finds its ports free and its database unused.
OneRun ==
    \A t \in Thread : Runtime!Busy(t) =>
        /\ ui # "exited"
        /\ \A u \in Thread : u > t => stage[u] = "none"

\* A server that lost one service does not go on with the others: whenever a
\* service ends, bound or not, the runtime thread ends and the window comes to
\* show it, unless the application is closed.
FailureEnds ==
    \A t \in Thread :
        (\E s \in Service : service[t][s] = "ended") ~>
            (rt[t] = "dead" /\ (~shown \/ ui = "exited"))

\* The runtime keeps what ServerController assumes of it, the fairness of a
\* stop included: a server that was told to stop returns, whatever it was doing.
ImplementsController == Controller!Spec

=============================================================================
