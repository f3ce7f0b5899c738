----------------------- MODULE ServerControllerProofs -----------------------
(***************************************************************************)
(* Proofs about ServerController, for any number of starts.                *)
(*                                                                         *)
(* The controller only ever looks at the last runtime thread; the          *)
(* invariant says why that is enough.  Threads: those before it are dead.  *)
(* Joined: whoever may spawn next or exit holds its handle or has seen it  *)
(* finish.  Claimed: `running` and the sender are about it.  Reported: the *)
(* window is behind by at most the one closure it has posted.              *)
(***************************************************************************)
EXTENDS ServerController, TLAPS

LastFinished == spawned = 0 \/ rt[spawned] \in Finished
Gone         == rt[spawned] \in {"reported", "dead"}

Threads ==
    /\ \A t \in Thread : t > spawned <=> rt[t] = "unborn"
    /\ \A t \in Thread : t < spawned => rt[t] = "dead"
    /\ ui \in {"reap", "claim", "spawn"} => spawned < MaxStart
    /\ ui = "track" => spawned > 0

Joined ==
    /\ ui \in {"loop", "take"} => thread = spawned \/ (thread = None /\ LastFinished)
    /\ ui \in {"reap", "join"} => handle = spawned \/ (handle = None /\ LastFinished)
    /\ ui \in {"reap", "claim", "spawn", "track"} => thread = None
    /\ ui \in {"claim", "spawn", "exited"} => LastFinished

Claimed ==
    /\ ui \in {"reap", "claim", "exited"} => ~running
    /\ ui = "spawn" => running /\ shutdown = spawned + 1
    /\ ~running => shutdown = None
    /\ running /\ ui # "spawn" =>
           /\ spawned > 0 /\ rt[spawned] \in {"serving", "returned", "panicked"}
           /\ shutdown \in {None, spawned}
    /\ spawned > 0 /\ rt[spawned] \in {"serving", "returned"} => running
    /\ spawned > 0 /\ rt[spawned] = "serving" => spawned \in signalled \/ shutdown = spawned

Reported ==
    /\ shown => ui \notin {"reap", "claim", "spawn", "track"} /\ spawned > 0
    /\ ~shown /\ ui \in {"loop", "reap", "claim", "spawn"} =>
           posted = 0 /\ (spawned > 0 => Gone)
    /\ ui = "track" \/ (shown /\ ui = "loop") => posted = IF Gone THEN 1 ELSE 0
    /\ posted <= 1

Inv == TypeOK /\ Threads /\ Joined /\ Claimed /\ Reported

-----------------------------------------------------------------------------
(* Every step keeps the invariant *)

USE BoundAssumption DEF Thread, None, Finished

LEMMA InitInv == Init => Inv
<1> SUFFICES ASSUME Init PROVE Inv
  OBVIOUS
<1> USE DEF Init
<1>1. TypeOK
  <2>1. 0 \in 0..MaxStart
    OBVIOUS
  <2>2. rt \in [Thread -> {"unborn"}]
    BY DEF Thread
  <2> HIDE DEF Thread
  <2> QED BY <2>1, <2>2 DEF TypeOK
<1>2. Threads /\ Joined /\ Claimed /\ Reported
  BY DEF Threads, Joined, Claimed, Reported, LastFinished
<1> QED BY <1>1, <1>2 DEF Inv

\* A runtime thread that still does something is the last one.
LEMMA OnlyTheLast ==
    ASSUME Inv, NEW t \in Thread, rt[t] \in {"serving", "returned", "cleared", "reported"}
    PROVE  t = spawned /\ spawned > 0
<1>1. spawned \in Nat /\ t \in Nat /\ t > 0
  BY DEF Inv, TypeOK
<1>2. ~(t > spawned) /\ ~(t < spawned)
  BY DEF Inv, Threads
<1> QED BY <1>1, <1>2

\* The steps of the UI thread that leave the runtime threads and what is said
\* about them alone.
LEMMA UiStep ==
    ASSUME Inv, ClickStart \/ Reap \/ Claim \/ SpawnFails \/ Track \/ TakeThread
    PROVE  Inv'
<1> USE DEF Inv, TypeOK, Threads, Joined, Claimed, Reported, LastFinished, Gone, state
<1>1. CASE ClickStart
  BY <1>1 DEF ClickStart
<1>2. CASE Reap
  BY <1>2 DEF Reap
<1>3. CASE Claim
  <2>1. ~running /\ spawned < MaxStart /\ spawned \in Nat
    BY <1>3 DEF Claim
  <2>2. running' /\ shutdown' = spawned + 1 /\ ui' = "spawn"
    BY <1>3, <2>1 DEF Claim
  <2>3. UNCHANGED <<thread, handle, shown, posted, spawned, rt, signalled>>
    BY <1>3, <2>1 DEF Claim
  <2>4. TypeOK'
    BY <2>1, <2>2, <2>3
  <2>5. Threads' /\ Joined' /\ Claimed' /\ Reported'
    BY <1>3, <2>1, <2>2, <2>3 DEF Claim
  <2> QED BY <2>4, <2>5
<1>4. CASE SpawnFails
  BY <1>4 DEF SpawnFails
<1>5. CASE Track
  BY <1>5 DEF Track
<1>6. CASE TakeThread
  <2>1. TypeOK' /\ Threads'
    BY <1>6 DEF TakeThread
  <2>2. Joined'
    BY <1>6 DEF TakeThread
  <2>3. Claimed' /\ Reported'
    BY <1>6 DEF TakeThread
  <2> QED BY <2>1, <2>2, <2>3
<1> QED BY <1>1, <1>2, <1>3, <1>4, <1>5, <1>6

LEMMA SpawnStep == Inv /\ Spawn => Inv'
<1> SUFFICES ASSUME Inv, Spawn PROVE Inv'
  OBVIOUS
<1> USE DEF Inv, Spawn, state
<1>1. /\ spawned < MaxStart /\ spawned' = spawned + 1
      /\ spawned \in Nat /\ spawned + 1 \in Thread
  BY DEF TypeOK, Threads
<1>2. \A t \in Thread : rt'[t] = IF t = spawned + 1 THEN "serving" ELSE rt[t]
  BY <1>1 DEF TypeOK
<1>3. \A t \in Thread : t < spawned + 1 => rt[t] = "dead"
  BY <1>1 DEF TypeOK, Threads, Joined, Reported, LastFinished, Gone
<1>4. TypeOK'
  BY <1>1 DEF TypeOK
<1>5. Threads'
  BY <1>1, <1>2, <1>3 DEF Threads
<1>6. Joined' /\ Claimed' /\ Reported'
  BY <1>1, <1>2 DEF Joined, Claimed, Reported, LastFinished, Gone, TypeOK
<1> QED BY <1>4, <1>5, <1>6

LEMMA StopStep == Inv /\ (ClickStop \/ CloseWindow) => Inv'
<1> SUFFICES ASSUME Inv, ClickStop \/ CloseWindow PROVE Inv'
  OBVIOUS
<1>1. StopServer /\ ui = "loop" /\ ui' \in {"loop", "take"} /\ (ui' = "loop" => shown)
  BY DEF ClickStop, CloseWindow
<1>2. UNCHANGED <<running, thread, handle, shown, posted, spawned, rt>>
  BY DEF ClickStop, CloseWindow, StopServer
<1>3. /\ shutdown' = IF running THEN None ELSE shutdown
      /\ signalled' = signalled \cup (IF running THEN {shutdown} \ {None} ELSE {})
  BY <1>1 DEF StopServer, TakeSender
<1> HIDE DEF None
<1> USE <1>1, <1>2, <1>3 DEF Inv
<1>4. TypeOK'
  BY DEF TypeOK
<1>5. Threads'
  BY DEF Threads
<1>6. Joined'
  BY DEF Joined, LastFinished
<1>7. Claimed'
  BY DEF Claimed, None
<1>8. Reported'
  BY DEF Reported, Gone
<1> QED BY <1>4, <1>5, <1>6, <1>7, <1>8

LEMMA ClosureStep == Inv /\ RunClosure => Inv'
<1> SUFFICES ASSUME Inv, RunClosure PROVE Inv'
  OBVIOUS
<1> USE DEF Inv, RunClosure, state
<1>1. posted = 1 /\ posted' = 0
  BY DEF TypeOK, Reported
<1>2. TypeOK'
  <2>1. 0 \in 0..MaxStart
    OBVIOUS
  <2>2. posted' \in 0..MaxStart
    BY <1>1, <2>1
  <2>3. UNCHANGED <<running, shutdown, thread, ui, handle, spawned, rt, signalled>> /\ shown' = FALSE
    OBVIOUS
  <2> HIDE DEF RunClosure, Thread, Finished
  <2> QED BY <2>2, <2>3 DEF TypeOK
<1>3. Threads' /\ Joined' /\ Claimed'
  BY DEF Threads, Joined, Claimed, LastFinished
<1>4. Reported'
  BY <1>1 DEF Reported, Gone
<1> QED BY <1>2, <1>3, <1>4

LEMMA ExitStep == Inv /\ JoinAndExit => Inv'
<1> SUFFICES ASSUME Inv, JoinAndExit PROVE Inv'
  OBVIOUS
<1> USE DEF Inv, JoinAndExit, TakeSender
<1>1. LastFinished
  BY DEF Joined, LastFinished
<1>2. TypeOK'
  BY DEF TypeOK
<1>3. Threads' /\ Reported'
  BY DEF Threads, Reported, Gone
<1>4. Joined' /\ Claimed'
  BY <1>1 DEF Joined, Claimed, LastFinished
<1> QED BY <1>2, <1>3, <1>4

LEMMA RuntimeStep == ASSUME Inv, NEW t \in Thread, Runtime(t) PROVE Inv'
<1>1. t = spawned /\ spawned > 0
  BY OnlyTheLast DEF Runtime, ServerReturns, ClearState, Report, End, Panic
<1>2. rt[t] \notin Finished /\ ui \notin {"claim", "spawn", "exited"}
  BY <1>1 DEF Runtime, ServerReturns, ClearState, Report, End, Panic, Inv, Joined, LastFinished
<1> USE <1>1, <1>2 DEF Inv, TypeOK, Threads, Joined, Claimed, Reported, LastFinished, Gone, state
<1>3. CASE ServerReturns(t)
  BY <1>3 DEF ServerReturns
<1>4. CASE ClearState(t)
  BY ZenonT(40), <1>4 DEF ClearState, TakeSender
<1>5. CASE Report(t)
  BY <1>5 DEF Report
<1>6. CASE End(t)
  BY <1>6 DEF End
<1>7. CASE Panic(t)
  BY <1>7 DEF Panic
<1> QED BY <1>3, <1>4, <1>5, <1>6, <1>7 DEF Runtime

LEMMA InvStep == Inv /\ [Next]_vars => Inv'
<1> SUFFICES ASSUME Inv, [Next]_vars PROVE Inv'
  OBVIOUS
<1>1. CASE Callback
  BY <1>1, UiStep, SpawnStep, ExitStep DEF Callback
<1>2. CASE User
  BY <1>2, UiStep, StopStep DEF User
<1>3. CASE RunClosure
  BY <1>3, ClosureStep
<1>4. ASSUME NEW t \in Thread, Runtime(t) PROVE Inv'
  BY <1>4, RuntimeStep
<1>5. CASE UNCHANGED vars
  BY <1>5 DEF vars, state, Inv, TypeOK, Threads, Joined, Claimed, Reported, LastFinished, Gone
<1> QED BY <1>1, <1>2, <1>3, <1>4, <1>5 DEF Next, Exited

LEMMA Invariance == Spec => []Inv
BY InitInv, InvStep, PTL DEF Spec

-----------------------------------------------------------------------------
(* The theorems *)

\* Every variable keeps its type: at most one closure is ever waiting, and the
\* sender claimed is that of a thread that can be spawned.
THEOREM TypeCorrect == Spec => []TypeOK
<1>1. Inv => TypeOK
  BY DEF Inv
<1> QED BY <1>1, Invariance, PTL

\* However often the server is started, its threads never overlap, and main()
\* leaves none behind.
THEOREM NeverTwo == Spec => []OneServer
<1>1. Inv => OneServer
  BY DEF Inv, TypeOK, Threads, Joined, LastFinished, OneServer, Alive
<1> QED BY <1>1, Invariance, PTL

\* Whatever ended the last server and however late its closure runs, a window
\* that offers to start one is right that none runs.
THEOREM WindowIsRight == Spec => []ShownStoppedIsStopped
<1>1. Inv => ShownStoppedIsStopped
  BY DEF Inv, TypeOK, Threads, Claimed, Reported, Gone, ShownStoppedIsStopped
<1> QED BY <1>1, Invariance, PTL

\* The sender of a server that runs and was not told to stop is never lost.
THEOREM StopCanReach == Spec => []StopReachesServer
<1>1. Inv => StopReachesServer
  BY DEF Inv, TypeOK, Threads, Claimed, StopReachesServer
<1> QED BY <1>1, Invariance, PTL

=============================================================================
