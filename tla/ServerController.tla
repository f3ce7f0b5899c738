-------------------------- MODULE ServerController --------------------------
(***************************************************************************)
(* The desktop application's control of the server                         *)
(* (cheshire-server-app/src/server_controller.rs, with the callbacks and   *)
(* main() of main.rs and the buttons of ui/app-window.slint).              *)
(*                                                                         *)
(* The UI thread runs the event loop and the callbacks; every start spawns *)
(* a runtime thread that runs the server and reports back through a        *)
(* closure it posts to the event loop.  They share `running`, `shutdown`   *)
(* and `thread` behind a mutex that is never held across a join, a spawn   *)
(* or a send: the actions are the critical sections and the steps between. *)
(***************************************************************************)
EXTENDS Naturals

CONSTANT MaxStart   \* bound: runtime threads spawned over the whole run

ASSUME BoundAssumption == MaxStart \in Nat \ {0}

Thread == 1..MaxStart
None   == 0

VARIABLES
    running, shutdown, thread,  \* State: shutdown and thread name the thread
                                \* whose oneshot sender or handle they hold
    ui,         \* where the UI thread is
    handle,     \* the JoinHandle taken out of the state, while it is joined
    shown,      \* server-running of the window, which enables the buttons
    posted,     \* closures posted to the event loop and not run yet
    spawned,    \* runtime threads spawned so far
    rt,         \* where each runtime thread is
    signalled   \* the threads whose shutdown future completes when it is polled

state == <<running, shutdown, thread>>
vars  == <<state, ui, handle, shown, posted, spawned, rt, signalled>>

Finished == {"dead", "panicked"}

Init ==
    /\ running = FALSE /\ shutdown = None /\ thread = None
    /\ ui = "loop"
    /\ handle = None
    /\ shown = FALSE
    /\ posted = 0
    /\ spawned = 0
    /\ rt = [t \in Thread |-> "unborn"]
    /\ signalled = {}

\* The sender is taken out of the state.  Whether it is sent on or only dropped,
\* the future of its thread completes: the outcome of the await is not looked at.
TakeSender ==
    /\ shutdown' = None
    /\ signalled' = signalled \cup ({shutdown} \ {None})

-----------------------------------------------------------------------------
(* start(), called from the Start button's callback *)

\* The button is enabled while server-running is false.  A form that does not
\* validate or save ends the callback before start() and is not shown here.
\* The first critical section takes the handle of the previous thread.
ClickStart ==
    /\ ui = "loop" /\ ~shown
    /\ spawned < MaxStart
    /\ \/ /\ running
          /\ UNCHANGED <<thread, ui, handle>>
       \/ /\ ~running
          /\ handle' = thread
          /\ thread' = None
          /\ ui' = "reap"
    /\ UNCHANGED <<running, shutdown, shown, posted, spawned, rt, signalled>>

\* Mutant of Reap: the previous thread is not waited for.
ReapNoWait ==
    /\ ui = "reap"
    /\ handle' = None
    /\ ui' = "claim"
    /\ UNCHANGED <<state, shown, posted, spawned, rt, signalled>>

\* join_runtime_thread, without the lock: a panicked thread fails the start.
Reap ==
    /\ ui = "reap"
    /\ handle # None => rt[handle] \in Finished
    /\ handle' = None
    /\ ui' = IF handle # None /\ rt[handle] = "panicked" THEN "loop" ELSE "claim"
    /\ UNCHANGED <<state, shown, posted, spawned, rt, signalled>>

\* Mutant of Claim: the server is not marked as running.
ClaimUnmarked ==
    /\ ui = "claim"
    /\ \/ /\ running
          /\ ui' = "loop"
          /\ UNCHANGED <<shutdown, signalled>>
       \/ /\ ~running
          /\ shutdown' = spawned + 1
          /\ signalled' = signalled \cup ({shutdown} \ {None})
          /\ ui' = "spawn"
    /\ UNCHANGED <<running, thread, handle, shown, posted, spawned, rt>>

\* The second critical section checks again and claims the state; a sender that
\* was left in it is dropped.
Claim ==
    /\ ui = "claim"
    /\ \/ /\ running
          /\ ui' = "loop"
          /\ UNCHANGED <<running, shutdown, signalled>>
       \/ /\ ~running
          /\ running' = TRUE
          /\ shutdown' = spawned + 1
          /\ signalled' = signalled \cup ({shutdown} \ {None})
          /\ ui' = "spawn"
    /\ UNCHANGED <<thread, handle, shown, posted, spawned, rt>>

Spawn ==
    /\ ui = "spawn"
    /\ spawned' = spawned + 1
    /\ rt' = [rt EXCEPT ![spawned + 1] = "serving"]
    /\ ui' = "track"
    /\ UNCHANGED <<state, handle, shown, posted, signalled>>

\* The operating system refuses the thread: the claim is given back, and nobody
\* waits for its sender.
SpawnFails ==
    /\ ui = "spawn"
    /\ running' = FALSE /\ shutdown' = None
    /\ ui' = "loop"
    /\ UNCHANGED <<thread, handle, shown, posted, spawned, rt, signalled>>

\* The handle is stored and the callback shows the server as running, though
\* the thread may have finished meanwhile.
Track ==
    /\ ui = "track"
    /\ thread' = spawned
    /\ shown' = TRUE
    /\ ui' = "loop"
    /\ UNCHANGED <<running, shutdown, handle, posted, spawned, rt, signalled>>

-----------------------------------------------------------------------------
(* stop(), the event loop and shutdown_and_wait() *)

\* Takes the sender under the lock and sends; nothing if there is none.
StopServer ==
    /\ IF running THEN TakeSender ELSE UNCHANGED <<shutdown, signalled>>
    /\ UNCHANGED <<running, thread>>

ClickStop ==
    /\ ui = "loop" /\ shown
    /\ StopServer
    /\ UNCHANGED <<ui, handle, shown, posted, spawned, rt>>

\* The event loop runs a closure: the window shows the server as stopped.
RunClosure ==
    /\ ui = "loop" /\ posted > 0
    /\ posted' = posted - 1
    /\ shown' = FALSE
    /\ UNCHANGED <<state, ui, handle, spawned, rt, signalled>>

\* Mutant of CloseWindow: shutdown_and_wait joins without stopping.
CloseWithoutStop ==
    /\ ui = "loop"
    /\ ui' = "take"
    /\ UNCHANGED <<state, handle, shown, posted, spawned, rt, signalled>>

\* The window is closed, the event loop ends and main() goes on to
\* shutdown_and_wait(), whose first step is stop().
CloseWindow ==
    /\ ui = "loop"
    /\ StopServer
    /\ ui' = "take"
    /\ UNCHANGED <<handle, shown, posted, spawned, rt>>

TakeThread ==
    /\ ui = "take"
    /\ handle' = thread
    /\ thread' = None
    /\ ui' = "join"
    /\ UNCHANGED <<running, shutdown, shown, posted, spawned, rt, signalled>>

\* The join, then the last critical section; main() returns.
JoinAndExit ==
    /\ ui = "join"
    /\ handle # None => rt[handle] \in Finished
    /\ handle' = None
    /\ running' = FALSE /\ TakeSender
    /\ ui' = "exited"
    /\ UNCHANGED <<thread, shown, posted, spawned, rt>>

-----------------------------------------------------------------------------
(* The runtime thread *)

\* Mutant of ServerReturns: the closure is posted before the state is cleared.
ReturnsAndPosts(t) ==
    /\ rt[t] = "serving"
    /\ rt' = [rt EXCEPT ![t] = "returned"]
    /\ posted' = posted + 1
    /\ UNCHANGED <<state, ui, handle, shown, spawned, signalled>>

\* run_until_shutdown returns: on the shutdown future, or because a service failed or
\* could not start.
ServerReturns(t) ==
    /\ rt[t] = "serving"
    /\ rt' = [rt EXCEPT ![t] = "returned"]
    /\ UNCHANGED <<state, ui, handle, shown, posted, spawned, signalled>>

\* The thread's critical section: it drops whatever sender the state holds.
ClearState(t) ==
    /\ rt[t] = "returned"
    /\ running' = FALSE /\ TakeSender
    /\ rt' = [rt EXCEPT ![t] = "cleared"]
    /\ UNCHANGED <<thread, ui, handle, shown, posted, spawned>>

\* Mutant of Report: a report is dropped while the UI thread is busy.
ReportIfIdle(t) ==
    /\ rt[t] = "cleared"
    /\ posted' = IF ui = "loop" THEN posted + 1 ELSE posted
    /\ rt' = [rt EXCEPT ![t] = "reported"]
    /\ UNCHANGED <<state, ui, handle, shown, spawned, signalled>>

\* upgrade_in_event_loop, which fails when the loop is over.
Report(t) ==
    /\ rt[t] = "cleared"
    /\ posted' = IF ui \in {"take", "join", "exited"} THEN posted ELSE posted + 1
    /\ rt' = [rt EXCEPT ![t] = "reported"]
    /\ UNCHANGED <<state, ui, handle, shown, spawned, signalled>>

\* The thread drops its controller and ends; only then a join returns.
End(t) ==
    /\ rt[t] = "reported"
    /\ rt' = [rt EXCEPT ![t] = "dead"]
    /\ UNCHANGED <<state, ui, handle, shown, posted, spawned, signalled>>

\* A panic unwinds past the cleanup: the state and the window keep saying that
\* the server runs.
Panic(t) ==
    /\ rt[t] = "serving"
    /\ rt' = [rt EXCEPT ![t] = "panicked"]
    /\ UNCHANGED <<state, ui, handle, shown, posted, spawned, signalled>>

-----------------------------------------------------------------------------
Callback == Reap \/ Claim \/ Spawn \/ SpawnFails \/ Track \/ TakeThread \/ JoinAndExit
User     == ClickStart \/ ClickStop \/ CloseWindow
Runtime(t) == ServerReturns(t) \/ ClearState(t) \/ Report(t) \/ End(t) \/ Panic(t)

Exited == ui = "exited" /\ UNCHANGED vars

Next == Callback \/ User \/ RunClosure \/ Exited \/ \E t \in Thread : Runtime(t)

\* Threads run; a server that was told to stop does; the event loop comes to
\* what was posted.  The user need not do anything.
Fairness ==
    /\ WF_vars(Callback)
    /\ WF_vars(RunClosure)
    /\ \A t \in Thread :
          /\ WF_vars(t \in signalled /\ ServerReturns(t))
          /\ WF_vars(ClearState(t) \/ Report(t) \/ End(t))

Spec == Init /\ [][Next]_vars /\ Fairness

-----------------------------------------------------------------------------
(* Properties *)

TypeOK ==
    /\ running \in BOOLEAN
    /\ shutdown \in Thread \cup {None} /\ thread \in Thread \cup {None}
    /\ ui \in {"loop", "reap", "claim", "spawn", "track", "take", "join", "exited"}
    /\ handle \in Thread \cup {None}
    /\ shown \in BOOLEAN
    /\ posted \in 0..MaxStart
    /\ spawned \in 0..MaxStart
    /\ rt \in [Thread -> {"unborn", "serving", "returned", "cleared", "reported"} \cup Finished]
    /\ signalled \subseteq Thread

\* A runtime thread that is not gone.
Alive(t) == rt[t] \in {"serving", "returned", "cleared", "reported"}

\* Two runtime threads never exist at a time: a server shown as stopped may be
\* started again while the thread of the last one is still on its way out, but
\* the next one is not spawned, nor its handle stored, before that one is gone.
\* And main() returns only when no runtime thread is left behind.
OneServer ==
    /\ \A s, t \in Thread : Alive(s) /\ Alive(t) => s = t
    /\ ui = "exited" => \A t \in Thread : ~Alive(t)

\* The window never shows a stopped server while one runs: with the Stop button
\* disabled the user could not stop it.  Closures that are posted and not run
\* yet must all be about servers that are gone.
ShownStoppedIsStopped ==
    ui = "loop" /\ (~shown \/ posted > 0) =>
        ~running /\ \A t \in Thread : rt[t] # "serving"

\* Stop always reaches a server that runs and whose shutdown future is not
\* complete: the state says that a server runs and holds the sender of that one,
\* whatever starts, cleanups and failed spawns went before.
StopReachesServer ==
    \A t \in Thread : rt[t] = "serving" /\ t \notin signalled => running /\ shutdown = t

\* A server that was stopped, or ended by itself, comes to be shown as stopped
\* and can be started again, even when it ended before the callback that started
\* it showed it as running.  Only a panic is never shown.
EndShows ==
    (shown /\ spawned > 0 /\ rt[spawned] = "dead") ~> (~shown \/ ui = "exited")

\* The UI thread never hangs: neither a start, which joins a previous thread
\* that is still reporting, nor closing the window, which joins a server that
\* must have been told to stop, waits for a thread that waits for the UI thread.
UiReturns == ui \in {"reap", "take"} ~> ui \in {"loop", "exited"}

=============================================================================
