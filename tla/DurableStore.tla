---------------------------- MODULE DurableStore ----------------------------
(***************************************************************************)
(* What the player runtime promises the users of an account, whatever      *)
(* tasks, cache and players table do to keep it: the account has a current *)
(* state and a stored state, and a request is answered only once its       *)
(* change is stored.  A failed save leaves the stored state behind; a      *)
(* restart brings every account back to its stored state, or to what a     *)
(* save that was just under way would have stored.  A change may be        *)
(* crossed: it was made while an older write of the account was under way, *)
(* and then no write after it is sure to store it.                         *)
(***************************************************************************)
CONSTANTS Uid, Change

VARIABLES
    current,    \* [Uid -> SUBSET Change]
    stored,     \* [Uid -> SUBSET Change]
    answered,   \* <<u, m>>: the sender of m was told that m is done for u
    crossed     \* the changes whose storing was not promised

vars == <<current, stored, answered, crossed>>

Init ==
    /\ current = [u \in Uid |-> {}]
    /\ stored = [u \in Uid |-> {}]
    /\ answered = {}
    /\ crossed = {}

Submit(u, m) ==
    /\ current' = [current EXCEPT ![u] = @ \cup {m}]
    /\ crossed' \in {crossed, crossed \cup {m}}
    /\ UNCHANGED <<stored, answered>>

\* What a write of u may leave in its row: every change but crossed ones.
Writable(u) == {info \in SUBSET current[u] : current[u] \ crossed \subseteq info}

Store(u) ==
    /\ \E info \in Writable(u) : stored' = [stored EXCEPT ![u] = info]
    /\ UNCHANGED <<current, answered, crossed>>

Answer(u, m) ==
    /\ m \in stored[u] \cup crossed
    /\ answered' = answered \cup {<<u, m>>}
    /\ UNCHANGED <<current, stored, crossed>>

Restart ==
    /\ stored' \in [Uid -> SUBSET Change]
    /\ \A u \in Uid : stored'[u] \in {stored[u]} \cup Writable(u)
    /\ current' = stored'
    /\ UNCHANGED <<answered, crossed>>

Next ==
    \/ \E u \in Uid : Store(u) \/ \E m \in Change : Submit(u, m) \/ Answer(u, m)
    \/ Restart

Spec == Init /\ [][Next]_vars

=============================================================================
