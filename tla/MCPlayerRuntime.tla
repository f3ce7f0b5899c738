-------------------------- MODULE MCPlayerRuntime --------------------------
(* Two connections and two accounts, either connection as either account:  *)
(* two users, one user on two connections, and account switches.           *)
EXTENDS PlayerRuntime, TLC

Symmetry == Permutations(Conn) \cup Permutations(Uid) \cup Permutations(Change)

=============================================================================
