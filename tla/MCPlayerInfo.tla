---------------------------- MODULE MCPlayerInfo ----------------------------
(* The tens of a template and the hundreds of a skin are its group.  35 is  *)
(* a maxed template whose skin row is missing, 41 a first ship that only    *)
(* the client knows; a packet takes two ships.                              *)
EXTENDS PlayerInfo

Templates == {11, 15, 25, 35}
Skins     == {101, 201}
Groups    == [x \in Templates \cup Skins |-> IF x > 100 THEN x \div 100 ELSE x \div 10]

=============================================================================
