----------------------------- MODULE MCLogPanel -----------------------------
(* Three events of two threads, with characters of one to four bytes. *)
EXTENDS LogPanel

MCEvents == {<<1>>, <<1, 4>>, <<3, 2>>}
=============================================================================
