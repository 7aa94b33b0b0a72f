------------------------------ MODULE MCRouting ------------------------------
(* Two equal accounts and a backup, and requests of each kind. *)
EXTENDS Routing, TLC

TwoAndABackup == [a \in Account |-> IF a < 3 THEN 1 ELSE 2]
=============================================================================
