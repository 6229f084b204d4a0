------------------------------ MODULE MCAccounts ------------------------------
(* Instances of Accounts for TLC: one account, whose requests compete with    *)
(* the administrator's.                                                       *)
EXTENDS Accounts

CONSTANT u1

MCUser == {u1}
MCOwnerOf == [t \in Task |-> u1]
=============================================================================
