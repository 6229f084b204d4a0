----------------------------- MODULE MCInvitations -----------------------------
(* Instances of Invitations for TLC: every invitation is for the same address. *)
EXTENDS Invitations

CONSTANT e1

MCEmail == {e1}
MCEmailOf == [i \in Invitation |-> e1]
MCLegacy == {}
=============================================================================
