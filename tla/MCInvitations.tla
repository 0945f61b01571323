----------------------------- MODULE MCInvitations -----------------------------
(* Instances of Invitations for TLC: calls and addresses are interchangeable. *)
EXTENDS Invitations, TLC

RaceSymmetry == Permutations(Invites) \union Permutations(Accepts) \union Permutations(Emails)

=============================================================================
