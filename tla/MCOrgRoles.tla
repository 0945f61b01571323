------------------------------ MODULE MCOrgRoles ------------------------------
(* Instances of OrgRoles for TLC: the calls of one kind are interchangeable. *)
EXTENDS OrgRoles, TLC

TwoBuiltins  == <<"super_admin", "admin">>

Symmetry == Permutations(Inits) \union Permutations(Creates) \union Permutations(Admins)

=============================================================================
