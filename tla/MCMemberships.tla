----------------------------- MODULE MCMemberships -----------------------------
(* Instances of Memberships for TLC: calls and users are interchangeable. *)
EXTENDS Memberships, TLC

Symmetry == Permutations(Grants) \union Permutations(Revokes) \union Permutations(Lists)
            \union Permutations(Users)

=============================================================================
