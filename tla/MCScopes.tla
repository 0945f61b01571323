-------------------------------- MODULE MCScopes --------------------------------
(* Instances of Scopes for TLC: calls of one kind are interchangeable. *)
EXTENDS Scopes, TLC

Symmetry == Permutations(Registers) \union Permutations(Deprecates)

=============================================================================
