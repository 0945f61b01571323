-------------------------------- MODULE MCTokens --------------------------------
(* Instances of Tokens for TLC: tokens and calls are interchangeable. *)
EXTENDS Tokens, TLC

Symmetry == Permutations(Tokens) \union Permutations(Introspects) \union Permutations(Revokes)

=============================================================================
