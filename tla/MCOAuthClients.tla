----------------------------- MODULE MCOAuthClients -----------------------------
(* Instances of OAuthClients for TLC: calls of one kind are interchangeable. *)
EXTENDS OAuthClients, TLC

Uris     == {<<>>, <<"u1">>, <<"u1", "u2">>}
ScopeIds == {<<>>, <<"s1">>}

Symmetry == Permutations(Creates) \union Permutations(Rotates) \union Permutations(Deletes)

=============================================================================
