----------------------- MODULE MCProviderCredentials -----------------------
(* Small instances of ProviderCredentials for TLC. *)
EXTENDS ProviderCredentials, TLC

\* Neither the keys nor the mutation ids are ordered.
AnyKeyOrMutation == Permutations(Keys) \cup Permutations(Mutations)
=============================================================================
