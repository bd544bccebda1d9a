------------------------- MODULE MCRepositoryLock -------------------------
(* RepositoryLock on a few processes; safety runs reduce by symmetry. *)
EXTENDS RepositoryLock, TLC

Symmetry == Permutations(Proc) \cup Permutations(Nonce)
=============================================================================
