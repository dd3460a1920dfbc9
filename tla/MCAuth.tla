-------------------------------- MODULE MCAuth --------------------------------
(* Authentication with the values its .cfg files give the constants. *)
EXTENDS Auth, TLC

Sym == Permutations(Helpers)
=============================================================================
