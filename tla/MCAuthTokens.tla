----------------------------- MODULE MCAuthTokens -----------------------------
(***************************************************************************)
(* An instance of AuthTokens: two clients of one user, whose tokens can be *)
(* equal.                                                                  *)
(***************************************************************************)
EXTENDS AuthTokens, TLC

CONSTANTS u1, c1, c2

MCUserOf == [c \in Clients |-> u1]

TokenSymmetry == Permutations(Clients)
===============================================================================
