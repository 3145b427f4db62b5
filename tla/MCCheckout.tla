------------------------------ MODULE MCCheckout ------------------------------
(* Instances of GitCheckout for TLC. *)
EXTENDS GitCheckout, TLC

CONSTANTS j1, j2, j3, h1, h2, h3, base, fork

\* One pull request from the base repository, one from a fork, one from a fork
\* that is deleted.
JobsDef == {j1, j2, j3}
HeadDef == j1 :> h1 @@ j2 :> h2 @@ j3 :> h3
UrlDef == j1 :> base @@ j2 :> fork @@ j3 :> base
ByRefDef == {j3}
=============================================================================
