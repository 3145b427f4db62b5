------------------------------- MODULE MCService -------------------------------
(* Instance of ReviewService: two pull requests of one repository, one with two *)
(* events, the other with one.                                                  *)
EXTENDS ReviewService

CONSTANTS p, q, r, x

MCPulls == {p, q}
OneRepository == [n \in MCPulls |-> r]
Events == [n \in MCPulls |-> IF n = p THEN 2 ELSE 1]
MCAlarms == {x}
=============================================================================
