------------------------------ MODULE MCPipeline ------------------------------
(* Instance of ReviewPipeline: two changed files of two lines, answers of up   *)
(* to two findings, and a budget that one file's diff with one endpoint's      *)
(* conversation exhausts.                                                      *)
EXTENDS ReviewPipeline

CONSTANTS f, g, other

MCFiles == {f, g}
MCLines == 1..2
===============================================================================
