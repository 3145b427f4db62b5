-------------------------------- MODULE MCEngine --------------------------------
(***************************************************************************)
(* Instance of EngineCall: patches of up to five pieces; four files of     *)
(* nine sorts, with room for three small ones; four comments, one to a    *)
(* page and two pages to an endpoint, with room for two short ones; three  *)
(* model names, one of them also written with spaces around it, and a      *)
(* blank setting.                                                          *)
(***************************************************************************)
EXTENDS EngineCall

CONSTANTS m1, m2, m3, padded1, blank

MCSettings == {m1, m2, m3, padded1, blank}
MCStrip(w) == IF w = padded1 THEN m1 ELSE w

MCStarts == {0, 1, 4}

Source(changed, chars) ==
    [listed |-> "plain", changed |-> changed, core |-> FALSE, named |-> "source",
     bytes |-> chars, chars |-> chars, readable |-> TRUE]

MCFileKinds ==
    {Source(TRUE, 1), Source(TRUE, 4), Source(FALSE, 1),
     [Source(FALSE, 4) EXCEPT !.core = TRUE],
     [Source(TRUE, 2) EXCEPT !.named = "data", !.bytes = 4],
     [Source(FALSE, 2) EXCEPT !.named = "config", !.bytes = 4],
     [Source(TRUE, 0) EXCEPT !.listed = "deleted"],
     [Source(FALSE, 0) EXCEPT !.listed = "no_file"],
     [Source(TRUE, 1) EXCEPT !.listed = "quoted"]}

Said(kind, len) == [kind |-> kind, dated |-> TRUE, usable |-> TRUE, len |-> len]

MCTalkKinds ==
    {Said("review", 2), [Said("review", 2) EXCEPT !.dated = FALSE],
     Said("issue_comment", 2), Said("issue_comment", 6),
     [Said("issue_comment", 2) EXCEPT !.usable = FALSE], Said("line_comment", 2)}

MCComments == 1..4
MCPaths == 1..4
=============================================================================
