------------------------------ MODULE MCSnapshot ------------------------------
(* Instances of PrSnapshot: four commits, with one short page, two pages, two *)
(* full pages and no page at all.                                             *)
EXTENDS PrSnapshot

CONSTANTS a, b, c, d

MCShas == {a, b, c, d}
MCPages == [s \in Shas |-> IF s = a THEN 2 ELSE IF s = b THEN 1
                           ELSE IF s = c THEN 2 ELSE 0]
MCLastFull == [s \in Shas |-> s = c]
=============================================================================
