------------------------------ MODULE MCNorLog ------------------------------
(***************************************************************************)
(* Small regions for TLC, in cells.  A file without rows takes three cells *)
(* of JXS (name, columns, day_start) and two of JXV; a rotation must leave *)
(* room for one or two rows of each file and for a third file not to fit.  *)
(***************************************************************************)
EXTENDS NorLog

OneType  == <<"JXS">>
TwoTypes == <<"JXS", "JXV">>

Size4and4 == [t \in {"JXS", "JXV"} |-> 4]
Size10    == [t \in {"JXS"} |-> 10]
Size8and5 == [t \in {"JXS", "JXV"} |-> IF t = "JXS" THEN 8 ELSE 5]

=============================================================================
