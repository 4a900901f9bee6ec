----------------------------- MODULE MCReports -------------------------------
(* Instances of Reports for TLC. *)
EXTENDS Reports

\* January the 8th and February the 8th.
TwoMonths   == {8, 39}
WholeRanges == {<<8, 39>>}
==============================================================================
