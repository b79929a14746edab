---------------------------- MODULE MCChangeSinks ----------------------------
(* Two `ref` records of one source, a combine of both, and two maps of the *)
(* first: fan-out, a diamond and a chain of releases in five records.      *)
EXTENDS ChangeSinks

MCInputs == <<<<>>, <<>>, <<1, 2>>, <<1>>, <<1>>>>
MCSourceOf == <<"count", "count">>
================================================================================
