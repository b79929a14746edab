----------------------------- MODULE MCDomRuntime -----------------------------
(* Two elements, one of which may be in the other, on three DOM nodes, so     *)
(* that an id is used again; two behaviours and two event ids.                *)
EXTENDS DomRuntime

CONSTANTS row, cell, map, chart, press, release

MCIds == {row, cell}
MCNames == {map, chart}
MCEvents == {press, release}
Symmetry == Permutations(MCIds) \cup Permutations(MCNames) \cup Permutations(MCEvents)
==============================================================================
