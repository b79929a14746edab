-------------------------- MODULE MCControlledInput --------------------------
(* One element id on two DOM nodes, so that an id is used again while its old *)
(* node may still hold the focus, two values besides the empty one and two    *)
(* mounts.                                                                    *)
EXTENDS ControlledInput, TLC

CONSTANTS v1, v2

MCValues == {v1, v2}
Symmetry == Permutations(MCValues)
==============================================================================
