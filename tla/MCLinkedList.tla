---------------------------- MODULE MCLinkedList ----------------------------
(* Three nodes: a first, a middle and a last one.  Two values, so that two   *)
(* nodes may carry the same.                                                 *)
EXTENDS LinkedList, TLC

CONSTANTS n1, n2, n3, v1, v2, null

const_Nodes == {n1, n2, n3}
const_Values == {v1, v2}
Symmetry == Permutations(const_Nodes) \cup Permutations(const_Values)
=============================================================================
