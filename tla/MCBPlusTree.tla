---------------------------- MODULE MCBPlusTree ----------------------------
(* Instances of BPlusTree for TLC: order 4 is the smallest the constructor *)
(* builds, order 2 takes six keys to a tree of three levels with splits of *)
(* inner nodes.                                                            *)
EXTENDS BPlusTree

(* No step reads call, so states that differ in it alone are one state; the *)
(* refinement is checked on every step, into known states too.              *)
TreeView == <<order, nodes, root, cur>>
=============================================================================
