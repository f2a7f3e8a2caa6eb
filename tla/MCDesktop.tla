----------------------------- MODULE MCDesktop -----------------------------
(***************************************************************************)
(* Two windows, each with a tree that gains and loses a child.             *)
(***************************************************************************)
EXTENDS Desktop

CONSTANTS n0, n1

MCTrees == {{Node(n0, {})}, {Node(n0, {n1}), Node(n1, {})}}
=============================================================================
