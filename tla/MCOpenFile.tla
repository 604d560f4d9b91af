------------------------------ MODULE MCOpenFile ------------------------------
(***************************************************************************)
(* Instances of OpenFile for TLC: blocks of two bytes, so that a write may *)
(* have a first, an inner and a last block.                                *)
(***************************************************************************)
EXTENDS OpenFile

CONSTANT h1

MCHandles == {h1}
=============================================================================
