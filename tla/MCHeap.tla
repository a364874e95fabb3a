--------------------------------- MODULE MCHeap ---------------------------------
(***************************************************************************)
(* Instances of Heap for TLC.  The constants are given in the cfg files.   *)
(***************************************************************************)
EXTENDS Heap
==================================================================================
