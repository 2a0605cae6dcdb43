------------------------------- MODULE MCPipe -------------------------------
(***************************************************************************)
(* Instances of Pipe: a ring of two bytes shared by several readers and    *)
(* writers.                                                                *)
(***************************************************************************)
EXTENDS Pipe, TLC

\* Writers are interchangeable: only equality of their names is used.
WriterSymmetry == Permutations(Writers)
=============================================================================
