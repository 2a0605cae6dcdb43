------------------------------ MODULE MCRendez ------------------------------
(***************************************************************************)
(* Instances of Rendez for TLC: one or two threads of a Proc against one   *)
(* producer, the timer scan and a choice of walks.                         *)
(***************************************************************************)
EXTENDS RendezInv
=============================================================================
