-------------------------- MODULE MCControlChannel --------------------------
(* A small instance of ControlChannel for TLC.                             *)
EXTENDS ControlChannel, TLC
=============================================================================
