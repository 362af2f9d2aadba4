-------------------------- MODULE MCAndroidWorklet --------------------------
(* A small instance of AndroidWorklet for TLC.                             *)
EXTENDS AndroidWorklet

CONSTANTS p1, p2
=============================================================================
