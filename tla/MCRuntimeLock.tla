---------------------------- MODULE MCRuntimeLock ----------------------------
(* Small instances of RuntimeLock for TLC.                                 *)
EXTENDS RuntimeLock, TLC

CONSTANTS ghost, p1, p2
=============================================================================
