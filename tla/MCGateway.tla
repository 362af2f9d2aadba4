------------------------------ MODULE MCGateway ------------------------------
(* A small instance of Gateway for TLC.                                    *)
EXTENDS Gateway

CONSTANTS h1, t1
==============================================================================
