----------------------------- MODULE MCMuxTunnel -----------------------------
(* A small instance of MuxTunnel for TLC.                                  *)
EXTENDS MuxTunnel, TLC

MCMaxChunks == [p \in Sides |-> 2]
=============================================================================
