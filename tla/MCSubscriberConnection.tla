----------------------- MODULE MCSubscriberConnection -----------------------
(* A small instance of SubscriberConnection for TLC.                       *)
EXTENDS SubscriberConnection, TLC
=============================================================================
