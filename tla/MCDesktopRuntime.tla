-------------------------- MODULE MCDesktopRuntime --------------------------
(* A small instance of DesktopRuntime for TLC.                             *)
EXTENDS DesktopRuntime, TLC

CONSTANTS c1, c2, p1, p2

Set(p, s, b) ==
  [roles |-> [r \in Roles |-> IF r = "publisher" THEN p ELSE s], boot |-> b]

MCLaunches == {Set(c1, c1, 1)}

\* One role changes or goes and comes back, or the DHT node is replaced.
MCTargets == {Set(c1, c2, 1), Set(None, c1, 1), Set(c1, c1, 2)}
=============================================================================
