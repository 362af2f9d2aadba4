------------------------- MODULE MCPublisherRuntime -------------------------
(* Small instances of PublisherRuntime for TLC.                            *)
EXTENDS PublisherRuntime, TLC

CONSTANTS alice, bob, carol, s1, s2, s3, wiki

\* alice is a subscriber already, bob and carol are unknown.
MCInitialAllow == {alice}
MCServiceAllows == wiki :> {alice, bob}

\* bob comes twice, as a candidate or, once he is approved, to replace his
\* own connection; carol is another candidate.
MCKeyOf == s1 :> bob @@ s2 :> bob @@ s3 :> carol

\* Two candidates and a known subscriber.
MCPairingKeyOf == s1 :> bob @@ s2 :> carol @@ s3 :> alice
=============================================================================
