------------------------ MODULE ControlChannelProofs ------------------------
(***************************************************************************)
(* Only a publisher without the control protocol is taken for one, and     *)
(* only a silent one for gone, for any number of tolerated pongs and any   *)
(* modulus of the sequence numbers.                                        *)
(***************************************************************************)
EXTENDS ControlChannel, SequenceTheorems, TLAPS

\* What the verdict "legacy" rests on: a channel that closes before it opened
\* was closed by a legacy publisher or by the end of the connection.
NegotiationInv ==
  /\ LegacyIsReal
  /\ micro = "legacy" => mode = "legacy" \/ outer # "up"
  /\ mode = "heartbeat" /\ ~opened =>
       \A i \in 1..Len(toSub) : toSub[i].type # "close"

\* No more pongs are counted missed than were really late.
HeartbeatInv == NoFalseAlarm /\ (~cut => missed <= tardy)

\* A candidate has no control channel to receive anything on.
CandidateInv ==
  ~authorized =>
    toPub = <<>> /\ toSub = <<>> /\ ~opened /\ (closed => outer # "up")

IInv == TypeOK /\ NegotiationInv /\ HeartbeatInv /\ CandidateInv


-----------------------------------------------------------------------------
(* The next sequence number is one, and None is none.                      *)
LEMMA Successor ==
  ASSUME NEW n \in Numbers
  PROVE  (n + 1) % Sequences \in Numbers
BY ControlAssumption DEF Numbers

(* A ping is sent into a queue of messages to the publisher.               *)
LEMMA PingKeepsTypes ==
  ASSUME TypeOK, NEW q \in Seq(ToPublisher), SendPing(q)
  PROVE  /\ sequence' \in Numbers /\ pending' = sequence' /\ timer' = "pong"
         /\ pending' # None
         /\ toPub' \in Seq(ToPublisher)
<1>1. sequence' \in Numbers /\ pending' = sequence' /\ timer' = "pong"
  BY Successor DEF SendPing, TypeOK
<1>2. [type |-> "ping", seq |-> sequence'] \in ToPublisher
  BY <1>1 DEF ToPublisher
<1>3. toPub' = Append(q, [type |-> "ping", seq |-> sequence'])
  BY DEF SendPing
<1>4. toPub' \in Seq(ToPublisher)
  BY <1>2, <1>3, AppendProperties
<1>5. pending' # None
  BY <1>1, ControlAssumption DEF Numbers, None
<1> QED BY <1>1, <1>4, <1>5

(* The negotiation begins with nothing but an open under way.              *)
LEMMA ControlInitSafe == Init => IInv
<1> SUFFICES ASSUME Init PROVE IInv
  OBVIOUS
<1>1. Msg("open") \in ToPublisher
  BY DEF ToPublisher
<1>2. toPub \in Seq(ToPublisher) /\ toSub \in Seq(ToSubscriber)
  BY <1>1 DEF Init
<1>3. 0 \in Numbers /\ 0 \in 0..MissedPongsBeforeTimeout
  BY ControlAssumption DEF Numbers
<1>4. TypeOK
  BY <1>2, <1>3 DEF Init, TypeOK, ToPublisher, ToSubscriber
<1>5. NegotiationInv
  BY DEF Init, NegotiationInv, LegacyIsReal
<1>6. HeartbeatInv
  BY DEF Init, HeartbeatInv, NoFalseAlarm
<1>7. CandidateInv
  BY DEF Init, CandidateInv
<1> QED BY <1>4, <1>5, <1>6, <1>7 DEF IInv

-----------------------------------------------------------------------------
(* One lemma for each action.                                              *)

(* The approval sends an open.                                             *)
LEMMA AuthorizeStep == IInv /\ Authorize => IInv'
<1> SUFFICES ASSUME IInv, Authorize PROVE IInv'
  OBVIOUS
<1> USE DEF Authorize, IInv
<1>q. toPub \in Seq(ToPublisher) /\ toSub \in Seq(ToSubscriber)
      /\ <<>> \in Seq(ToPublisher) /\ <<>> \in Seq(ToSubscriber)
  BY DEF TypeOK
<1>o. Msg("open") \in ToPublisher
  BY DEF ToPublisher
<1>t. toPub' \in Seq(ToPublisher)
  BY <1>q, <1>o, AppendProperties
<1>1. TypeOK'
  BY <1>t, <1>q DEF TypeOK, CandidateInv
<1>2. NegotiationInv'
  BY DEF NegotiationInv, LegacyIsReal
<1>3. HeartbeatInv'
  BY DEF HeartbeatInv, NoFalseAlarm
<1>4. CandidateInv'
  BY DEF CandidateInv, TypeOK
<1> QED BY <1>1, <1>2, <1>3, <1>4

(* A legacy publisher alone answers an open with a close.                  *)
LEMMA ReceivesStep == IInv /\ PublisherReceives => IInv'
<1> SUFFICES ASSUME IInv, PublisherReceives PROVE IInv'
  OBVIOUS
<1> USE DEF PublisherReceives, IInv, chanVars
<1>q. toPub \in Seq(ToPublisher) /\ toSub \in Seq(ToSubscriber)
      /\ <<>> \in Seq(ToPublisher) /\ <<>> \in Seq(ToSubscriber)
  BY DEF TypeOK
<1>h. Head(toPub) \in ToPublisher /\ toPub' \in Seq(ToPublisher)
  BY <1>q, HeadTailProperties
<1>a. \/ toSub' = toSub
      \/ \E m \in ToSubscriber :
           toSub' = Append(toSub, m) /\ (m.type = "close" => mode = "legacy")
  BY <1>h DEF Msg, ToSubscriber, ToPublisher, TypeOK
<1>t. /\ toSub' \in Seq(ToSubscriber)
      /\ mode = "heartbeat" /\ ~opened =>
           \A i \in 1..Len(toSub') : toSub'[i].type # "close"
  <2>1. CASE toSub' = toSub
    BY <2>1, <1>q DEF NegotiationInv
  <2>2. ASSUME NEW m \in ToSubscriber, toSub' = Append(toSub, m),
               m.type = "close" => mode = "legacy"
        PROVE  /\ toSub' \in Seq(ToSubscriber)
               /\ mode = "heartbeat" /\ ~opened =>
                    \A i \in 1..Len(toSub') : toSub'[i].type # "close"
    BY <2>2, <1>q, AppendProperties DEF NegotiationInv
  <2> QED BY <1>a, <2>1, <2>2
<1>1. TypeOK'
  BY <1>h, <1>t DEF TypeOK, CandidateInv
<1>2. NegotiationInv'
  BY <1>t DEF NegotiationInv, LegacyIsReal
<1>3. HeartbeatInv'
  BY DEF HeartbeatInv, NoFalseAlarm
<1>4. CandidateInv'
  BY DEF CandidateInv, TypeOK
<1> QED BY <1>1, <1>2, <1>3, <1>4

(* A publisher closes a channel only after it opened.                      *)
LEMMA ClosesChannelStep == IInv /\ PublisherClosesChannel => IInv'
<1> SUFFICES ASSUME IInv, PublisherClosesChannel PROVE IInv'
  OBVIOUS
<1> USE DEF PublisherClosesChannel, IInv, chanVars
<1>q. toPub \in Seq(ToPublisher) /\ toSub \in Seq(ToSubscriber)
      /\ <<>> \in Seq(ToPublisher) /\ <<>> \in Seq(ToSubscriber)
  BY DEF TypeOK
<1>o. Msg("close") \in ToSubscriber
  BY DEF ToSubscriber
<1>t. toSub' \in Seq(ToSubscriber)
  BY <1>q, <1>o, AppendProperties
<1>1. TypeOK'
  BY <1>t, <1>q DEF TypeOK, CandidateInv
<1>2. NegotiationInv'
  BY DEF NegotiationInv, LegacyIsReal
<1>3. HeartbeatInv'
  BY DEF HeartbeatInv, NoFalseAlarm
<1>4. CandidateInv'
  BY DEF CandidateInv, TypeOK
<1> QED BY <1>1, <1>2, <1>3, <1>4

(* The publisher opened the channel, so it speaks control.                 *)
LEMMA OpenStep == IInv /\ OnOpen => IInv'
<1> SUFFICES ASSUME IInv, OnOpen PROVE IInv'
  OBVIOUS
<1> USE DEF OnOpen, IInv, Arriving, chanVars, SettleReady
<1>h. toPub \in Seq(ToPublisher) /\ toSub \in Seq(ToSubscriber) /\ toSub # <<>>
  BY DEF TypeOK
<1>t. /\ toSub' \in Seq(ToSubscriber) /\ Len(toSub') = Len(toSub) - 1
      /\ \A i \in 1..Len(toSub') : toSub'[i] = toSub[i + 1]
  BY <1>h, HeadTailProperties
<1>c. mode = "heartbeat" /\ ~opened =>
        \A i \in 1..Len(toSub') : toSub'[i].type # "close"
  BY <1>h, <1>t, LenProperties DEF NegotiationInv
<1>p. /\ toPub' \in Seq(ToPublisher) /\ sequence' \in Numbers
      /\ pending' \in Numbers \cup {None}
      /\ (pending' # None) <=> (timer' = "pong")
      /\ closed \/ timer' = "pong"
  BY <1>h, PingKeepsTypes DEF TypeOK
<1>1. TypeOK'
  BY <1>p, <1>t, <1>h DEF TypeOK, CandidateInv
<1>2. NegotiationInv'
  BY <1>c DEF NegotiationInv, LegacyIsReal
<1>3. HeartbeatInv'
  BY DEF HeartbeatInv, NoFalseAlarm
<1>4. CandidateInv'
  BY DEF CandidateInv, TypeOK
<1> QED BY <1>1, <1>2, <1>3, <1>4

(* A pong counts only as the answer to the last ping.                      *)
LEMMA PongStep == IInv /\ ReceivePong => IInv'
<1> SUFFICES ASSUME IInv, ReceivePong PROVE IInv'
  OBVIOUS
<1> USE DEF ReceivePong, IInv, Arriving, chanVars, Forgiven
<1>h. toPub \in Seq(ToPublisher) /\ toSub \in Seq(ToSubscriber) /\ toSub # <<>>
  BY DEF TypeOK
<1>t. /\ toSub' \in Seq(ToSubscriber) /\ Len(toSub') = Len(toSub) - 1
      /\ \A i \in 1..Len(toSub') : toSub'[i] = toSub[i + 1]
  BY <1>h, HeadTailProperties
<1>c. mode = "heartbeat" /\ ~opened =>
        \A i \in 1..Len(toSub') : toSub'[i].type # "close"
  BY <1>h, <1>t, LenProperties DEF NegotiationInv
<1>1. TypeOK'
  BY <1>t, <1>h, ControlAssumption DEF TypeOK, CandidateInv
<1>2. NegotiationInv'
  BY <1>c DEF NegotiationInv, LegacyIsReal
<1>3. HeartbeatInv'
  BY DEF HeartbeatInv, NoFalseAlarm
<1>4. CandidateInv'
  BY DEF CandidateInv, TypeOK
<1> QED BY <1>1, <1>2, <1>3, <1>4

(* A channel that closes unopened was closed by a legacy publisher.        *)
LEMMA CloseStep == IInv /\ OnClose => IInv'
<1> SUFFICES ASSUME IInv, OnClose PROVE IInv'
  OBVIOUS
<1> USE DEF OnClose, IInv, Arriving, Finish, LegacyInAMicrotask
<1>h. toPub \in Seq(ToPublisher) /\ toSub \in Seq(ToSubscriber) /\ toSub # <<>>
  BY DEF TypeOK
<1>t. /\ toSub' \in Seq(ToSubscriber) /\ Len(toSub') = Len(toSub) - 1
      /\ \A i \in 1..Len(toSub') : toSub'[i] = toSub[i + 1]
  BY <1>h, HeadTailProperties
<1>c. mode = "heartbeat" /\ ~opened =>
        \A i \in 1..Len(toSub') : toSub'[i].type # "close"
  BY <1>h, <1>t, LenProperties DEF NegotiationInv
<1>l. opened \/ mode = "legacy"
  BY <1>h, LenProperties, HeadTailProperties DEF NegotiationInv, TypeOK
<1>1. TypeOK'
  BY <1>t, <1>h DEF TypeOK, CandidateInv
<1>2. NegotiationInv'
  BY <1>c, <1>l DEF NegotiationInv, LegacyIsReal
<1>3. HeartbeatInv'
  BY DEF HeartbeatInv, NoFalseAlarm
<1>4. CandidateInv'
  BY DEF CandidateInv, TypeOK
<1> QED BY <1>1, <1>2, <1>3, <1>4

(* The verdict falls only while the connection is up.                      *)
LEMMA MicrotaskStep == IInv /\ Microtask => IInv'
<1> SUFFICES ASSUME IInv, Microtask PROVE IInv'
  OBVIOUS
<1> USE DEF Microtask, IInv, SettleReady, DestroyOuter
<1>q. toPub \in Seq(ToPublisher) /\ toSub \in Seq(ToSubscriber)
      /\ <<>> \in Seq(ToPublisher) /\ <<>> \in Seq(ToSubscriber)
  BY DEF TypeOK
<1>r. /\ ready' \in {"pending", "ready", "legacy", "failed"}
      /\ micro' = "none"
  BY DEF TypeOK
<1>o. /\ outer' \in {"up", "destroyed", "closed"}
      /\ why' \in {"none", "local", "establishment", "heartbeat",
                   "unexpected", "network"}
      /\ toPub' \in Seq(ToPublisher) /\ toSub' \in Seq(ToSubscriber)
  BY <1>q DEF TypeOK
<1>1. TypeOK'
  BY <1>r, <1>o DEF TypeOK
<1>2. NegotiationInv'
  BY DEF NegotiationInv, LegacyIsReal
<1>3. HeartbeatInv'
  BY DEF HeartbeatInv, NoFalseAlarm
<1>4. CandidateInv'
  BY DEF CandidateInv, TypeOK
<1> QED BY <1>1, <1>2, <1>3, <1>4

(* A negotiation that takes too long fails.                                *)
LEMMA EstablishmentStep == IInv /\ EstablishmentTimedOut => IInv'
<1> SUFFICES ASSUME IInv, EstablishmentTimedOut PROVE IInv'
  OBVIOUS
<1> USE DEF EstablishmentTimedOut, IInv, SettleReady, DestroyOuter, Finish
<1>q. toPub \in Seq(ToPublisher) /\ toSub \in Seq(ToSubscriber)
      /\ <<>> \in Seq(ToPublisher) /\ <<>> \in Seq(ToSubscriber)
  BY DEF TypeOK
<1>1. TypeOK'
  BY <1>q DEF TypeOK, CandidateInv
<1>2. NegotiationInv'
  BY DEF NegotiationInv, LegacyIsReal
<1>3. HeartbeatInv'
  BY DEF HeartbeatInv, NoFalseAlarm
<1>4. CandidateInv'
  BY DEF CandidateInv, TypeOK
<1> QED BY <1>1, <1>2, <1>3, <1>4

(* The next ping is sent.                                                  *)
LEMMA IntervalStep == IInv /\ IntervalElapses => IInv'
<1> SUFFICES ASSUME IInv, IntervalElapses PROVE IInv'
  OBVIOUS
<1> USE DEF IntervalElapses, IInv
<1>q. toPub \in Seq(ToPublisher) /\ toSub \in Seq(ToSubscriber)
      /\ <<>> \in Seq(ToPublisher) /\ <<>> \in Seq(ToSubscriber)
  BY DEF TypeOK
<1>p. /\ toPub' \in Seq(ToPublisher) /\ sequence' \in Numbers
      /\ pending' \in Numbers /\ pending' # None /\ timer' = "pong"
  BY <1>q, PingKeepsTypes DEF TypeOK
<1>1. TypeOK'
  BY <1>p, <1>q DEF TypeOK, CandidateInv
<1>2. NegotiationInv'
  BY DEF NegotiationInv, LegacyIsReal
<1>3. HeartbeatInv'
  BY DEF HeartbeatInv, NoFalseAlarm
<1>4. CandidateInv'
  BY DEF CandidateInv, TypeOK
<1> QED BY <1>1, <1>2, <1>3, <1>4

(* The last tolerated miss is one of a publisher that is silent.           *)
LEMMA MissStep == IInv /\ MissPong => IInv'
<1> SUFFICES ASSUME IInv, MissPong PROVE IInv'
  OBVIOUS
<1> USE DEF MissPong, IInv, Finish, DestroyOuter, GivesUp
<1>q. toPub \in Seq(ToPublisher) /\ toSub \in Seq(ToSubscriber)
      /\ <<>> \in Seq(ToPublisher) /\ <<>> \in Seq(ToSubscriber)
  BY DEF TypeOK
<1>n. /\ MissedPongsBeforeTimeout \in Nat \ {0}
      /\ missed \in 0..MissedPongsBeforeTimeout
      /\ tardy \in 0..MissedPongsBeforeTimeout
  BY ControlAssumption DEF TypeOK
<1>m. /\ missed' \in 0..MissedPongsBeforeTimeout
      /\ tardy' \in 0..MissedPongsBeforeTimeout
  BY <1>n
<1>p. GivesUp \/ ( /\ toPub' \in Seq(ToPublisher) /\ sequence' \in Numbers
                 /\ pending' \in Numbers /\ pending' # None
                 /\ timer' = "pong")
  BY <1>q, PingKeepsTypes
<1>g. GivesUp => cut
  BY <1>n DEF HeartbeatInv
<1>1. TypeOK'
  <2>1. CASE GivesUp
    BY <2>1, <1>m, <1>q DEF TypeOK
  <2>2. CASE ~GivesUp
    BY <2>2, <1>p, <1>m, <1>q DEF TypeOK
  <2> QED BY <2>1, <2>2
<1>2. NegotiationInv'
  BY DEF NegotiationInv, LegacyIsReal
<1>3. HeartbeatInv'
  BY <1>n, <1>g DEF HeartbeatInv, NoFalseAlarm
<1>4. CandidateInv'
  BY DEF CandidateInv, TypeOK
<1> QED BY <1>1, <1>2, <1>3, <1>4

(* close() without control rejects controlReady.                           *)
LEMMA LocalCloseStep == IInv /\ Close => IInv'
<1> SUFFICES ASSUME IInv, Close PROVE IInv'
  OBVIOUS
<1> USE DEF Close, IInv, SettleReady, DestroyOuter, Finish
<1>q. toPub \in Seq(ToPublisher) /\ toSub \in Seq(ToSubscriber)
      /\ <<>> \in Seq(ToPublisher) /\ <<>> \in Seq(ToSubscriber)
  BY DEF TypeOK
<1>1. TypeOK'
  BY <1>q DEF TypeOK, CandidateInv
<1>2. NegotiationInv'
  BY DEF NegotiationInv, LegacyIsReal
<1>3. HeartbeatInv'
  BY DEF HeartbeatInv, NoFalseAlarm
<1>4. CandidateInv'
  BY DEF CandidateInv, TypeOK
<1> QED BY <1>1, <1>2, <1>3, <1>4

(* Nothing more is delivered.                                              *)
LEMMA CutStep == IInv /\ NetworkIsCut => IInv'
<1> SUFFICES ASSUME IInv, NetworkIsCut PROVE IInv'
  OBVIOUS
<1> USE DEF NetworkIsCut, IInv, chanVars
<1>q. toPub \in Seq(ToPublisher) /\ toSub \in Seq(ToSubscriber)
      /\ <<>> \in Seq(ToPublisher) /\ <<>> \in Seq(ToSubscriber)
  BY DEF TypeOK
<1>1. TypeOK'
  BY <1>q DEF TypeOK, CandidateInv
<1>2. NegotiationInv'
  BY DEF NegotiationInv, LegacyIsReal
<1>3. HeartbeatInv'
  BY DEF HeartbeatInv, NoFalseAlarm
<1>4. CandidateInv'
  BY DEF CandidateInv, TypeOK
<1> QED BY <1>1, <1>2, <1>3, <1>4

(* The peer or the network ends the connection.                            *)
LEMMA DiesStep == IInv /\ OuterDies => IInv'
<1> SUFFICES ASSUME IInv, OuterDies PROVE IInv'
  OBVIOUS
<1> USE DEF OuterDies, IInv, chanVars, DestroyOuter
<1>q. toPub \in Seq(ToPublisher) /\ toSub \in Seq(ToSubscriber)
      /\ <<>> \in Seq(ToPublisher) /\ <<>> \in Seq(ToSubscriber)
  BY DEF TypeOK
<1>1. TypeOK'
  BY <1>q DEF TypeOK, CandidateInv
<1>2. NegotiationInv'
  BY DEF NegotiationInv, LegacyIsReal
<1>3. HeartbeatInv'
  BY DEF HeartbeatInv, NoFalseAlarm
<1>4. CandidateInv'
  BY DEF CandidateInv, TypeOK
<1> QED BY <1>1, <1>2, <1>3, <1>4

(* Its close event closes the channel on a connection that is not up.      *)
LEMMA OuterClosesStep == IInv /\ OuterCloses => IInv'
<1> SUFFICES ASSUME IInv, OuterCloses PROVE IInv'
  OBVIOUS
<1> USE DEF OuterCloses, IInv, Finish, LegacyInAMicrotask
<1>q. toPub \in Seq(ToPublisher) /\ toSub \in Seq(ToSubscriber)
      /\ <<>> \in Seq(ToPublisher) /\ <<>> \in Seq(ToSubscriber)
  BY DEF TypeOK
<1>1. TypeOK'
  <2>1. CASE ~authorized \/ closed
    BY <2>1, <1>q DEF TypeOK
  <2>2. CASE authorized /\ ~closed
    <3>1. /\ ready' \in {"pending", "ready", "legacy", "failed"}
          /\ micro' \in {"none", "legacy", "unexpected"}
      BY <2>2 DEF TypeOK
    <3> QED BY <2>2, <3>1, <1>q DEF TypeOK
  <2> QED BY <2>1, <2>2
<1>2. NegotiationInv'
  BY DEF NegotiationInv, LegacyIsReal
<1>3. HeartbeatInv'
  BY DEF HeartbeatInv, NoFalseAlarm
<1>4. CandidateInv'
  BY DEF CandidateInv, TypeOK
<1> QED BY <1>1, <1>2, <1>3, <1>4

-----------------------------------------------------------------------------
(* Every step preserves it.                                                *)
LEMMA ControlNextSafe == IInv /\ [Next]_vars => IInv'
<1> SUFFICES ASSUME IInv, [Next]_vars PROVE IInv'
  OBVIOUS
<1>1. CASE UNCHANGED vars
  BY <1>1 DEF vars, chanVars, IInv, TypeOK, NegotiationInv, HeartbeatInv,
     LegacyIsReal, NoFalseAlarm, CandidateInv
<1>2. CASE Timers
  BY <1>2, EstablishmentStep, IntervalStep, MissStep DEF Timers
<1>3. CASE Deliveries
  BY <1>3, ReceivesStep, OpenStep, PongStep, CloseStep DEF Deliveries
<1>4. CASE Closes
  BY <1>4, MicrotaskStep, OuterClosesStep DEF Closes
<1>5. CASE Authorize \/ PublisherClosesChannel \/ Close \/ NetworkIsCut
           \/ OuterDies
  BY <1>5, AuthorizeStep, ClosesChannelStep, LocalCloseStep, CutStep, DiesStep
<1> QED BY <1>1, <1>2, <1>3, <1>4, <1>5 DEF Next

(* Every reachable state of the control channel satisfies IInv.            *)
THEOREM ControlSafe == Spec => []IInv
<1>1. Init => IInv
  BY ControlInitSafe
<1>2. IInv /\ [Next]_vars => IInv'
  BY ControlNextSafe
<1> QED BY <1>1, <1>2, PTL DEF Spec

(* A publisher is taken for one without the control protocol only if it is *)
(* one: the microtask after onclose tells it from a closing connection.    *)
THEOREM ControlLegacyIsReal == Spec => []LegacyIsReal
<1>1. IInv => LegacyIsReal
  BY DEF IInv, NegotiationInv
<1> QED BY <1>1, ControlSafe, PTL

(* The heartbeat ends a connection only when the network delivers nothing. *)
THEOREM ControlNoFalseAlarm == Spec => []NoFalseAlarm
<1>1. IInv => NoFalseAlarm
  BY DEF IInv, HeartbeatInv
<1> QED BY <1>1, ControlSafe, PTL
=============================================================================
