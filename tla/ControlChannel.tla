---------------------------- MODULE ControlChannel ----------------------------
(***************************************************************************)
(* The control channel of an outer connection: its negotiation and the     *)
(* heartbeat by which a subscriber finds out that its publisher is gone.   *)
(*                                                                         *)
(* src/mux/transport.ts (createSubscriberControlChannel,                   *)
(* pairPublisherControlChannel, startControl, authorize, close).  Protomux *)
(* answers a channel nobody has paired by closing it, and closes every     *)
(* channel as if remotely when the outer stream closes.                    *)
(***************************************************************************)
EXTENDS Integers, Sequences

CONSTANTS
  MissedPongsBeforeTimeout,
  Sequences   \* bound: sequence numbers are counted modulo this

\* FIFO channels: an answer is at most MissedPongsBeforeTimeout pings old.
ASSUME ControlAssumption ==
  /\ MissedPongsBeforeTimeout \in Nat \ {0}
  /\ Sequences \in Nat /\ Sequences > MissedPongsBeforeTimeout

VARIABLES
  mode,       \* what the publisher's build speaks: "heartbeat" or "legacy"
  authorized, \* of createMuxSubscriber
  opened, closed, locallyClosing,   \* of the subscriber's control channel
  ready,      \* controlReady: "pending", "ready", "legacy", "failed"
  timer,      \* the timer armed: "none", "establishment", "pong", "interval"
  pending,    \* pendingSequence; None when undefined
  sequence, missed,
  micro,      \* the microtask onclose has queued
  outer,      \* "up", "destroyed", then "closed"
  why,        \* history: who destroyed it
  toPub, toSub, \* messages under way
  cut,        \* the network delivers nothing any more
  tardy       \* history: pings in a row answered too late

None == -1
chanVars == <<authorized, opened, closed, locallyClosing, ready, timer,
              pending, sequence, missed, micro>>
vars == <<mode, chanVars, outer, why, toPub, toSub, cut, tardy>>

Numbers == 0..(Sequences - 1)
Msg(t) == [type |-> t, seq |-> None]
ToPublisher ==
  {Msg("open"), Msg("close")} \cup [type : {"ping"}, seq : Numbers]
ToSubscriber ==
  {Msg("opened"), Msg("close")} \cup [type : {"pong"}, seq : Numbers]

TypeOK ==
  /\ mode \in {"heartbeat", "legacy"}
  /\ authorized \in BOOLEAN /\ opened \in BOOLEAN /\ closed \in BOOLEAN
  /\ locallyClosing \in BOOLEAN /\ cut \in BOOLEAN
  /\ ready \in {"pending", "ready", "legacy", "failed"}
  /\ timer \in {"none", "establishment", "pong", "interval"}
  /\ pending \in Numbers \cup {None} /\ sequence \in Numbers
  /\ missed \in 0..MissedPongsBeforeTimeout
  /\ micro \in {"none", "legacy", "unexpected"}
  /\ outer \in {"up", "destroyed", "closed"}
  /\ why \in {"none", "local", "establishment", "heartbeat", "unexpected",
              "network"}
  /\ toPub \in Seq(ToPublisher)
  /\ toSub \in Seq(ToSubscriber)
  /\ tardy \in 0..MissedPongsBeforeTimeout
  \* A timer is armed exactly while the channel may still act.
  /\ (timer # "none") <=> (authorized /\ ~closed)
  /\ (pending # None) <=> (timer = "pong")

\* An approved subscriber starts control at once, a candidate when approved.
Init ==
  /\ mode \in {"heartbeat", "legacy"} /\ authorized \in BOOLEAN
  /\ opened = FALSE /\ closed = FALSE /\ locallyClosing = FALSE
  /\ ready = "pending" /\ pending = None /\ sequence = 0 /\ missed = 0
  /\ timer = IF authorized THEN "establishment" ELSE "none"
  /\ toPub = IF authorized THEN <<Msg("open")>> ELSE <<>>
  /\ micro = "none" /\ outer = "up" /\ why = "none" /\ toSub = <<>>
  /\ cut = FALSE /\ tardy = 0

-----------------------------------------------------------------------------
SettleReady(result) == ready' = IF ready = "pending" THEN result ELSE ready

Finish == closed' = TRUE /\ pending' = None /\ timer' = "none"

DestroyOuter(reason) ==
  /\ outer' = "destroyed" /\ why' = reason /\ toPub' = <<>> /\ toSub' = <<>>

SendPing(to) ==
  /\ sequence' = (sequence + 1) % Sequences /\ pending' = sequence'
  /\ toPub' = Append(to, [type |-> "ping", seq |-> sequence'])
  /\ timer' = "pong"

\* The pairing channel brought the approval.
Authorize ==
  /\ ~authorized /\ outer = "up" /\ ~cut
  /\ authorized' = TRUE /\ timer' = "establishment"
  /\ toPub' = Append(toPub, Msg("open"))
  /\ UNCHANGED <<mode, opened, closed, locallyClosing, ready, pending,
                 sequence, missed, micro, outer, why, toSub, cut, tardy>>

\* The publisher, or Protomux for it.
PublisherReceives ==
  /\ toPub # <<>> /\ ~cut
  /\ LET msg == Head(toPub) IN
     toSub' = CASE msg.type = "open" ->
                     Append(toSub, IF mode = "legacy" THEN Msg("close")
                                   ELSE Msg("opened"))
                [] msg.type = "ping" ->
                     Append(toSub, [type |-> "pong", seq |-> msg.seq])
                [] OTHER -> toSub
  /\ toPub' = Tail(toPub)
  /\ UNCHANGED <<mode, chanVars, outer, why, cut, tardy>>

\* Another build may close the channel while it keeps the connection.
PublisherClosesChannel ==
  /\ mode = "heartbeat" /\ opened /\ ~closed /\ outer = "up"
  /\ \A i \in 1..Len(toSub) : toSub[i].type # "close"
  /\ toSub' = Append(toSub, Msg("close"))
  /\ UNCHANGED <<mode, chanVars, outer, why, toPub, cut, tardy>>

Arriving(t) ==
  /\ toSub # <<>> /\ ~cut /\ Head(toSub).type = t
  /\ toSub' = Tail(toSub) /\ UNCHANGED <<mode, outer, why, cut>>

OnOpen ==
  /\ Arriving("opened")
  /\ IF closed THEN UNCHANGED <<chanVars, toPub>>
     ELSE /\ opened' = TRUE /\ SettleReady("ready") /\ SendPing(toPub)
          /\ UNCHANGED <<authorized, closed, locallyClosing, missed, micro>>
  /\ UNCHANGED tardy

\* Only the answer to the last ping counts.
NeverForgives == missed
Forgiven == 0

ReceivePong ==
  /\ Arriving("pong")
  /\ IF closed \/ Head(toSub).seq # pending THEN UNCHANGED <<chanVars, tardy>>
     ELSE /\ pending' = None /\ missed' = Forgiven /\ timer' = "interval"
          /\ tardy' = 0
          /\ UNCHANGED <<authorized, opened, closed, locallyClosing, ready,
                         sequence, micro>>
  /\ UNCHANGED toPub

\* A channel that is closed before it opened means a publisher without the
\* protocol, or a connection that is closing: which, is known a microtask
\* later.
LegacyAtOnce ==
  [micro |-> "none",
   ready |-> IF ready = "pending" /\ ~opened THEN "legacy" ELSE ready]
LeavesItOpen == [micro |-> "none", ready |-> ready]
LegacyInAMicrotask ==
  [micro |-> IF opened THEN "unexpected" ELSE "legacy", ready |-> ready]

OnClose ==
  /\ Arriving("close")
  /\ Finish
  /\ IF locallyClosing
       THEN UNCHANGED <<micro, ready>>
       ELSE /\ micro' = LegacyInAMicrotask.micro
            /\ ready' = LegacyInAMicrotask.ready
  /\ UNCHANGED <<authorized, opened, locallyClosing, sequence, missed, toPub,
                 tardy>>

Microtask ==
  /\ micro # "none" /\ micro' = "none"
  /\ IF micro = "legacy"
       THEN /\ SettleReady(IF outer = "up" THEN "legacy" ELSE "failed")
            /\ UNCHANGED <<outer, why, toPub, toSub>>
       ELSE /\ IF outer = "up" /\ ~locallyClosing
                 THEN DestroyOuter("unexpected")
                 ELSE UNCHANGED <<outer, why, toPub, toSub>>
            /\ UNCHANGED ready
  /\ UNCHANGED <<mode, authorized, opened, closed, locallyClosing, timer,
                 pending, sequence, missed, cut, tardy>>

-----------------------------------------------------------------------------
(* The timers.  The network is not so slow that every answer is late.      *)

EstablishmentTimedOut ==
  /\ timer = "establishment"
  /\ SettleReady("failed") /\ Finish /\ DestroyOuter("establishment")
  /\ UNCHANGED <<mode, authorized, opened, locallyClosing, sequence, missed,
                 micro, cut, tardy>>

IntervalElapses ==
  /\ timer = "interval"
  /\ SendPing(toPub)
  /\ UNCHANGED <<mode, authorized, opened, closed, locallyClosing, ready,
                 missed, micro, outer, why, toSub, cut, tardy>>

OneTooMany == missed > MissedPongsBeforeTimeout
GivesUp == missed + 1 >= MissedPongsBeforeTimeout

MissPong ==
  /\ timer = "pong"
  /\ cut \/ tardy < MissedPongsBeforeTimeout - 1
  /\ tardy' = IF cut THEN tardy ELSE tardy + 1
  /\ missed' = IF missed = MissedPongsBeforeTimeout THEN missed ELSE missed + 1
  /\ IF GivesUp
       THEN /\ Finish /\ DestroyOuter("heartbeat") /\ UNCHANGED sequence
       ELSE /\ SendPing(IF cut THEN <<>> ELSE toPub)
            /\ UNCHANGED <<closed, outer, why, toSub>>
  /\ UNCHANGED <<mode, authorized, opened, locallyClosing, ready, micro, cut>>

-----------------------------------------------------------------------------
(* The connection.                                                         *)

\* RunningMuxSubscriber.close: without control, controlReady is rejected.
Close ==
  /\ outer = "up" /\ locallyClosing' = TRUE
  /\ SettleReady("failed") /\ Finish /\ DestroyOuter("local")
  /\ UNCHANGED <<mode, authorized, opened, sequence, missed, micro, cut,
                 tardy>>

NetworkIsCut ==
  /\ outer = "up" /\ ~cut
  /\ cut' = TRUE /\ toPub' = <<>> /\ toSub' = <<>>
  /\ UNCHANGED <<mode, chanVars, outer, why, tardy>>

\* The peer or the network ends the connection.
OuterDies ==
  /\ outer = "up" /\ DestroyOuter("network")
  /\ UNCHANGED <<mode, chanVars, cut, tardy>>

\* Its "error" and "close" events: Protomux closes the channel, then the
\* channel's own listeners run, then the microtask.
OuterCloses ==
  /\ outer = "destroyed" /\ outer' = "closed"
  /\ IF ~authorized \/ closed
       THEN UNCHANGED <<ready, closed, pending, timer, micro>>
       ELSE /\ Finish /\ micro' = LegacyInAMicrotask.micro
            /\ \E error \in BOOLEAN :
                 LET r == IF error THEN ready ELSE LegacyInAMicrotask.ready IN
                 ready' = IF r = "pending" THEN "failed" ELSE r
  /\ UNCHANGED <<mode, authorized, opened, locallyClosing, sequence, missed,
                 why, toPub, toSub, cut, tardy>>

-----------------------------------------------------------------------------
\* A microtask comes before every event.
Timers ==
  micro = "none" /\ (EstablishmentTimedOut \/ IntervalElapses \/ MissPong)
Deliveries ==
  micro = "none" /\ (PublisherReceives \/ OnOpen \/ ReceivePong \/ OnClose)
Closes == Microtask \/ (micro = "none" /\ OuterCloses)

Next ==
  \/ Timers \/ Deliveries \/ Closes
  \/ /\ micro = "none"
     /\ \/ Authorize \/ PublisherClosesChannel \/ Close \/ NetworkIsCut
        \/ OuterDies

Spec == Init /\ [][Next]_vars

\* Timers fire, a destroyed stream closes, and the network delivers until it
\* is cut.
FairSpec ==
  Spec /\ WF_vars(Timers) /\ WF_vars(Deliveries) /\ WF_vars(Closes)

-----------------------------------------------------------------------------
(* Properties.                                                             *)

\* A publisher is taken for one without the control protocol only if it is
\* one, never because the connection was closing when the channel closed.
LegacyIsReal == ready = "legacy" => mode = "legacy"

\* A publisher that does not answer MissedPongsBeforeTimeout pings in a row too
\* late keeps its connection, whatever stale answers arrive in between.
NoFalseAlarm == why = "heartbeat" => cut

\* A publisher that falls silent, before or after the negotiation, is noticed.
SilenceIsNoticed == authorized /\ mode = "heartbeat" /\ cut ~> outer = "closed"

\* The negotiation ends, whoever closes what meanwhile.
NegotiationEnds == authorized ~> ready # "pending"
=============================================================================
