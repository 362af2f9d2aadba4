------------------------------ MODULE MuxTunnel ------------------------------
(***************************************************************************)
(* One tunnel: a client's socket on the subscriber, a Protomux channel,    *)
(* and the socket to the local service on the publisher.                   *)
(*                                                                         *)
(* src/mux/transport.ts (MuxTunnel, open, pairPublisherServiceProtocol,    *)
(* bridge) and src/runtime/subscriber.ts (openAndBridge).  Each side's     *)
(* tunnel is a Duplex with allowHalfOpen that Node destroys when both of   *)
(* its halves have ended; the channel keeps the order of its messages.     *)
(***************************************************************************)
EXTENDS Integers, Sequences

CONSTANTS
  MaxChunks,     \* bound: chunks each side writes
  HighWater,     \* chunks a tunnel's readable buffer takes before it is full
  QueueSize,     \* chunks a tunnel's writable buffer takes
  SocketBuffer   \* chunks a socket's writable buffer takes

Sides == {"sub", "pub"}

ASSUME TunnelAssumption ==
  /\ MaxChunks \in [Sides -> Nat]
  /\ {HighWater, QueueSize, SocketBuffer} \subseteq Nat \ {0}

Other(p) == IF p = "sub" THEN "pub" ELSE "sub"

VARIABLES
  tun,     \* each side's tunnel
  sock,    \* each side's socket, with what its application wrote and was given
  wire,    \* the messages each side has sent and the other not yet received
  broken   \* history: something but the applications' own ends has failed

vars == <<tun, sock, wire, broken>>

Msg(t) == [type |-> t, chunk |-> 0]
Data(n) == [type |-> "data", chunk |-> n]
Types == {"open", "ok", "error", "data", "fin", "pause", "resume", "reset",
          "close"}

NewTunnel ==
  [ready |-> FALSE, closed |-> FALSE,
   rbuf |-> <<>>, eof |-> FALSE, ended |-> FALSE, localPaused |-> FALSE,
   queue |-> 0, sent |-> 0, remotePaused |-> FALSE, held |-> FALSE,
   drain |-> FALSE, ending |-> FALSE, finished |-> FALSE]
NewSocket(st) ==
  [state |-> st, out |-> <<>>, end |-> FALSE, made |-> 0, fin |-> FALSE,
   got |-> <<>>, over |-> "no"]

Chunks(m) == UNION {[1..n -> 1..m] : n \in 0..m}

TypeOK ==
  /\ broken \in BOOLEAN
  /\ \A p \in Sides :
       LET t == tun[p]  k == sock[p]  in == Chunks(MaxChunks[Other(p)]) IN
       /\ {t.ready, t.closed, t.eof, t.ended, t.localPaused, t.remotePaused,
           t.held, t.drain, t.ending, t.finished, k.end, k.fin}
            \subseteq BOOLEAN
       /\ t.rbuf \in in /\ t.queue \in 0..QueueSize
       /\ t.sent \in 0..MaxChunks[p] /\ k.made \in 0..MaxChunks[p]
       /\ k.state \in {"none", "connecting", "open", "dead"}
       /\ k.out \in in /\ Len(k.out) <= SocketBuffer /\ k.got \in in
       /\ k.over \in {"no", "eof", "cut"}
       /\ \A i \in 1..Len(wire[p]) : wire[p][i].type \in Types
       /\ (t.held => t.queue > 0) /\ ~(t.held /\ t.drain)

\* The listener has accepted a client and open() has sent the handshake.
Init ==
  /\ tun = [p \in Sides |-> NewTunnel]
  /\ sock = [p \in Sides |-> NewSocket(IF p = "sub" THEN "open" ELSE "none")]
  /\ wire = [p \in Sides |-> IF p = "sub" THEN <<Msg("open")>> ELSE <<>>]
  /\ broken = FALSE

-----------------------------------------------------------------------------
\* socket.destroy(): what it has not written yet is gone.
Killed(k) ==
  [k EXCEPT !.state = "dead", !.out = <<>>,
            !.over = IF @ = "no" THEN "cut" ELSE @]

\* _destroy: both buffers are gone.
Dead(t) ==
  [t EXCEPT !.closed = TRUE, !.rbuf = <<>>, !.queue = 0, !.held = FALSE,
            !.drain = FALSE]

KeepsTheChannel == <<>>
Closing == <<Msg("close")>>

\* Side p's tunnel and socket become t and k, and it sends msgs.  A tunnel
\* whose halves have both ended destroys itself; its "close" event destroys
\* the socket, but not one that is still being connected.  Nobody receives for
\* a tunnel that is closed.
Step(p, t, k, w, msgs) ==
  LET auto == t.finished /\ t.ended /\ ~t.closed
      t2 == IF auto THEN Dead(t) ELSE t
      shut(q) == IF q = p THEN t2.closed ELSE tun[q].closed
      all == msgs \o (IF auto THEN Closing ELSE <<>>)
  IN /\ tun' = [tun EXCEPT ![p] = t2]
     /\ sock' = [sock EXCEPT ![p] =
                   IF t2.closed /\ k.state = "open" THEN Killed(k) ELSE k]
     /\ wire' = [q \in Sides |-> IF shut(Other(q)) THEN <<>>
                                 ELSE IF q = p THEN w[q] \o all ELSE w[q]]

Bridged(p) == tun[p].ready /\ ~tun[p].closed /\ sock[p].state = "open"
Writing(t) == t.held \/ t.drain

\* sendData: the channel may ask to wait for its drain.
Sending(t, d) ==
  [t EXCEPT !.queue = @ - 1, !.sent = @ + 1, !.held = FALSE, !.drain = d]

\* The application writes, and the pipe has room for it.
SocketReads(p) ==
  /\ Bridged(p) /\ ~sock[p].fin /\ sock[p].made < MaxChunks[p]
  /\ tun[p].queue + (IF tun[p].drain THEN 1 ELSE 0) < QueueSize
  /\ Step(p, [tun[p] EXCEPT !.queue = @ + 1],
             [sock[p] EXCEPT !.made = @ + 1], wire, <<>>)
  /\ UNCHANGED broken

MayWrite(t) == t.queue > 0 /\ ~Writing(t)

\* _write, one at a time; a paused peer is not written to.
Write(p) ==
  LET t == tun[p] IN
  /\ MayWrite(t)
  /\ IF t.remotePaused
       THEN Step(p, [t EXCEPT !.held = TRUE], sock[p], wire, <<>>)
       ELSE \E d \in BOOLEAN :
              Step(p, Sending(t, d), sock[p], wire, <<Data(t.sent + 1)>>)
  /\ UNCHANGED broken

\* outerDrain
Drain(p) ==
  /\ tun[p].drain
  /\ Step(p, [tun[p] EXCEPT !.drain = FALSE], sock[p], wire, <<>>)
  /\ UNCHANGED broken

\* The application ends its side; the pipe ends the tunnel.
SocketEnds(p) ==
  /\ Bridged(p) /\ ~sock[p].fin
  /\ Step(p, [tun[p] EXCEPT !.ending = TRUE], [sock[p] EXCEPT !.fin = TRUE],
          wire, <<>>)
  /\ UNCHANGED broken

\* _final comes after every write.
FinalAtOnce(t) == TRUE
AllWritten(t) == t.queue = 0 /\ ~Writing(t)

MayFinish(t) == t.ending /\ ~t.finished /\ ~t.closed /\ AllWritten(t)

Final(p) ==
  LET t == tun[p] IN
  /\ MayFinish(t)
  /\ Step(p, [t EXCEPT !.finished = TRUE], sock[p], wire, <<Msg("fin")>>)
  /\ UNCHANGED broken

\* The pipe moves a chunk into the socket; room in the buffer calls _read,
\* which resumes the peer.
Resumes(t) == t.localPaused /\ ~t.eof /\ Len(t.rbuf) <= HighWater

Pipe(p) ==
  LET t == tun[p] IN
  /\ Bridged(p) /\ t.rbuf # <<>> /\ Len(sock[p].out) < SocketBuffer
  /\ Step(p, [t EXCEPT !.rbuf = Tail(@),
                       !.localPaused = @ /\ ~Resumes(t)],
             [sock[p] EXCEPT !.out = Append(@, Head(t.rbuf))],
          wire, IF Resumes(t) THEN <<Msg("resume")>> ELSE <<>>)
  /\ UNCHANGED broken

\* The tunnel's "end" event: the pipe ends the socket.
MayEnd(p) ==
  Bridged(p) /\ tun[p].eof /\ tun[p].rbuf = <<>> /\ ~tun[p].ended

PipeEnds(p) ==
  /\ MayEnd(p)
  /\ Step(p, [tun[p] EXCEPT !.ended = TRUE], [sock[p] EXCEPT !.end = TRUE],
          wire, <<>>)
  /\ UNCHANGED broken

\* The socket writes a chunk to its application.
SocketWrites(p) ==
  LET k == sock[p] IN
  /\ k.state = "open" /\ k.out # <<>>
  /\ sock' = [sock EXCEPT ![p] = [k EXCEPT !.out = Tail(@),
                                           !.got = Append(@, Head(k.out))]]
  /\ UNCHANGED <<tun, wire, broken>>

\* It has written everything and says so.
SocketFinishes(p) ==
  LET k == sock[p] IN
  /\ k.state = "open" /\ k.end /\ k.out = <<>> /\ k.over = "no"
  /\ sock' = [sock EXCEPT ![p] = [k EXCEPT !.over = "eof"]]
  /\ UNCHANGED <<tun, wire, broken>>

\* Both its halves have ended: its "close" event destroys the tunnel.
SocketCloses(p) ==
  LET k == sock[p] IN
  /\ Bridged(p) /\ k.over = "eof" /\ k.fin
  /\ Step(p, Dead(tun[p]), k, wire, Closing)
  /\ UNCHANGED broken

\* The application resets or closes its socket, or the acquisition times out.
\* A client that leaves before its tunnel is open lets open() go on.
SocketDies(p) ==
  LET gone == IF p = "sub" /\ ~tun[p].ready THEN tun[p] ELSE Dead(tun[p]) IN
  /\ sock[p].state = "open" /\ ~tun[p].closed
  /\ \E failed \in BOOLEAN :
       Step(p, gone, Killed(sock[p]), wire,
            (IF failed /\ gone.closed THEN <<Msg("reset")>> ELSE <<>>) \o
            (IF gone.closed THEN Closing ELSE <<>>))
  /\ broken' = TRUE

-----------------------------------------------------------------------------
(* options.connect, and the messages.                                      *)

\* A target that connects too late is bridged to a closed tunnel.
TargetConnects ==
  LET t == tun["pub"]  k == [sock["pub"] EXCEPT !.state = "open"] IN
  /\ sock["pub"].state = "connecting"
  /\ IF t.closed
       THEN sock' = [sock EXCEPT !["pub"] = k] /\ UNCHANGED <<tun, wire>>
       ELSE Step("pub", [t EXCEPT !.ready = TRUE], k, wire, <<Msg("ok")>>)
  /\ UNCHANGED broken

\* The channel is closed in a microtask.
TargetRefuses ==
  LET t == tun["pub"]  k == [sock["pub"] EXCEPT !.state = "dead"] IN
  /\ sock["pub"].state = "connecting"
  /\ IF t.closed
       THEN sock' = [sock EXCEPT !["pub"] = k] /\ UNCHANGED <<tun, wire>>
       ELSE Step("pub", Dead(t), k, wire, <<Msg("error")>> \o Closing)
  /\ broken' = TRUE

\* receive: push a chunk, and pause the peer when the buffer is full.
Pushed(t, n) ==
  LET b == Append(t.rbuf, n) IN
  [t EXCEPT !.rbuf = b, !.localPaused = @ \/ Len(b) >= HighWater]

\* receiveResume: the write that was held goes on.
KeepsHolding(t) == {[t EXCEPT !.remotePaused = FALSE]}
AfterResume(t) ==
  IF t.held THEN {[Sending(t, d) EXCEPT !.remotePaused = FALSE]
                    : d \in BOOLEAN}
            ELSE {[t EXCEPT !.remotePaused = FALSE]}

\* Pushing a chunk may pause the peer, resuming may send the chunk held.
Receive(p) ==
  LET q == Other(p)  t == tun[p]  k == sock[p]
      msg == Head(wire[q])
      w == [wire EXCEPT ![q] = Tail(@)]
      ends == Dead(t)
  IN
  /\ wire[q] # <<>>
  /\ \/ /\ msg.type = "open"
        /\ Step(p, t, [k EXCEPT !.state = "connecting"], w, <<>>)
     \/ /\ msg.type = "ok"
        /\ IF k.state = "dead" THEN Step(p, ends, k, w, Closing)
           ELSE Step(p, [t EXCEPT !.ready = TRUE], k, w, <<>>)
     \/ /\ msg.type = "error"
        /\ Step(p, ends, k, w, Closing)
     \/ /\ msg.type = "data"
        /\ LET t2 == Pushed(t, msg.chunk) IN
           Step(p, t2, k, w, IF t2.localPaused /\ ~t.localPaused
                             THEN <<Msg("pause")>> ELSE <<>>)
     \/ /\ msg.type = "fin"
        /\ Step(p, [t EXCEPT !.eof = TRUE], k, w, <<>>)
     \/ /\ msg.type = "pause"
        /\ Step(p, [t EXCEPT !.remotePaused = TRUE], k, w, <<>>)
     \/ /\ msg.type = "resume"
        /\ \E t2 \in AfterResume(t) :
             Step(p, t2, k, w, IF t2.sent > t.sent THEN <<Data(t2.sent)>>
                               ELSE <<>>)
     \/ /\ msg.type = "reset"
        /\ Step(p, ends, k, w, Closing)
     \/ /\ msg.type = "close"
        /\ Step(p, ends, k, w, <<>>)
  /\ UNCHANGED broken

\* The outer stream is lost: remoteClose on both sides.
OuterDies ==
  /\ \E p \in Sides : ~tun[p].closed
  /\ tun' = [p \in Sides |-> Dead(tun[p])]
  /\ sock' = [p \in Sides |-> IF sock[p].state = "open" /\ ~tun[p].closed
                              THEN Killed(sock[p]) ELSE sock[p]]
  /\ wire' = [p \in Sides |-> <<>>] /\ broken' = TRUE

-----------------------------------------------------------------------------
\* What Node does by itself before it takes another event.
Ticks(p) == Write(p) \/ Final(p) \/ PipeEnds(p)
Ticking ==
  \E p \in Sides : MayWrite(tun[p]) \/ MayFinish(tun[p]) \/ MayEnd(p)

Events(p) ==
  /\ ~Ticking
  /\ \/ Drain(p) \/ Pipe(p) \/ SocketWrites(p) \/ SocketFinishes(p)
     \/ SocketCloses(p) \/ Receive(p)
Works(p) == Ticks(p) \/ Events(p)
Applications(p) ==
  ~Ticking /\ (SocketReads(p) \/ SocketEnds(p) \/ SocketDies(p))
Connects == ~Ticking /\ (TargetConnects \/ TargetRefuses)

Next ==
  \/ \E p \in Sides : Works(p) \/ Applications(p)
  \/ Connects \/ (~Ticking /\ OuterDies)

Spec == Init /\ [][Next]_vars

\* The mux drains and delivers, the applications read, and a connection to a
\* local port is made or refused.
FairSpec ==
  Spec /\ (\A p \in Sides : WF_vars(Works(p))) /\ WF_vars(Connects)

-----------------------------------------------------------------------------
(* Properties.                                                             *)

Up == INSTANCE ByteStream WITH
  sent <- sock["sub"].made, fin <- sock["sub"].fin,
  got <- sock["pub"].got, over <- sock["pub"].over

Down == INSTANCE ByteStream WITH
  sent <- sock["pub"].made, fin <- sock["pub"].fin,
  got <- sock["sub"].got, over <- sock["sub"].over

\* Side p's application loses the end of the stream only to a failure, or
\* when the other has ended too: both tunnels are then destroyed at once.
CutOnlyAtTheEnd(p) ==
  sock'[p].over = "cut" =>
    sock[p].over = "cut" \/ broken' \/ \A q \in Sides : sock[q].fin

\* What one side writes reaches the other as a byte stream, pauses, held writes
\* and half-closes included, in both directions: in order, whole, its end seen
\* only after all of it, and cut only by a failure or when both have ended.
CarriesTwoByteStreams ==
  /\ Up!Spec /\ Down!Spec
  /\ [][\A p \in Sides : CutOnlyAtTheEnd(p)]_vars

\* No lost resume, drain or end of stream stops it: what was written is
\* delivered, and then its end, unless the stream is cut.
GetsThroughBothWays == Up!FairSpec /\ Down!FairSpec

\* When one side's tunnel is closed the other's closes too, whatever crossed
\* on the wire.
ClosesBothEnds == \A p \in Sides : tun[p].closed ~> tun[Other(p)].closed

=============================================================================
