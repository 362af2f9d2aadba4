--------------------------- MODULE MuxTunnelProofs ---------------------------
(***************************************************************************)
(* The safety half of the refinement of ByteStream by MuxTunnel, for any   *)
(* number of chunks and any size of the buffers: each direction of a       *)
(* tunnel carries a byte stream and is cut only by a failure or when both  *)
(* applications have ended.                                                *)
(*                                                                         *)
(* The invariant follows the chunks on their way from one application to   *)
(* the other.  What the receiver was given, what its socket holds, what    *)
(* its tunnel's buffer holds and what is on the wire are the numbers 1 to  *)
(* sent, cut into four; what is sent and what waits in the sender's queue  *)
(* are what the sender's application wrote.  The end of the stream follows *)
(* the same way: ending, finished, the message "fin", eof, ended, end.     *)
(***************************************************************************)
EXTENDS MuxTunnel, SequenceTheorems, TLAPS

Message == [type : Types, chunk : Nat]
Tunnel ==
  [ready : BOOLEAN, closed : BOOLEAN, rbuf : Seq(Nat), eof : BOOLEAN,
   ended : BOOLEAN, localPaused : BOOLEAN, queue : Nat, sent : Nat,
   remotePaused : BOOLEAN, held : BOOLEAN, drain : BOOLEAN,
   ending : BOOLEAN, finished : BOOLEAN]
Socket ==
  [state : {"none", "connecting", "open", "dead"}, out : Seq(Nat),
   end : BOOLEAN, made : Nat, fin : BOOLEAN, got : Seq(Nat),
   over : {"no", "eof", "cut"}]

Shapes ==
  /\ tun \in [Sides -> Tunnel]
  /\ sock \in [Sides -> Socket]
  /\ wire \in [Sides -> Seq(Message)]
  /\ broken \in BOOLEAN

\* The sending half of a side: nothing is lost between the application and
\* the wire, and the tunnel finishes only when nothing is left to send.
Sender(p, t, k) ==
  /\ t.sent <= k.made /\ k.made <= MaxChunks[p] /\ t.queue <= QueueSize
  /\ (~t.closed => t.sent + t.queue = k.made)
  /\ (t.closed => t.queue = 0 /\ ~t.held /\ ~t.drain)
  /\ (t.held => t.queue > 0) /\ ~(t.held /\ t.drain)
  /\ (t.ending => k.fin)
  /\ (t.finished => t.ending /\ t.queue = 0 /\ t.sent = k.made)

\* The receiving half: the socket is ended after the tunnel, and a tunnel
\* that is closed has nothing left to give.
Receiver(t, k) ==
  /\ Len(k.out) <= SocketBuffer
  /\ (t.ended => t.eof /\ t.rbuf = <<>>)
  /\ (k.end => t.ended)
  /\ (t.closed => t.rbuf = <<>> /\ k.out = <<>>)
  /\ (~t.ready => k.out = <<>> /\ ~k.end)
  /\ (k.state # "open" => k.out = <<>>)
  /\ (k.state \in {"none", "connecting"} => ~t.ready /\ k.over = "no")
  /\ (k.over = "cut" => k.state = "dead")
  /\ (k.over = "eof" => k.out = <<>> /\ k.end)
  /\ (k.end /\ k.over = "no" => k.state = "open" /\ ~t.closed)

\* The chunks the receiver has, in its application, its socket, its buffer.
Held(t, k) == Len(k.got) + Len(k.out) + Len(t.rbuf)

InOrder(got, out, buf) ==
  /\ \A i \in 1..Len(got) : got[i] = i
  /\ \A i \in 1..Len(out) : out[i] = Len(got) + i
  /\ \A i \in 1..Len(buf) : buf[i] = Len(got) + Len(out) + i

\* The chunks on the wire are those from one number to another, in order.
Carries(w, from, to) ==
  /\ from <= to
  /\ \A i \in 1..Len(w) :
       w[i].type = "data" => w[i].chunk \in (from + 1)..to
  /\ \A n \in (from + 1)..to :
       \E i \in 1..Len(w) : w[i].type = "data" /\ w[i].chunk = n
  /\ \A i, j \in 1..Len(w) :
       i < j /\ w[i].type = "data" /\ w[j].type = "data" =>
         w[i].chunk < w[j].chunk

\* The end of the stream is behind every chunk of it.
EndLast(w, finished) ==
  \A i \in 1..Len(w) : w[i].type = "fin" =>
    /\ finished
    /\ \A j \in 1..Len(w) : j > i => w[j].type # "data"

\* One direction: s is the sender's tunnel, w its wire, t and k the
\* receiver's tunnel and socket.
Link(s, w, t, k) ==
  /\ InOrder(k.got, k.out, t.rbuf)
  /\ ~t.closed =>
       /\ Carries(w, Held(t, k), s.sent)
       /\ EndLast(w, s.finished)
       /\ (t.eof => s.finished /\ Held(t, k) = s.sent)

\* Nobody receives for a closed tunnel, and a tunnel whose halves have both
\* ended is closed.
Closed ==
  \A p \in Sides :
    /\ (tun[p].closed => wire[Other(p)] = <<>>)
    /\ (tun[p].finished /\ tun[p].ended => tun[p].closed)

\* The handshake comes first and is made once.
Handshake ==
  /\ sock["sub"].state \in {"open", "dead"}
  /\ \A i \in 1..Len(wire["pub"]) : wire["pub"][i].type # "open"
  /\ \A i \in 1..Len(wire["sub"]) :
       /\ wire["sub"][i].type # "ok"
       /\ wire["sub"][i].type = "open" => i = 1 /\ sock["pub"].state = "none"

\* What ends a tunnel from outside comes from a tunnel that is closed, and a
\* tunnel closes, or a socket dies, for a reason.
Ended == broken \/ \A p \in Sides : sock[p].fin

HasReason ==
  \A p \in Sides :
    /\ (tun[p].closed \/ sock[p].state = "dead" => Ended)
    /\ \A i \in 1..Len(wire[p]) :
         wire[p][i].type \in {"error", "reset", "close"} => tun[p].closed

IInv ==
  /\ Shapes
  /\ \A p \in Sides : Sender(p, tun[p], sock[p])
  /\ \A p \in Sides : Receiver(tun[p], sock[p])
  /\ \A p \in Sides :
       Link(tun[p], wire[p], tun[Other(p)], sock[Other(p)])
  /\ Closed
  /\ Handshake
  /\ HasReason

-----------------------------------------------------------------------------
(* The wire.                                                               *)

\* Messages that carry neither a chunk nor the end of the stream.
Plain(m) == \A i \in 1..Len(m) : m[i].type \notin {"data", "fin"}

(* A message is a message.                                                 *)
LEMMA MessageTypes ==
  /\ \A ty \in Types : Msg(ty) \in Message /\ Msg(ty).type = ty
  /\ \A n \in Nat : /\ Data(n) \in Message
                    /\ Data(n).type = "data" /\ Data(n).chunk = n
BY DEF Msg, Data, Message, Types

(* A sequence of one message.                                              *)
LEMMA OneMessage ==
  ASSUME NEW m \in Message
  PROVE  /\ <<m>> \in Seq(Message) /\ Len(<<m>>) = 1 /\ <<m>>[1] = m
         /\ (m.type \notin {"data", "fin"} => Plain(<<m>>))
BY DEF Plain

(* What is appended to a wire comes after what it holds.                   *)
LEMMA WireAppend ==
  ASSUME NEW w \in Seq(Message), NEW m \in Seq(Message)
  PROVE  /\ w \o m \in Seq(Message) /\ Len(w \o m) = Len(w) + Len(m)
         /\ Len(w) \in Nat /\ Len(m) \in Nat
         /\ \A i \in 1..Len(w) : (w \o m)[i] = w[i]
         /\ \A i \in 1..Len(w \o m) :
              \/ i \in 1..Len(w) /\ (w \o m)[i] = w[i]
              \/ i - Len(w) \in 1..Len(m) /\ (w \o m)[i] = m[i - Len(w)]
<1>1. Len(w) \in Nat /\ Len(m) \in Nat
  BY LenProperties
<1> QED BY <1>1, ConcatProperties

(* Messages are appended together or one after the other.                  *)
LEMMA WireThree ==
  ASSUME NEW a \in Seq(Message), NEW b \in Seq(Message),
         NEW c \in Seq(Message)
  PROVE  (a \o b) \o c = a \o (b \o c)
BY ConcatAssociative

(* Messages that are neither chunks nor the end leave the stream alone.    *)
LEMMA AppendPlain ==
  ASSUME NEW w \in Seq(Message), NEW m \in Seq(Message), Plain(m),
         NEW a \in Nat, NEW b \in Nat, NEW f \in BOOLEAN
  PROVE  /\ (Carries(w, a, b) => Carries(w \o m, a, b))
         /\ (EndLast(w, f) => EndLast(w \o m, f))
<1> DEFINE v == w \o m
<1>1. /\ Len(w) \in Nat /\ Len(v) \in Nat /\ Len(w) <= Len(v)
      /\ \A i \in 1..Len(w) : v[i] = w[i]
      /\ \A i \in 1..Len(v) :
           v[i].type \in {"data", "fin"} =>
             i \in 1..Len(w) /\ v[i] = w[i]
  BY WireAppend DEF Plain
<1> HIDE DEF v
<1>2. ASSUME Carries(w, a, b)
      PROVE  Carries(v, a, b)
  <2>1. \A n \in (a + 1)..b :
          \E i \in 1..Len(v) : v[i].type = "data" /\ v[i].chunk = n
    BY <1>1, <1>2 DEF Carries
  <2>2. \A i \in 1..Len(v) :
          v[i].type = "data" => v[i].chunk \in (a + 1)..b
    BY <1>1, <1>2 DEF Carries
  <2>3. \A i, j \in 1..Len(v) :
          i < j /\ v[i].type = "data" /\ v[j].type = "data" =>
            v[i].chunk < v[j].chunk
    <3> SUFFICES ASSUME NEW i \in 1..Len(v), NEW j \in 1..Len(v), i < j,
                        v[i].type = "data", v[j].type = "data"
                 PROVE  v[i].chunk < v[j].chunk
      OBVIOUS
    <3>1. /\ i \in 1..Len(w) /\ v[i] = w[i]
          /\ j \in 1..Len(w) /\ v[j] = w[j]
      BY <1>1
    <3> QED BY <3>1, <1>2 DEF Carries
  <2> QED BY <2>1, <2>2, <2>3, <1>2 DEF Carries
<1>3. ASSUME EndLast(w, f)
      PROVE  EndLast(v, f)
  BY <1>1, <1>3 DEF EndLast
<1> QED BY <1>2, <1>3 DEF v

(* A chunk that is sent is the last of the wire.                           *)
LEMMA AppendData ==
  ASSUME NEW w \in Seq(Message), NEW a \in Nat, NEW b \in Nat,
         Carries(w, a, b), EndLast(w, FALSE)
  PROVE  /\ Carries(w \o <<Data(b + 1)>>, a, b + 1)
         /\ EndLast(w \o <<Data(b + 1)>>, FALSE)
<1> DEFINE v == w \o <<Data(b + 1)>>
<1>1. /\ Len(w) \in Nat /\ Len(v) = Len(w) + 1
      /\ \A i \in 1..Len(w) : v[i] = w[i]
      /\ v[Len(w) + 1].type = "data" /\ v[Len(w) + 1].chunk = b + 1
  <2>1. Data(b + 1) \in Message /\ Data(b + 1).type = "data"
        /\ Data(b + 1).chunk = b + 1
    BY MessageTypes
  <2>2. /\ <<Data(b + 1)>> \in Seq(Message) /\ Len(<<Data(b + 1)>>) = 1
        /\ <<Data(b + 1)>>[1] = Data(b + 1)
    BY <2>1, OneMessage
  <2>3. Len(v) = Len(w) + 1 /\ Len(w) \in Nat
        /\ \A i \in 1..Len(w) : v[i] = w[i]
    BY <2>2, WireAppend
  <2>4. v[Len(w) + 1] = Data(b + 1)
    BY <2>2, <2>3, WireAppend
  <2> QED BY <2>1, <2>3, <2>4
<1> HIDE DEF v
<1>2. Carries(v, a, b + 1)
  <2>1. a <= b + 1
    BY DEF Carries
  <2>2. \A i \in 1..Len(v) : v[i].type = "data" =>
          v[i].chunk \in (a + 1)..(b + 1)
    BY <1>1 DEF Carries
  <2>3. ASSUME NEW n \in (a + 1)..(b + 1)
        PROVE  \E i \in 1..Len(v) : v[i].type = "data" /\ v[i].chunk = n
    <3>1. CASE n = b + 1
      BY <3>1, <1>1
    <3>2. CASE n # b + 1
      <4>1. n \in (a + 1)..b
        BY <3>2
      <4> QED BY <4>1, <1>1 DEF Carries
    <3> QED BY <3>1, <3>2
  <2>4. \A i, j \in 1..Len(v) :
          i < j /\ v[i].type = "data" /\ v[j].type = "data" =>
            v[i].chunk < v[j].chunk
    <3> SUFFICES ASSUME NEW i \in 1..Len(v), NEW j \in 1..Len(v), i < j,
                        v[i].type = "data", v[j].type = "data"
                 PROVE  v[i].chunk < v[j].chunk
      OBVIOUS
    <3>1. i \in 1..Len(w) /\ v[i] = w[i] /\ w[i].chunk \in (a + 1)..b
      BY <1>1 DEF Carries
    <3>2. CASE j = Len(w) + 1
      BY <3>1, <3>2, <1>1
    <3>3. CASE j # Len(w) + 1
      <4>1. j \in 1..Len(w) /\ v[j] = w[j]
        BY <3>3, <1>1
      <4> QED BY <3>1, <4>1 DEF Carries
    <3> QED BY <3>2, <3>3
  <2> QED BY <2>1, <2>2, <2>3, <2>4 DEF Carries
<1>3. EndLast(v, FALSE)
  BY <1>1 DEF EndLast
<1> QED BY <1>2, <1>3 DEF v

(* The end is sent behind what is on the wire.                             *)
LEMMA AppendFin ==
  ASSUME NEW w \in Seq(Message), NEW a \in Nat, NEW b \in Nat,
         NEW f \in BOOLEAN, Carries(w, a, b), EndLast(w, f)
  PROVE  /\ Carries(w \o <<Msg("fin")>>, a, b)
         /\ EndLast(w \o <<Msg("fin")>>, TRUE)
<1> DEFINE v == w \o <<Msg("fin")>>
<1>1. /\ Len(w) \in Nat /\ Len(v) = Len(w) + 1
      /\ \A i \in 1..Len(w) : v[i] = w[i]
      /\ v[Len(w) + 1].type = "fin"
  <2>1. Msg("fin") \in Message /\ Msg("fin").type = "fin"
    BY MessageTypes DEF Types
  <2>2. /\ <<Msg("fin")>> \in Seq(Message) /\ Len(<<Msg("fin")>>) = 1
        /\ <<Msg("fin")>>[1] = Msg("fin")
    BY <2>1, OneMessage
  <2>3. Len(v) = Len(w) + 1 /\ Len(w) \in Nat
        /\ \A i \in 1..Len(w) : v[i] = w[i]
    BY <2>2, WireAppend
  <2>4. v[Len(w) + 1] = Msg("fin")
    BY <2>2, <2>3, WireAppend
  <2> QED BY <2>1, <2>3, <2>4
<1> HIDE DEF v
<1>2. Carries(v, a, b)
  <2>1. \A i \in 1..Len(v) :
          v[i].type = "data" => i \in 1..Len(w) /\ v[i] = w[i]
    BY <1>1
  <2>2. ASSUME NEW n \in (a + 1)..b
        PROVE  \E i \in 1..Len(v) : v[i].type = "data" /\ v[i].chunk = n
    <3>1. PICK i \in 1..Len(w) : w[i].type = "data" /\ w[i].chunk = n
      BY DEF Carries
    <3>2. i \in 1..Len(v) /\ v[i] = w[i]
      BY <1>1
    <3> QED BY <3>1, <3>2
  <2> QED BY <2>1, <2>2 DEF Carries
<1>3. EndLast(v, TRUE)
  BY <1>1 DEF EndLast
<1> QED BY <1>2, <1>3 DEF v

(* What is left of a wire when its first message is taken.                 *)
LEMMA WireTail ==
  ASSUME NEW w \in Seq(Message), w # <<>>
  PROVE  /\ Tail(w) \in Seq(Message) /\ Len(w) \in Nat \ {0}
         /\ Len(Tail(w)) = Len(w) - 1 /\ Head(w) = w[1] /\ w[1] \in Message
         /\ \A i \in 1..Len(Tail(w)) : Tail(w)[i] = w[i + 1]
<1>1. Len(w) \in Nat \ {0}
  BY EmptySeq
<1>2. w[1] \in Message
  BY <1>1, ElementOfSeq
<1> QED BY <1>1, <1>2, HeadTailProperties

(* Taking a message that is no chunk leaves the chunks as they are, and    *)
(* the end stays behind them.                                              *)
LEMMA TakePlain ==
  ASSUME NEW w \in Seq(Message), w # <<>>,
         NEW a \in Nat, NEW b \in Nat, NEW f \in BOOLEAN
  PROVE  /\ (Carries(w, a, b) /\ w[1].type # "data" =>
               Carries(Tail(w), a, b))
         /\ (EndLast(w, f) => EndLast(Tail(w), f))
<1> DEFINE v == Tail(w)
<1>1. /\ Len(v) = Len(w) - 1 /\ Len(w) \in Nat \ {0}
      /\ \A i \in 1..Len(v) : v[i] = w[i + 1] /\ i + 1 \in 1..Len(w)
  BY WireTail
<1> HIDE DEF v
<1>2. ASSUME Carries(w, a, b), w[1].type # "data"
      PROVE  Carries(v, a, b)
  <2>1. ASSUME NEW n \in (a + 1)..b
        PROVE  \E i \in 1..Len(v) : v[i].type = "data" /\ v[i].chunk = n
    <3>1. PICK i \in 1..Len(w) : w[i].type = "data" /\ w[i].chunk = n
      BY <1>2 DEF Carries
    <3>2. i # 1
      BY <3>1, <1>2
    <3>3. i - 1 \in 1..Len(v) /\ v[i - 1] = w[i]
      BY <3>2, <1>1
    <3> QED BY <3>1, <3>3
  <2>2. \A i \in 1..Len(v) : v[i].type = "data" => v[i].chunk \in (a + 1)..b
    BY <1>1, <1>2 DEF Carries
  <2>3. \A i, j \in 1..Len(v) :
          i < j /\ v[i].type = "data" /\ v[j].type = "data" =>
            v[i].chunk < v[j].chunk
    <3> SUFFICES ASSUME NEW i \in 1..Len(v), NEW j \in 1..Len(v), i < j,
                        v[i].type = "data", v[j].type = "data"
                 PROVE  v[i].chunk < v[j].chunk
      OBVIOUS
    <3>1. /\ v[i] = w[i + 1] /\ i + 1 \in 1..Len(w)
          /\ v[j] = w[j + 1] /\ j + 1 \in 1..Len(w) /\ i + 1 < j + 1
      BY <1>1
    <3> QED BY <3>1, <1>2 DEF Carries
  <2> QED BY <2>1, <2>2, <2>3, <1>2 DEF Carries
<1>3. ASSUME EndLast(w, f)
      PROVE  EndLast(v, f)
  <2> SUFFICES ASSUME NEW i \in 1..Len(v), v[i].type = "fin"
               PROVE  /\ f
                      /\ \A j \in 1..Len(v) : j > i => v[j].type # "data"
    BY DEF EndLast
  <2>1. /\ f
        /\ \A j \in 1..Len(w) : j > i + 1 => w[j].type # "data"
    BY <1>1, <1>3 DEF EndLast
  <2>2. \A j \in 1..Len(v) :
          j > i => v[j] = w[j + 1] /\ j + 1 \in 1..Len(w) /\ j + 1 > i + 1
    BY <1>1
  <2> QED BY <2>1, <2>2
<1> QED BY <1>2, <1>3 DEF v

(* The first chunk on the wire is the one that is due.                     *)
LEMMA TakeData ==
  ASSUME NEW w \in Seq(Message), w # <<>>, NEW a \in Nat, NEW b \in Nat,
         Carries(w, a, b), w[1].type = "data"
  PROVE  w[1].chunk = a + 1 /\ a + 1 <= b /\ Carries(Tail(w), a + 1, b)
<1> DEFINE v == Tail(w)
<1>1. /\ Len(v) = Len(w) - 1 /\ Len(w) \in Nat \ {0}
      /\ \A i \in 1..Len(v) : v[i] = w[i + 1] /\ i + 1 \in 1..Len(w)
  BY WireTail
<1> HIDE DEF v
<1>2. w[1].chunk \in (a + 1)..b
  BY <1>1 DEF Carries
<1>3. w[1].chunk = a + 1
  <2>1. PICK i \in 1..Len(w) : w[i].type = "data" /\ w[i].chunk = a + 1
    BY <1>2 DEF Carries
  <2>2. i > 1 => w[1].chunk < a + 1
    BY <2>1, <1>1 DEF Carries
  <2> QED BY <2>1, <2>2, <1>2
<1>4. Carries(v, a + 1, b)
  <2>1. ASSUME NEW n \in ((a + 1) + 1)..b
        PROVE  \E i \in 1..Len(v) : v[i].type = "data" /\ v[i].chunk = n
    <3>1. PICK i \in 1..Len(w) : w[i].type = "data" /\ w[i].chunk = n
      BY DEF Carries
    <3>2. i # 1
      BY <3>1, <1>3
    <3>3. i - 1 \in 1..Len(v) /\ v[i - 1] = w[i]
      BY <3>2, <1>1
    <3> QED BY <3>1, <3>3
  <2>2. ASSUME NEW i \in 1..Len(v), v[i].type = "data"
        PROVE  v[i].chunk \in ((a + 1) + 1)..b
    <3>1. v[i] = w[i + 1] /\ i + 1 \in 1..Len(w) /\ 1 < i + 1
      BY <1>1
    <3>2. w[i + 1].chunk \in (a + 1)..b /\ a + 1 < w[i + 1].chunk
      BY <3>1, <2>2, <1>1, <1>3 DEF Carries
    <3> QED BY <3>1, <3>2
  <2>3. \A i, j \in 1..Len(v) :
          i < j /\ v[i].type = "data" /\ v[j].type = "data" =>
            v[i].chunk < v[j].chunk
    <3> SUFFICES ASSUME NEW i \in 1..Len(v), NEW j \in 1..Len(v), i < j,
                        v[i].type = "data", v[j].type = "data"
                 PROVE  v[i].chunk < v[j].chunk
      OBVIOUS
    <3>1. /\ v[i] = w[i + 1] /\ i + 1 \in 1..Len(w)
          /\ v[j] = w[j + 1] /\ j + 1 \in 1..Len(w) /\ i + 1 < j + 1
      BY <1>1
    <3> QED BY <3>1 DEF Carries
  <2>4. a + 1 <= b
    BY <1>2
  <2> QED BY <2>1, <2>2, <2>3, <2>4 DEF Carries
<1> QED BY <1>2, <1>3, <1>4 DEF v

(* When the end is the first message, every chunk has been received.       *)
LEMMA TakeFin ==
  ASSUME NEW w \in Seq(Message), w # <<>>, NEW a \in Nat, NEW b \in Nat,
         NEW f \in BOOLEAN, Carries(w, a, b), EndLast(w, f),
         w[1].type = "fin"
  PROVE  f /\ a = b
<1>1. Len(w) \in Nat \ {0}
  BY WireTail
<1>2. f /\ \A j \in 1..Len(w) : w[j].type # "data"
  BY <1>1 DEF EndLast
<1>3. ~(a + 1 <= b)
  <2> SUFFICES ASSUME a + 1 <= b PROVE FALSE
    OBVIOUS
  <2>1. a + 1 \in (a + 1)..b
    OBVIOUS
  <2> QED BY <2>1, <1>2 DEF Carries
<1> QED BY <1>2, <1>3 DEF Carries

-----------------------------------------------------------------------------
(* The chunks a side holds.                                                *)

(* A chunk that is pushed behind the others keeps them in order.           *)
LEMMA PushInOrder ==
  ASSUME NEW got \in Seq(Nat), NEW out \in Seq(Nat), NEW buf \in Seq(Nat),
         InOrder(got, out, buf)
  PROVE  LET n == Len(got) + Len(out) + Len(buf) + 1
             b == Append(buf, n)
         IN InOrder(got, out, b) /\ b \in Seq(Nat) /\ Len(b) = Len(buf) + 1
<1> DEFINE n == Len(got) + Len(out) + Len(buf) + 1
           b == Append(buf, n)
<1>1. /\ Len(got) \in Nat /\ Len(out) \in Nat /\ Len(buf) \in Nat
      /\ n \in Nat
  BY LenProperties
<1>2. /\ b \in Seq(Nat) /\ Len(b) = Len(buf) + 1 /\ b[Len(buf) + 1] = n
      /\ \A i \in 1..Len(buf) : b[i] = buf[i]
  BY <1>1, AppendProperties
<1> HIDE DEF b
<1>3. \A i \in 1..Len(b) : b[i] = Len(got) + Len(out) + i
  <2> SUFFICES ASSUME NEW i \in 1..Len(buf) + 1
               PROVE  b[i] = Len(got) + Len(out) + i
    BY <1>2, <1>1
  <2>1. CASE i = Len(buf) + 1
    BY <2>1, <1>2, <1>1 DEF InOrder
  <2>2. CASE i # Len(buf) + 1
    <3>1. i \in 1..Len(buf)
      BY <2>2, <1>2, <1>1
    <3> QED BY <3>1, <1>2, <1>1 DEF InOrder
  <2> QED BY <2>1, <2>2
<1> QED BY <1>2, <1>3 DEF InOrder, b

(* So does the first chunk of a buffer that moves to the end of the one    *)
(* before it.                                                              *)
LEMMA MoveInOrder ==
  ASSUME NEW got \in Seq(Nat), NEW out \in Seq(Nat), NEW buf \in Seq(Nat),
         InOrder(got, out, buf), buf # <<>>
  PROVE  LET out2 == Append(out, Head(buf))  buf2 == Tail(buf) IN
         /\ out2 \in Seq(Nat) /\ buf2 \in Seq(Nat)
         /\ InOrder(got, out2, buf2)
         /\ Len(out2) = Len(out) + 1 /\ Len(buf2) = Len(buf) - 1
<1> DEFINE o == Append(out, Head(buf))
           b == Tail(buf)
<1>1. /\ Len(got) \in Nat /\ Len(out) \in Nat /\ Len(buf) \in Nat \ {0}
      /\ Head(buf) \in Nat
  BY LenProperties, EmptySeq, HeadTailProperties
<1>2. Head(buf) = Len(got) + Len(out) + 1
  <2>1. Head(buf) = buf[1]
    BY <1>1
  <2> QED BY <2>1, <1>1 DEF InOrder
<1>3. /\ o \in Seq(Nat) /\ Len(o) = Len(out) + 1
      /\ o[Len(out) + 1] = Head(buf)
      /\ \A i \in 1..Len(out) : o[i] = out[i]
  BY <1>1, AppendProperties
<1>4. /\ b \in Seq(Nat) /\ Len(b) = Len(buf) - 1
      /\ \A i \in 1..Len(b) : b[i] = buf[i + 1]
  BY HeadTailProperties
<1> HIDE DEF o, b
<1>5. \A i \in 1..Len(o) : o[i] = Len(got) + i
  <2> SUFFICES ASSUME NEW i \in 1..Len(out) + 1
               PROVE  o[i] = Len(got) + i
    BY <1>1, <1>2, <1>3
  <2>1. CASE i = Len(out) + 1
    BY <2>1, <1>1, <1>2, <1>3 DEF InOrder
  <2>2. CASE i # Len(out) + 1
    <3>1. i \in 1..Len(out)
      BY <2>2, <1>1, <1>2, <1>3
    <3> QED BY <3>1, <1>1, <1>2, <1>3 DEF InOrder
  <2> QED BY <2>1, <2>2
<1>6. \A i \in 1..Len(b) : b[i] = Len(got) + Len(o) + i
  BY <1>1, <1>3, <1>4 DEF InOrder
<1>7. InOrder(got, o, b)
  BY <1>5, <1>6 DEF InOrder
<1> QED BY <1>3, <1>4, <1>7 DEF o, b

(* And the first chunk of the socket that is given to its application: it  *)
(* is the one after those it has.                                          *)
LEMMA GiveInOrder ==
  ASSUME NEW got \in Seq(Nat), NEW out \in Seq(Nat), NEW buf \in Seq(Nat),
         InOrder(got, out, buf), out # <<>>
  PROVE  LET got2 == Append(got, Head(out))  out2 == Tail(out) IN
         /\ got2 \in Seq(Nat) /\ out2 \in Seq(Nat)
         /\ InOrder(got2, out2, buf)
         /\ Len(got2) = Len(got) + 1 /\ Len(out2) = Len(out) - 1
         /\ Head(out) = Len(got) + 1
<1> DEFINE g == Append(got, Head(out))
           o == Tail(out)
<1>1. /\ Len(got) \in Nat /\ Len(out) \in Nat \ {0} /\ Len(buf) \in Nat
      /\ Head(out) \in Nat
  BY LenProperties, EmptySeq, HeadTailProperties
<1>2. Head(out) = Len(got) + 1
  <2>1. Head(out) = out[1]
    BY <1>1
  <2> QED BY <2>1, <1>1 DEF InOrder
<1>3. /\ g \in Seq(Nat) /\ Len(g) = Len(got) + 1
      /\ g[Len(got) + 1] = Head(out)
      /\ \A i \in 1..Len(got) : g[i] = got[i]
  BY <1>1, AppendProperties
<1>4. /\ o \in Seq(Nat) /\ Len(o) = Len(out) - 1
      /\ \A i \in 1..Len(o) : o[i] = out[i + 1]
  BY HeadTailProperties
<1> HIDE DEF g, o
<1>5. \A i \in 1..Len(g) : g[i] = i
  <2> SUFFICES ASSUME NEW i \in 1..Len(got) + 1
               PROVE  g[i] = i
    BY <1>1, <1>2, <1>3
  <2>1. CASE i = Len(got) + 1
    BY <2>1, <1>1, <1>2, <1>3 DEF InOrder
  <2>2. CASE i # Len(got) + 1
    <3>1. i \in 1..Len(got)
      BY <2>2, <1>1, <1>2, <1>3
    <3> QED BY <3>1, <1>1, <1>2, <1>3 DEF InOrder
  <2> QED BY <2>1, <2>2
<1>6. \A i \in 1..Len(o) : o[i] = Len(g) + i
  BY <1>1, <1>3, <1>4 DEF InOrder
<1>7. \A i \in 1..Len(buf) : buf[i] = Len(g) + Len(o) + i
  BY <1>1, <1>3, <1>4 DEF InOrder
<1>8. InOrder(g, o, buf)
  BY <1>5, <1>6, <1>7 DEF InOrder
<1> QED BY <1>2, <1>3, <1>4, <1>8 DEF g, o

(* The numbers a side holds are numbers.                                   *)
LEMMA HeldNat ==
  ASSUME NEW t \in Tunnel, NEW k \in Socket
  PROVE  /\ Len(k.got) \in Nat /\ Len(k.out) \in Nat /\ Len(t.rbuf) \in Nat
         /\ Held(t, k) \in Nat
<1>1. k.got \in Seq(Nat) /\ k.out \in Seq(Nat) /\ t.rbuf \in Seq(Nat)
  BY DEF Tunnel, Socket
<1>2. Len(k.got) \in Nat /\ Len(k.out) \in Nat /\ Len(t.rbuf) \in Nat
  BY <1>1, LenProperties
<1>3. \A x, y, z \in Nat : x + y + z \in Nat
  OBVIOUS
<1>4. Len(k.got) + Len(k.out) + Len(t.rbuf) \in Nat
  BY <1>2, <1>3
<1> QED BY <1>2, <1>4 DEF Held

-----------------------------------------------------------------------------
(* Steps.                                                                  *)

\* A socket whose tunnel is closed.
Shut(k) == IF k.state = "open" THEN Killed(k) ELSE k

(* There are two sides.                                                    *)
LEMMA TwoSides ==
  ASSUME NEW p \in Sides
  PROVE  /\ Other(p) \in Sides /\ Other(p) # p /\ Other(Other(p)) = p
         /\ Sides = {p, Other(p)}
         /\ (p = "sub" => Other(p) = "pub") /\ (p = "pub" => Other(p) = "sub")
BY DEF Sides, Other

(* What is left of a tunnel that is destroyed.                             *)
LEMMA DeadTunnel ==
  ASSUME NEW t \in Tunnel
  PROVE  /\ Dead(t) \in Tunnel /\ Dead(t).closed /\ Dead(t).rbuf = <<>>
         /\ Dead(t).queue = 0 /\ ~Dead(t).held /\ ~Dead(t).drain
         /\ Dead(t).sent = t.sent /\ Dead(t).finished = t.finished
         /\ Dead(t).ended = t.ended /\ Dead(t).eof = t.eof
         /\ Dead(t).ending = t.ending /\ Dead(t).ready = t.ready
<1>1. <<>> \in Seq(Nat) /\ 0 \in Nat
  BY EmptySeq
<1> QED BY <1>1 DEF Dead, Tunnel

(* What is left of a socket that is destroyed.                             *)
LEMMA KilledSocket ==
  ASSUME NEW k \in Socket
  PROVE  /\ Killed(k) \in Socket /\ Killed(k).state = "dead"
         /\ Killed(k).out = <<>> /\ Killed(k).end = k.end
         /\ Killed(k).made = k.made /\ Killed(k).fin = k.fin
         /\ Killed(k).got = k.got
         /\ Killed(k).over = IF k.over = "no" THEN "cut" ELSE k.over
<1>1. <<>> \in Seq(Nat)
  BY EmptySeq
<1>2. k.over \in {"no", "eof", "cut"}
  BY DEF Socket
<1> QED BY <1>1, <1>2 DEF Killed, Socket

(* The same when it is open; otherwise it stays.                           *)
LEMMA ShutSocket ==
  ASSUME NEW k \in Socket
  PROVE  /\ Shut(k) \in Socket /\ Shut(k).end = k.end
         /\ Shut(k).made = k.made /\ Shut(k).fin = k.fin
         /\ Shut(k).got = k.got /\ Shut(k).state # "open"
         /\ (k.state = "open" => Shut(k) = Killed(k))
         /\ (k.state # "open" => Shut(k) = k)
         /\ (k.state \in {"open", "dead"} => Shut(k).state = "dead")
BY KilledSocket DEF Shut

(* A tunnel that is destroyed with its socket keeps its side in order.     *)
LEMMA DeadSide ==
  ASSUME NEW p \in Sides, NEW t \in Tunnel, NEW k \in Socket
  PROVE  /\ (Sender(p, t, k) => Sender(p, Dead(t), Shut(k)))
         /\ (Receiver(t, k) => Receiver(Dead(t), Shut(k)))
<1>1. \A s \in {t} : s.queue \in Nat /\ s.sent \in Nat
  BY DEF Tunnel
<1>2. ASSUME Sender(p, t, k)
      PROVE  Sender(p, Dead(t), Shut(k))
  <2>1. QueueSize \in Nat
    BY TunnelAssumption
  <2>2. (t.finished => t.ending /\ t.sent = k.made)
        /\ (t.ending => k.fin) /\ t.sent <= k.made
        /\ k.made <= MaxChunks[p]
    BY <1>2 DEF Sender
  <2> QED BY <2>1, <2>2, DeadTunnel, ShutSocket DEF Sender
<1>3. ASSUME Receiver(t, k)
      PROVE  Receiver(Dead(t), Shut(k))
  <2>1. Len(<<>>) <= SocketBuffer
    BY TunnelAssumption
  <2>2. CASE k.state = "open"
    <3>1. Shut(k) = Killed(k)
      BY <2>2, ShutSocket
    <3> QED BY <3>1, <1>3, <2>1, DeadTunnel, KilledSocket DEF Receiver
  <2>3. CASE k.state # "open"
    <3>1. Shut(k) = k
      BY <2>3, ShutSocket
    <3> QED BY <3>1, <2>3, <1>3, <2>1, DeadTunnel DEF Receiver
  <2> QED BY <2>2, <2>3
<1> QED BY <1>2, <1>3

\* The wires are as they were, or p has taken the first message of its own.
Taken(p, w) ==
  /\ w \in [Sides -> Seq(Message)]
  /\ w[p] = wire[p]
  /\ \/ w[Other(p)] = wire[Other(p)]
     \/ wire[Other(p)] # <<>> /\ w[Other(p)] = Tail(wire[Other(p)])

\* Every message m sends is of one of the types in ty.
Only(m, ty) == \A i \in 1..Len(m) : m[i].type \in ty

(* What a step of a tunnel does, if it does not end the tunnel ...         *)
LEMMA StepGoesOn ==
  ASSUME Shapes, NEW p \in Sides, NEW t \in Tunnel, NEW k \in Socket,
         NEW w, Taken(p, w), NEW m \in Seq(Message),
         ~t.closed, ~(t.finished /\ t.ended), Step(p, t, k, w, m)
  PROVE  /\ tun' = [tun EXCEPT ![p] = t] /\ sock' = [sock EXCEPT ![p] = k]
         /\ wire' \in [Sides -> Seq(Message)]
         /\ wire'[p] = IF tun[Other(p)].closed THEN <<>> ELSE wire[p] \o m
         /\ wire'[Other(p)] = w[Other(p)]
<1>1. t.closed = FALSE /\ (t.finished /\ t.ended /\ ~t.closed) = FALSE
  BY DEF Tunnel
<1>2. /\ tun' = [tun EXCEPT ![p] = t] /\ sock' = [sock EXCEPT ![p] = k]
      /\ wire' = [q \in Sides |->
                    IF (IF Other(q) = p THEN t.closed
                        ELSE tun[Other(q)].closed)
                    THEN <<>>
                    ELSE IF q = p THEN w[q] \o (m \o <<>>) ELSE w[q]]
  BY <1>1 DEF Step
<1>3. m \o <<>> = m
  BY ConcatEmptySeq
<1>4. /\ wire'[p] = IF tun[Other(p)].closed THEN <<>> ELSE wire[p] \o m
      /\ wire'[Other(p)] = w[Other(p)]
  BY <1>1, <1>2, <1>3, TwoSides DEF Taken
<1>5. \A q \in Sides : wire'[q] \in Seq(Message)
  <2>1. wire[p] \o m \in Seq(Message) /\ <<>> \in Seq(Message)
    BY WireAppend, EmptySeq DEF Shapes
  <2>3. wire'[p] \in Seq(Message)
    BY <1>4, <2>1
  <2>4. wire'[Other(p)] \in Seq(Message)
    BY <1>4, <2>1, TwoSides DEF Taken
  <2>5. Sides = {p, Other(p)}
    BY TwoSides
  <2> QED BY <2>3, <2>4, <2>5
<1> QED BY <1>2, <1>4, <1>5

(* ... and if both of its halves have ended.                               *)
LEMMA StepEndsItself ==
  ASSUME Shapes, NEW p \in Sides, NEW t \in Tunnel, NEW k \in Socket,
         NEW w, Taken(p, w), NEW m \in Seq(Message),
         ~t.closed, t.finished /\ t.ended, Step(p, t, k, w, m)
  PROVE  /\ tun' = [tun EXCEPT ![p] = Dead(t)]
         /\ sock' = [sock EXCEPT ![p] = Shut(k)]
         /\ wire' \in [Sides -> Seq(Message)]
         /\ wire'[p] = IF tun[Other(p)].closed THEN <<>>
                       ELSE wire[p] \o (m \o Closing)
         /\ wire'[Other(p)] = <<>>
<1>1. (t.finished /\ t.ended /\ ~t.closed) = TRUE /\ Dead(t).closed = TRUE
  BY DeadTunnel DEF Tunnel
<1>2. /\ tun' = [tun EXCEPT ![p] = Dead(t)]
      /\ sock' = [sock EXCEPT ![p] = Shut(k)]
      /\ wire' = [q \in Sides |->
                    IF (IF Other(q) = p THEN Dead(t).closed
                        ELSE tun[Other(q)].closed)
                    THEN <<>>
                    ELSE IF q = p THEN w[q] \o (m \o Closing) ELSE w[q]]
  BY <1>1 DEF Step, Shut
<1>4. /\ wire'[p] = IF tun[Other(p)].closed THEN <<>>
                    ELSE wire[p] \o (m \o Closing)
      /\ wire'[Other(p)] = <<>>
  BY <1>1, <1>2, TwoSides DEF Taken
<1>5. \A q \in Sides : wire'[q] \in Seq(Message)
  <2>1. Closing \in Seq(Message)
    BY MessageTypes, OneMessage DEF Closing, Types
  <2>2. wire[p] \o (m \o Closing) \in Seq(Message) /\ <<>> \in Seq(Message)
    BY <2>1, WireAppend, EmptySeq DEF Shapes
  <2>3. wire'[p] \in Seq(Message)
    BY <1>4, <2>2
  <2>4. wire'[Other(p)] \in Seq(Message)
    BY <1>4, <2>2, TwoSides
  <2>5. Sides = {p, Other(p)}
    BY TwoSides
  <2> QED BY <2>3, <2>4, <2>5
<1> QED BY <1>2, <1>4, <1>5

(* ... and if it destroys the tunnel.                                      *)
LEMMA StepDestroys ==
  ASSUME Shapes, NEW p \in Sides, NEW t \in Tunnel, NEW k \in Socket,
         NEW w, Taken(p, w), NEW m \in Seq(Message), t.closed,
         Step(p, t, k, w, m)
  PROVE  /\ tun' = [tun EXCEPT ![p] = t]
         /\ sock' = [sock EXCEPT ![p] = Shut(k)]
         /\ wire' \in [Sides -> Seq(Message)]
         /\ wire'[p] = IF tun[Other(p)].closed THEN <<>> ELSE wire[p] \o m
         /\ wire'[Other(p)] = <<>>
<1>1. t.closed = TRUE /\ (t.finished /\ t.ended /\ ~t.closed) = FALSE
  BY DEF Tunnel
<1>2. /\ tun' = [tun EXCEPT ![p] = t]
      /\ sock' = [sock EXCEPT ![p] = Shut(k)]
      /\ wire' = [q \in Sides |->
                    IF (IF Other(q) = p THEN t.closed
                        ELSE tun[Other(q)].closed)
                    THEN <<>>
                    ELSE IF q = p THEN w[q] \o (m \o <<>>) ELSE w[q]]
  BY <1>1 DEF Step, Shut
<1>3. m \o <<>> = m
  BY ConcatEmptySeq
<1>4. /\ wire'[p] = IF tun[Other(p)].closed THEN <<>> ELSE wire[p] \o m
      /\ wire'[Other(p)] = <<>>
  BY <1>1, <1>2, <1>3, TwoSides DEF Taken
<1>5. \A q \in Sides : wire'[q] \in Seq(Message)
  <2>1. wire[p] \o m \in Seq(Message) /\ <<>> \in Seq(Message)
    BY WireAppend, EmptySeq DEF Shapes
  <2>3. wire'[p] \in Seq(Message)
    BY <1>4, <2>1
  <2>4. wire'[Other(p)] \in Seq(Message)
    BY <1>4, <2>1, TwoSides
  <2>5. Sides = {p, Other(p)}
    BY TwoSides
  <2> QED BY <2>3, <2>4, <2>5
<1> QED BY <1>2, <1>4, <1>5

(* The messages of a wire that a side takes from were on it before.        *)
LEMMA TakenFrom ==
  ASSUME Shapes, NEW p \in Sides, NEW w, Taken(p, w)
  PROVE  \A i \in 1..Len(w[Other(p)]) :
           \E j \in 1..Len(wire[Other(p)]) :
             /\ w[Other(p)][i] = wire[Other(p)][j]
             /\ (j = 1 => i = 1 /\ w[Other(p)] = wire[Other(p)])
<1> DEFINE q == Other(p)
<1>1. q \in Sides /\ wire[q] \in Seq(Message)
  BY TwoSides DEF Shapes
<1>2. CASE w[q] = wire[q]
  BY <1>2
<1>3. CASE wire[q] # <<>> /\ w[q] = Tail(wire[q])
  <2>1. /\ Len(w[q]) = Len(wire[q]) - 1 /\ Len(wire[q]) \in Nat \ {0}
        /\ \A i \in 1..Len(w[q]) : w[q][i] = wire[q][i + 1]
    BY <1>1, <1>3, WireTail
  <2>2. \A i \in 1..Len(w[q]) :
          i + 1 \in 1..Len(wire[q]) /\ w[q][i] = wire[q][i + 1] /\ i + 1 # 1
    BY <2>1
  <2> HIDE DEF q
  <2>3. \A i \in 1..Len(w[q]) :
          \E j \in 1..Len(wire[q]) : /\ w[q][i] = wire[q][j]
                                     /\ (j = 1 => i = 1 /\ w[q] = wire[q])
    BY <2>2
  <2> QED BY <2>3 DEF q
<1> QED BY <1>2, <1>3 DEF Taken

Enders == {"error", "reset", "close"}

\* Side p says nothing out of turn, and ends the other's tunnel only when
\* its own is closed.
Polite(p, m, closed) ==
  \A i \in 1..Len(m) :
    /\ m[i].type # "open" /\ (p = "sub" => m[i].type # "ok")
    /\ (m[i].type \in Enders => closed)

(* A side that says nothing out of turn keeps the handshake, and one that  *)
(* ends the other's tunnel only when its own is closed, and closes that    *)
(* only for a reason, keeps the reasons.                                   *)
LEMMA TalkKeeps ==
  ASSUME IInv, NEW p \in Sides, NEW t \in Tunnel, NEW k \in Socket,
         NEW w, Taken(p, w), NEW m \in Seq(Message),
         tun' = [tun EXCEPT ![p] = t], sock' = [sock EXCEPT ![p] = k],
         wire'[p] = IF tun[Other(p)].closed THEN <<>> ELSE wire[p] \o m,
         wire'[Other(p)] = w[Other(p)] \/ wire'[Other(p)] = <<>>,
         Polite(p, m, t.closed),
         p = "sub" => k.state \in {"open", "dead"},
         sock[p].state = "none" => k.state = "none" \/
           wire'[Other(p)] # wire[Other(p)] \/ wire'[Other(p)] = <<>>,
         tun[p].closed => t.closed,
         sock[p].fin => k.fin, broken => broken',
         t.closed \/ k.state = "dead" => Ended'
  PROVE  Handshake' /\ HasReason'
<1> DEFINE q == Other(p)
<1> USE TwoSides
<1>1. /\ q \in Sides /\ q # p /\ Sides = {p, q}
      /\ tun'[p] = t /\ tun'[q] = tun[q]
      /\ sock'[p] = k /\ sock'[q] = sock[q]
      /\ wire[p] \in Seq(Message) /\ wire[q] \in Seq(Message)
      /\ (p = "sub" /\ q = "pub") \/ (p = "pub" /\ q = "sub")
  BY DEF IInv, Shapes, Sides
<1>2. \A i \in 1..Len(wire'[p]) :
        \/ i \in 1..Len(wire[p]) /\ wire'[p][i] = wire[p][i]
        \/ \E j \in 1..Len(m) : wire'[p][i] = m[j]
  <2>1. CASE tun[q].closed
    <3>1. wire'[p] = <<>>
      BY <2>1
    <3>2. Len(<<>>) = 0
      OBVIOUS
    <3> QED BY <3>1, <3>2
  <2>2. CASE ~tun[q].closed
    <3> DEFINE v == wire'[p]
    <3>1. v = wire[p] \o m
      BY <2>2
    <3> HIDE DEF v
    <3>2. \A i \in 1..Len(v) :
            \/ i \in 1..Len(wire[p]) /\ v[i] = wire[p][i]
            \/ i - Len(wire[p]) \in 1..Len(m) /\ v[i] = m[i - Len(wire[p])]
      BY <3>1, <1>1, WireAppend
    <3>3. \A i \in 1..Len(v) :
            \/ i \in 1..Len(wire[p]) /\ v[i] = wire[p][i]
            \/ \E j \in 1..Len(m) : v[i] = m[j]
      BY <3>2
    <3> QED BY <3>3 DEF v
  <2> QED BY <2>1, <2>2
<1>3. \A i \in 1..Len(wire'[q]) :
        \E j \in 1..Len(wire[q]) :
          /\ wire'[q][i] = wire[q][j]
          /\ (j = 1 => i = 1 /\ wire'[q] = wire[q])
  <2>1. CASE wire'[q] = w[q]
    BY <2>1, TakenFrom DEF IInv
  <2>2. CASE wire'[q] = <<>>
    <3>1. Len(<<>>) = 0
      OBVIOUS
    <3> QED BY <2>2, <3>1
  <2> QED BY <2>1, <2>2
<1>4. wire'[q] = <<>> => Len(wire'[q]) = 0
  OBVIOUS
<1>7. \A i \in 1..Len(wire'[p]) :
        \/ i \in 1..Len(wire[p]) /\ wire'[p][i] = wire[p][i]
        \/ /\ wire'[p][i].type # "open"
           /\ p = "sub" => wire'[p][i].type # "ok"
  BY <1>2 DEF Polite
<1>0. Handshake /\ HasReason
  BY DEF IInv
<1> HIDE DEF q
<1>5. Handshake'
  <2>1. CASE p = "sub"
    <3>1. q = "pub"
      BY <1>1, <2>1
    <3>2. sock'["sub"].state \in {"open", "dead"}
      BY <1>1, <2>1
    <3>3. \A i \in 1..Len(wire'["pub"]) : wire'["pub"][i].type # "open"
      <4>1. \A j \in 1..Len(wire["pub"]) : wire["pub"][j].type # "open"
        BY <1>0 DEF Handshake
      <4> QED BY <1>3, <3>1, <4>1
    <3>4. \A i \in 1..Len(wire'["sub"]) :
            /\ wire'["sub"][i].type # "ok"
            /\ wire'["sub"][i].type = "open" =>
                 i = 1 /\ sock'["pub"].state = "none"
      <4>1. \A i \in 1..Len(wire[p]) :
              /\ wire[p][i].type # "ok"
              /\ wire[p][i].type = "open" =>
                   i = 1 /\ sock["pub"].state = "none"
        BY <1>0, <2>1 DEF Handshake
      <4>2. \A i \in 1..Len(wire'[p]) :
              /\ wire'[p][i].type # "ok"
              /\ wire'[p][i].type = "open" =>
                   i = 1 /\ sock["pub"].state = "none"
        <5> SUFFICES ASSUME NEW i \in 1..Len(wire'[p])
                     PROVE  /\ wire'[p][i].type # "ok"
                            /\ wire'[p][i].type = "open" =>
                                 i = 1 /\ sock["pub"].state = "none"
          OBVIOUS
        <5>1. CASE i \in 1..Len(wire[p]) /\ wire'[p][i] = wire[p][i]
          BY <4>1, <5>1
        <5>2. CASE /\ wire'[p][i].type # "open"
                   /\ p = "sub" => wire'[p][i].type # "ok"
          BY <2>1, <5>2
        <5> QED BY <1>7, <5>1, <5>2
      <4>3. sock'["pub"] = sock["pub"] /\ wire'["sub"] = wire'[p]
        BY <1>1, <2>1, <3>1
      <4> QED BY <4>2, <4>3
    <3> QED BY <3>2, <3>3, <3>4 DEF Handshake
  <2>2. CASE p = "pub"
    <3>1. q = "sub"
      BY <1>1, <2>2
    <3>2. sock'["sub"].state \in {"open", "dead"}
      BY <1>0, <1>1, <3>1 DEF Handshake
    <3>3. \A i \in 1..Len(wire'["pub"]) : wire'["pub"][i].type # "open"
      <4>1. \A j \in 1..Len(wire["pub"]) : wire["pub"][j].type # "open"
        BY <1>0 DEF Handshake
      <4> QED BY <1>7, <2>2, <4>1
    <3>4. ASSUME NEW i \in 1..Len(wire'["sub"])
          PROVE  /\ wire'["sub"][i].type # "ok"
                 /\ wire'["sub"][i].type = "open" =>
                      i = 1 /\ sock'["pub"].state = "none"
      <4>1. PICK j \in 1..Len(wire["sub"]) :
              /\ wire'["sub"][i] = wire["sub"][j]
              /\ (j = 1 => i = 1 /\ wire'["sub"] = wire["sub"])
        BY <1>3, <3>1
      <4>2. /\ wire["sub"][j].type # "ok"
            /\ wire["sub"][j].type = "open" =>
                 j = 1 /\ sock["pub"].state = "none"
        BY <1>0 DEF Handshake
      <4>3. ~(wire'["sub"] = <<>>)
        BY <1>4, <3>1
      <4> QED BY <1>1, <2>2, <3>1, <4>1, <4>2, <4>3 DEF q
    <3> QED BY <3>2, <3>3, <3>4 DEF Handshake
  <2> QED BY <1>1, <2>1, <2>2
<1>6. HasReason'
  <2>1. Ended => Ended'
    BY <1>1 DEF Ended
  <2>2. /\ (tun'[p].closed \/ sock'[p].state = "dead" => Ended')
        /\ (tun'[q].closed \/ sock'[q].state = "dead" => Ended')
    BY <1>0, <1>1, <2>1 DEF HasReason
  <2>3. \A i \in 1..Len(wire'[p]) :
          wire'[p][i].type \in Enders => tun'[p].closed
    BY <1>0, <1>1, <1>2 DEF HasReason, Enders, Polite
  <2>4. \A i \in 1..Len(wire'[q]) :
          wire'[q][i].type \in Enders => tun'[q].closed
    BY <1>0, <1>1, <1>3 DEF HasReason, Enders
  <2> QED BY <1>1, <2>2, <2>3, <2>4 DEF HasReason, Enders
<1> QED BY <1>5, <1>6

(* The invariant from its two sides and two directions.                    *)
LEMMA Assemble ==
  ASSUME NEW p \in Sides, NEW q \in Sides, q = Other(p),
         tun' \in [Sides -> Tunnel], sock' \in [Sides -> Socket],
         wire' \in [Sides -> Seq(Message)], broken' \in BOOLEAN,
         Sender(p, tun'[p], sock'[p]), Sender(q, tun'[q], sock'[q]),
         Receiver(tun'[p], sock'[p]), Receiver(tun'[q], sock'[q]),
         Link(tun'[p], wire'[p], tun'[q], sock'[q]),
         Link(tun'[q], wire'[q], tun'[p], sock'[p]),
         tun'[p].closed => wire'[q] = <<>>, tun'[q].closed => wire'[p] = <<>>,
         tun'[p].finished /\ tun'[p].ended => tun'[p].closed,
         tun'[q].finished /\ tun'[q].ended => tun'[q].closed,
         Handshake', HasReason'
  PROVE  IInv'
<1>1. Sides = {p, q} /\ Other(q) = p
  BY TwoSides
<1>2. Shapes'
  BY DEF Shapes
<1>3. (\A r \in Sides : Sender(r, tun[r], sock[r]))'
  BY <1>1
<1>4. (\A r \in Sides : Receiver(tun[r], sock[r]))'
  BY <1>1
<1>5. (\A r \in Sides : Link(tun[r], wire[r], tun[Other(r)], sock[Other(r)]))'
  BY <1>1
<1>6. Closed'
  BY <1>1 DEF Closed
<1> QED BY <1>2, <1>3, <1>4, <1>5, <1>6 DEF IInv

(* What a side has given up leaves the rest in order.                      *)
LEMMA ShortInOrder ==
  ASSUME NEW got \in Seq(Nat), NEW out \in Seq(Nat), NEW buf \in Seq(Nat),
         InOrder(got, out, buf)
  PROVE  InOrder(got, out, <<>>) /\ InOrder(got, <<>>, <<>>)
<1>1. Len(<<>>) = 0
  OBVIOUS
<1> QED BY <1>1 DEF InOrder

(* A step that does not destroy its tunnel keeps the invariant when it     *)
(* keeps its own side and both directions in order.  The tunnel may then   *)
(* end by itself, when both applications have ended.                       *)
LEMMA StepKeeps ==
  ASSUME IInv, NEW p \in Sides, NEW t \in Tunnel, NEW k \in Socket,
         NEW w, Taken(p, w), NEW m \in Seq(Message), Step(p, t, k, w, m),
         broken' \in BOOLEAN, broken => broken',
         ~tun[p].closed, ~t.closed, Sender(p, t, k), Receiver(t, k),
         Link(t, wire[p] \o m, tun[Other(p)], sock[Other(p)]),
         Link(tun[Other(p)], w[Other(p)], t, k),
         sock[p].fin => k.fin,
         k.state = "dead" => sock[p].state = "dead" \/ broken',
         p = "sub" => k.state \in {"open", "dead"},
         sock[p].state = "none" =>
           k.state = "none" \/ w[Other(p)] # wire[Other(p)],
         \A i \in 1..Len(m) :
           /\ m[i].type \notin Enders \cup {"open"}
           /\ p = "sub" => m[i].type # "ok"
  PROVE  /\ IInv'
         /\ sock' = [sock EXCEPT ![p] = IF t.finished /\ t.ended
                                        THEN Shut(k) ELSE k]
         /\ (t.finished /\ t.ended => k.fin /\ sock[Other(p)].fin)
<1> DEFINE q == Other(p)
<1>1. /\ q \in Sides /\ q # p /\ q = Other(p) /\ Sides = {p, q}
  BY TwoSides
<1>2. /\ tun[p] \in Tunnel /\ sock[p] \in Socket
      /\ tun[q] \in Tunnel /\ sock[q] \in Socket
      /\ tun \in [Sides -> Tunnel] /\ sock \in [Sides -> Socket]
      /\ Shapes /\ wire[p] \in Seq(Message) /\ wire[q] \in Seq(Message)
  BY <1>1 DEF IInv, Shapes
<1>3. /\ Sender(q, tun[q], sock[q]) /\ Receiver(tun[q], sock[q])
      /\ (tun[q].closed => wire[p] = <<>>)
      /\ (tun[q].finished /\ tun[q].ended => tun[q].closed)
      /\ (sock[p].state = "dead" => Ended)
  BY <1>1, TwoSides DEF IInv, Closed, HasReason
<1>4. k.got \in Seq(Nat) /\ k.out \in Seq(Nat) /\ t.rbuf \in Seq(Nat)
      /\ sock[q].got \in Seq(Nat) /\ sock[q].out \in Seq(Nat)
      /\ tun[q].rbuf \in Seq(Nat)
  BY <1>2 DEF Tunnel, Socket
<1>5. w \in [Sides -> Seq(Message)] /\ w[q] \in Seq(Message)
  BY <1>1 DEF Taken
<1>6. Ended => Ended' \/ ~(\A r \in Sides : sock'[r].fin)
  BY DEF Ended
<1>7. CASE ~(t.finished /\ t.ended)
  <2>1. /\ tun' = [tun EXCEPT ![p] = t] /\ sock' = [sock EXCEPT ![p] = k]
        /\ wire' \in [Sides -> Seq(Message)]
        /\ wire'[p] = IF tun[q].closed THEN <<>> ELSE wire[p] \o m
        /\ wire'[q] = w[q]
    BY <1>2, <1>7, StepGoesOn
  <2>2. /\ tun'[p] = t /\ tun'[q] = tun[q] /\ tun' \in [Sides -> Tunnel]
        /\ sock'[p] = k /\ sock'[q] = sock[q]
        /\ sock' \in [Sides -> Socket]
    BY <1>1, <1>2, <2>1
  <2>3. Ended => Ended'
    BY <1>1, <2>2 DEF Ended
  <2>4. Handshake' /\ HasReason'
    <3>1. t.closed \/ k.state = "dead" => Ended'
      BY <1>3, <2>3 DEF Ended
    <3>2. sock[p].state = "none" => k.state = "none" \/
            wire'[q] # wire[q] \/ wire'[q] = <<>>
      BY <2>1
    <3>3. Polite(p, m, t.closed)
      BY DEF Polite
    <3>4. wire'[q] = w[q] \/ wire'[q] = <<>>
      BY <2>1
    <3>5. tun[p].closed => t.closed
      OBVIOUS
    <3> QED BY <2>1, <3>1, <3>2, <3>3, <3>4, <3>5, TalkKeeps
  <2>5. Link(t, wire'[p], tun[q], sock[q])
    BY <2>1 DEF Link
  <2>6. Link(tun[q], wire'[q], t, k)
    BY <2>1
  <2>7. tun[q].closed => wire'[p] = <<>>
    BY <2>1
  <2>8. IInv'
    BY <1>1, <1>3, <1>7, <2>1, <2>2, <2>4, <2>5, <2>6, <2>7, Assemble
  <2> QED BY <2>8, <2>1, <1>7
<1>8. CASE t.finished /\ t.ended
  <2>1. /\ tun' = [tun EXCEPT ![p] = Dead(t)]
        /\ sock' = [sock EXCEPT ![p] = Shut(k)]
        /\ wire' \in [Sides -> Seq(Message)]
        /\ wire'[p] = IF tun[q].closed THEN <<>>
                      ELSE wire[p] \o (m \o Closing)
        /\ wire'[q] = <<>>
    BY <1>2, <1>8, StepEndsItself
  <2>2. /\ Dead(t) \in Tunnel /\ Dead(t).closed /\ Dead(t).sent = t.sent
        /\ Dead(t).finished = t.finished /\ Dead(t).rbuf = <<>>
        /\ Shut(k) \in Socket /\ Shut(k).fin = k.fin /\ Shut(k).got = k.got
    BY DeadTunnel, ShutSocket
  <2>3. /\ tun'[p] = Dead(t) /\ tun'[q] = tun[q] /\ tun' \in [Sides -> Tunnel]
        /\ sock'[p] = Shut(k) /\ sock'[q] = sock[q]
        /\ sock' \in [Sides -> Socket]
    BY <1>1, <1>2, <2>1, <2>2
  <2>4. k.fin /\ sock[q].fin
    <3>1. k.fin
      BY <1>8 DEF Sender
    <3>2. t.eof
      BY <1>8 DEF Receiver
    <3>3. tun[q].finished
      BY <3>2 DEF Link
    <3> QED BY <3>1, <3>3, <1>3 DEF Sender
  <2>5. Ended'
    BY <1>1, <2>2, <2>3, <2>4 DEF Ended
  <2>6. /\ Closing \in Seq(Message) /\ Plain(Closing)
        /\ Len(Closing) = 1 /\ Closing[1].type = "close"
    BY MessageTypes, OneMessage DEF Closing, Types
  <2>7. m \o Closing \in Seq(Message)
    BY <2>6, WireAppend
  <2>8. Handshake' /\ HasReason'
    <3>1. Polite(p, m \o Closing, Dead(t).closed)
      <4> DEFINE v == m \o Closing
      <4>1. \A i \in 1..Len(v) :
              \/ i \in 1..Len(m) /\ v[i] = m[i]
              \/ i - Len(m) \in 1..Len(Closing) /\ v[i] = Closing[i - Len(m)]
        BY <2>6, WireAppend
      <4> HIDE DEF v
      <4>2. \A i \in 1..Len(v) :
              \/ i \in 1..Len(m) /\ v[i] = m[i]
              \/ v[i].type = "close"
        BY <2>6, <4>1
      <4>3. \A i \in 1..Len(v) : /\ v[i].type # "open"
                                 /\ p = "sub" => v[i].type # "ok"
        BY <4>2
      <4> QED BY <4>3, <2>2 DEF v, Polite
    <3>2. p = "sub" => Shut(k).state \in {"open", "dead"}
      BY ShutSocket
    <3> QED BY <1>1, <2>1, <2>2, <2>5, <2>7, <3>1, <3>2, TalkKeeps
  <2>9. Link(Dead(t), wire'[p], tun[q], sock[q])
    <3>1. CASE tun[q].closed
      BY <3>1 DEF Link
    <3>2. CASE ~tun[q].closed
      <4>1. /\ Carries(wire[p] \o m, Held(tun[q], sock[q]), t.sent)
            /\ EndLast(wire[p] \o m, t.finished)
        BY <3>2 DEF Link
      <4>2. wire[p] \o m \in Seq(Message)
        BY <1>2, WireAppend
      <4>3. t.sent \in Nat /\ t.finished \in BOOLEAN
        BY DEF Tunnel
      <4>4. Held(tun[q], sock[q]) \in Nat
        BY <1>2, HeldNat
      <4>5. /\ Carries((wire[p] \o m) \o Closing, Held(tun[q], sock[q]),
                       t.sent)
            /\ EndLast((wire[p] \o m) \o Closing, t.finished)
        BY <2>6, <4>1, <4>2, <4>3, <4>4, AppendPlain
      <4>6. (wire[p] \o m) \o Closing = wire[p] \o (m \o Closing)
        BY <1>2, <2>6, WireThree
      <4>7. wire'[p] = (wire[p] \o m) \o Closing
        BY <2>1, <3>2, <4>6
      <4> QED BY <2>2, <4>5, <4>7 DEF Link
    <3> QED BY <3>1, <3>2
  <2>10. Link(tun[q], wire'[q], Dead(t), Shut(k))
    <3>1. InOrder(k.got, k.out, t.rbuf)
      BY DEF Link
    <3>2. InOrder(k.got, k.out, <<>>) /\ InOrder(k.got, <<>>, <<>>)
      BY <1>4, <3>1, ShortInOrder
    <3>3. Shut(k).out = <<>> \/ Shut(k).out = k.out
      BY ShutSocket, KilledSocket
    <3> QED BY <2>2, <3>2, <3>3 DEF Link
  <2>11. Sender(p, Dead(t), Shut(k)) /\ Receiver(Dead(t), Shut(k))
    BY DeadSide
  <2>12. tun[q].closed => wire'[p] = <<>>
    BY <2>1
  <2>13. IInv'
    BY <1>1, <1>3, <2>1, <2>2, <2>3, <2>8, <2>9, <2>10, <2>11, <2>12,
       Assemble
  <2> QED BY <2>13, <2>1, <2>4, <1>8
<1> QED BY <1>7, <1>8

(* A step that destroys its tunnel keeps it when there is a reason for it. *)
LEMMA StepDies ==
  ASSUME IInv, NEW p \in Sides, NEW k \in Socket, NEW w, Taken(p, w),
         NEW m \in Seq(Message), Step(p, Dead(tun[p]), k, w, m),
         broken' \in BOOLEAN, broken => broken',
         broken' \/ \A r \in Sides : sock[r].fin,
         k.made = sock[p].made, k.fin = sock[p].fin, k.got = sock[p].got,
         Receiver(Dead(tun[p]), Shut(k)),
         p = "sub" => k.state \in {"open", "dead"},
         \A i \in 1..Len(m) : m[i].type \in Enders
  PROVE  IInv' /\ sock' = [sock EXCEPT ![p] = Shut(k)]
<1> DEFINE q == Other(p)
           t == Dead(tun[p])
<1>1. /\ q \in Sides /\ q # p /\ q = Other(p) /\ Sides = {p, q}
  BY TwoSides
<1>2. /\ tun[p] \in Tunnel /\ sock[p] \in Socket
      /\ tun[q] \in Tunnel /\ sock[q] \in Socket
      /\ tun \in [Sides -> Tunnel] /\ sock \in [Sides -> Socket]
      /\ Shapes /\ wire[p] \in Seq(Message) /\ wire[q] \in Seq(Message)
  BY <1>1 DEF IInv, Shapes
<1>3. /\ Sender(q, tun[q], sock[q]) /\ Receiver(tun[q], sock[q])
      /\ Sender(p, tun[p], sock[p])
      /\ Link(tun[p], wire[p], tun[q], sock[q])
      /\ InOrder(sock[p].got, sock[p].out, tun[p].rbuf)
      /\ (tun[q].finished /\ tun[q].ended => tun[q].closed)
  <2>1. Other(q) = p
    BY TwoSides
  <2>2. Link(tun[q], wire[q], tun[p], sock[p])
    BY <1>1, <2>1 DEF IInv
  <2> QED BY <1>1, <2>2 DEF IInv, Closed, Link
<1>4. /\ t \in Tunnel /\ t.closed /\ t.sent = tun[p].sent
      /\ t.finished = tun[p].finished /\ t.rbuf = <<>>
      /\ Shut(k) \in Socket /\ Shut(k).fin = sock[p].fin
      /\ Shut(k).got = sock[p].got /\ Shut(k).made = sock[p].made
  BY <1>2, DeadTunnel, ShutSocket
<1>5. /\ tun' = [tun EXCEPT ![p] = t] /\ sock' = [sock EXCEPT ![p] = Shut(k)]
      /\ wire' \in [Sides -> Seq(Message)]
      /\ wire'[p] = IF tun[q].closed THEN <<>> ELSE wire[p] \o m
      /\ wire'[q] = <<>>
  BY <1>2, <1>4, StepDestroys
<1>6. Sender(p, t, Shut(k))
  <2>1. Sender(p, t, Shut(sock[p]))
    BY <1>2, <1>3, DeadSide
  <2>2. Shut(sock[p]).made = sock[p].made /\ Shut(sock[p]).fin = sock[p].fin
    BY <1>2, ShutSocket
  <2> QED BY <1>4, <2>1, <2>2 DEF Sender
<1> HIDE DEF t
<1>7. /\ tun'[p] = t /\ tun'[q] = tun[q] /\ tun' \in [Sides -> Tunnel]
      /\ sock'[p] = Shut(k) /\ sock'[q] = sock[q]
      /\ sock' \in [Sides -> Socket]
  BY <1>1, <1>2, <1>4, <1>5
<1>8. Ended'
  BY <1>1, <1>4, <1>7 DEF Ended
<1>9. Handshake' /\ HasReason'
  <2>1. p = "sub" => Shut(k).state \in {"open", "dead"}
    BY ShutSocket
  <2>2. Polite(p, m, t.closed)
    BY <1>4 DEF Enders, Polite
  <2> QED BY <1>4, <1>5, <1>8, <2>1, <2>2, TalkKeeps
<1>10. Link(t, wire'[p], tun[q], sock[q])
  <2>1. CASE tun[q].closed
    BY <1>3, <2>1 DEF Link
  <2>2. CASE ~tun[q].closed
    <3>1. /\ Carries(wire[p], Held(tun[q], sock[q]), t.sent)
          /\ EndLast(wire[p], t.finished)
      BY <1>3, <1>4, <2>2 DEF Link
    <3>2. t.sent \in Nat /\ t.finished \in BOOLEAN
      BY <1>4 DEF Tunnel
    <3>3. Held(tun[q], sock[q]) \in Nat
      BY <1>2, HeldNat
    <3>4. Plain(m)
      BY DEF Plain, Enders
    <3>5. /\ Carries(wire[p] \o m, Held(tun[q], sock[q]), t.sent)
          /\ EndLast(wire[p] \o m, t.finished)
      BY <1>2, <3>1, <3>2, <3>3, <3>4, AppendPlain
    <3> QED BY <1>3, <1>4, <1>5, <2>2, <3>5 DEF Link
  <2> QED BY <2>1, <2>2
<1>11. Link(tun[q], wire'[q], t, Shut(k))
  <2>1. sock[p].got \in Seq(Nat) /\ sock[p].out \in Seq(Nat)
        /\ tun[p].rbuf \in Seq(Nat)
    BY <1>2 DEF Tunnel, Socket
  <2>2. InOrder(sock[p].got, <<>>, <<>>)
    BY <1>3, <2>1, ShortInOrder
  <2>3. Shut(k).out = <<>>
    BY <1>4 DEF Receiver, t
  <2> QED BY <1>4, <2>2, <2>3 DEF Link
<1>12. tun[q].closed => wire'[p] = <<>>
  BY <1>5
<1>13. Receiver(t, Shut(k))
  BY DEF t
<1>14. IInv'
  BY <1>1, <1>3, <1>4, <1>5, <1>6, <1>7, <1>9, <1>10, <1>11, <1>12, <1>13,
     Assemble
<1> QED BY <1>5, <1>14

-----------------------------------------------------------------------------
(* What a step means for the two streams.                                  *)

\* A socket goes on from k to k2 with nothing written, ended or given.
Keeps(k, k2) == k2.made = k.made /\ k2.fin = k.fin /\ k2.got = k.got

\* The steps of the stream side p's application writes and of the one it is
\* given, one at a time.
Moves(p) ==
  LET k == sock[p]  k2 == sock'[p]  s == sock[Other(p)] IN
  \/ Keeps(k, k2) /\ k2.over = k.over
  \/ /\ Keeps(k, k2) /\ k.over = "no" /\ k2.over = "cut"
     /\ broken' \/ \A r \in Sides : sock[r].fin
  \/ /\ Keeps(k, k2) /\ k.over = "no" /\ k2.over = "eof"
     /\ s.fin /\ Len(k.got) = s.made
  \/ /\ ~k.fin /\ k2.made = k.made + 1
     /\ k2.fin = k.fin /\ k2.got = k.got /\ k2.over = k.over
  \/ /\ ~k.fin /\ k2.fin = TRUE
     /\ k2.made = k.made /\ k2.got = k.got /\ k2.over = k.over
  \/ /\ k.over = "no" /\ Len(k.got) < s.made
     /\ k2.got = Append(k.got, Len(k.got) + 1)
     /\ k2.made = k.made /\ k2.fin = k.fin /\ k2.over = k.over

Advances(p) == Moves(p) /\ sock'[Other(p)] = sock[Other(p)]

(* What the invariant says of the side a step is taken by.                 *)
LEMMA SideFacts ==
  ASSUME IInv, NEW p \in Sides
  PROVE  LET q == Other(p) IN
         /\ Shapes /\ q \in Sides /\ q # p /\ Sides = {p, q} /\ Other(q) = p
         /\ tun[p] \in Tunnel /\ sock[p] \in Socket
         /\ tun[q] \in Tunnel /\ sock[q] \in Socket
         /\ wire[p] \in Seq(Message) /\ wire[q] \in Seq(Message)
         /\ Sender(p, tun[p], sock[p]) /\ Receiver(tun[p], sock[p])
         /\ Sender(q, tun[q], sock[q]) /\ Receiver(tun[q], sock[q])
         /\ Link(tun[p], wire[p], tun[q], sock[q])
         /\ Link(tun[q], wire[q], tun[p], sock[p])
         /\ (tun[p].closed => wire[q] = <<>>)
         /\ (~tun[p].closed => ~(tun[p].finished /\ tun[p].ended))
         /\ (p = "sub" => sock[p].state \in {"open", "dead"})
         /\ (sock[p].state = "dead" => Ended)
         /\ Taken(p, wire) /\ broken \in BOOLEAN
<1> DEFINE q == Other(p)
<1>1. q \in Sides /\ q # p /\ Sides = {p, q} /\ Other(q) = p
  BY TwoSides
<1>2. /\ Shapes /\ tun[p] \in Tunnel /\ sock[p] \in Socket
      /\ tun[q] \in Tunnel /\ sock[q] \in Socket
      /\ wire[p] \in Seq(Message) /\ wire[q] \in Seq(Message)
      /\ Taken(p, wire) /\ broken \in BOOLEAN
  BY <1>1 DEF IInv, Shapes, Taken
<1>3. /\ Sender(p, tun[p], sock[p]) /\ Receiver(tun[p], sock[p])
      /\ Sender(q, tun[q], sock[q]) /\ Receiver(tun[q], sock[q])
      /\ Link(tun[p], wire[p], tun[q], sock[q])
  BY <1>1 DEF IInv
<1>4. Link(tun[q], wire[q], tun[p], sock[p])
  <2>1. \A r \in Sides : Link(tun[r], wire[r], tun[Other(r)], sock[Other(r)])
    BY DEF IInv
  <2>2. Link(tun[q], wire[q], tun[Other(q)], sock[Other(q)])
    BY <1>1, <2>1
  <2> QED BY <1>1, <2>2
<1>5. /\ (tun[p].closed => wire[q] = <<>>)
      /\ (~tun[p].closed => ~(tun[p].finished /\ tun[p].ended))
      /\ (p = "sub" => sock[p].state \in {"open", "dead"})
      /\ (sock[p].state = "dead" => Ended)
  BY DEF IInv, Closed, Handshake, HasReason
<1> QED BY <1>1, <1>2, <1>3, <1>4, <1>5

(* A step that leaves what was written, ended and given is no step of the  *)
(* streams, or cuts one.                                                   *)
LEMMA QuietStep ==
  ASSUME Shapes, NEW p \in Sides, NEW k \in Socket, NEW k2,
         sock' = [sock EXCEPT ![p] = k2],
         \/ k2 = k
         \/ k2 = Shut(k) /\ (broken' \/ \A r \in Sides : sock[r].fin),
         Keeps(sock[p], k), k.over = sock[p].over
  PROVE  Advances(p)
<1>1. sock'[p] = k2 /\ sock'[Other(p)] = sock[Other(p)]
  BY TwoSides DEF Shapes
<1>2. CASE k2 = k
  BY <1>1, <1>2 DEF Advances, Moves
<1>3. CASE k2 = Shut(k) /\ (broken' \/ \A r \in Sides : sock[r].fin)
  <2>1. Keeps(sock[p], k2)
    BY <1>3, ShutSocket DEF Keeps
  <2>2. k2.over = sock[p].over \/
          (sock[p].over = "no" /\ k2.over = "cut")
    BY <1>3, ShutSocket, KilledSocket
  <2> QED BY <1>1, <1>3, <2>1, <2>2 DEF Advances, Moves
<1> QED BY <1>2, <1>3

(* A direction whose sender says something else than a chunk or the end.   *)
LEMMA LinkSaysMore ==
  ASSUME NEW s \in Tunnel, NEW s2 \in Tunnel, NEW w \in Seq(Message),
         NEW m \in Seq(Message), NEW t \in Tunnel, NEW k \in Socket,
         Link(s, w, t, k), Plain(m), s2.sent = s.sent,
         s2.finished = s.finished
  PROVE  Link(s2, w \o m, t, k)
<1>1. s.sent \in Nat /\ s.finished \in BOOLEAN
  BY DEF Tunnel
<1>2. Held(t, k) \in Nat
  BY HeldNat
<1>3. ASSUME ~t.closed
      PROVE  /\ Carries(w \o m, Held(t, k), s.sent)
             /\ EndLast(w \o m, s.finished)
  BY <1>1, <1>2, <1>3, AppendPlain DEF Link
<1> QED BY <1>3 DEF Link

(* One whose sender says nothing.                                          *)
LEMMA LinkSaysNothing ==
  ASSUME NEW s \in Tunnel, NEW s2 \in Tunnel, NEW w \in Seq(Message),
         NEW t \in Tunnel, NEW k \in Socket,
         Link(s, w, t, k), s2.sent = s.sent, s2.finished = s.finished
  PROVE  Link(s2, w \o <<>>, t, k)
<1>1. <<>> \in Seq(Message) /\ Plain(<<>>)
  BY EmptySeq DEF Plain
<1> QED BY <1>1, LinkSaysMore

(* One whose sender sends a chunk.                                         *)
LEMMA LinkSends ==
  ASSUME NEW s \in Tunnel, NEW s2 \in Tunnel, NEW w \in Seq(Message),
         NEW t \in Tunnel, NEW k \in Socket, Link(s, w, t, k),
         ~s.finished, ~s2.finished, s2.sent = s.sent + 1
  PROVE  Link(s2, w \o <<Data(s.sent + 1)>>, t, k)
<1>1. s.sent \in Nat /\ s.finished = FALSE /\ s2.finished = FALSE
  BY DEF Tunnel
<1>2. Held(t, k) \in Nat
  BY HeldNat
<1>3. ASSUME ~t.closed
      PROVE  /\ Carries(w \o <<Data(s.sent + 1)>>, Held(t, k), s.sent + 1)
             /\ EndLast(w \o <<Data(s.sent + 1)>>, FALSE)
  <2>1. Carries(w, Held(t, k), s.sent) /\ EndLast(w, FALSE)
    BY <1>1, <1>3 DEF Link
  <2> QED BY <1>1, <1>2, <2>1, AppendData
<1> QED BY <1>1, <1>3 DEF Link

(* One whose sender sends the end.                                         *)
LEMMA LinkFinishes ==
  ASSUME NEW s \in Tunnel, NEW s2 \in Tunnel, NEW w \in Seq(Message),
         NEW t \in Tunnel, NEW k \in Socket, Link(s, w, t, k),
         s2.finished, s2.sent = s.sent
  PROVE  Link(s2, w \o <<Msg("fin")>>, t, k)
<1>1. s.sent \in Nat /\ s.finished \in BOOLEAN /\ s2.finished = TRUE
  BY DEF Tunnel
<1>2. Held(t, k) \in Nat
  BY HeldNat
<1>3. ASSUME ~t.closed
      PROVE  /\ Carries(w \o <<Msg("fin")>>, Held(t, k), s.sent)
             /\ EndLast(w \o <<Msg("fin")>>, TRUE)
  <2>1. Carries(w, Held(t, k), s.sent) /\ EndLast(w, s.finished)
    BY <1>3 DEF Link
  <2> QED BY <1>1, <1>2, <2>1, AppendFin
<1> QED BY <1>1, <1>3 DEF Link

(* One whose receiver keeps what it has.                                   *)
LEMMA LinkRests ==
  ASSUME NEW s, NEW w, NEW t, NEW k, NEW t2, NEW k2, Link(s, w, t, k),
         t2.rbuf = t.rbuf, t2.eof = t.eof, t2.closed = t.closed,
         k2.got = k.got, k2.out = k.out
  PROVE  Link(s, w, t2, k2)
BY DEF Link, Held

(* One whose receiver takes a message that is no chunk and not the end.    *)
LEMMA LinkHears ==
  ASSUME NEW s \in Tunnel, NEW w \in Seq(Message), NEW t \in Tunnel,
         NEW k \in Socket, NEW t2 \in Tunnel, NEW k2 \in Socket,
         Link(s, w, t, k), w # <<>>, w[1].type \notin {"data", "fin"},
         t2.rbuf = t.rbuf, t2.eof = t.eof, t2.closed = t.closed,
         k2.got = k.got, k2.out = k.out
  PROVE  Link(s, Tail(w), t2, k2)
<1>1. s.sent \in Nat /\ s.finished \in BOOLEAN
  BY DEF Tunnel
<1>2. Held(t, k) \in Nat
  BY HeldNat
<1>3. ASSUME ~t.closed
      PROVE  /\ Carries(Tail(w), Held(t, k), s.sent)
             /\ EndLast(Tail(w), s.finished)
  BY <1>1, <1>2, <1>3, TakePlain DEF Link
<1>4. Link(s, Tail(w), t, k)
  BY <1>3 DEF Link
<1> QED BY <1>4, LinkRests

-----------------------------------------------------------------------------
(* What the actions do to the side that takes them.                        *)

\* A side that is in order and whose tunnel lives.
Side(p, t, k) ==
  /\ t \in Tunnel /\ k \in Socket /\ ~t.closed
  /\ Sender(p, t, k) /\ Receiver(t, k)

\* It holds the chunks it held, and has sent what it had sent.
Rests(u, t, c, k) ==
  /\ t.rbuf = u.rbuf /\ t.eof = u.eof /\ t.closed = u.closed
  /\ k.got = c.got /\ k.out = c.out
Quietly(u, t) == t.sent = u.sent /\ t.finished = u.finished

(* The application's chunk waits in the queue.                             *)
LEMMA ReadsSide ==
  ASSUME NEW p \in Sides, NEW u \in Tunnel, NEW c \in Socket, Side(p, u, c),
         ~c.fin, c.made < MaxChunks[p], u.queue < QueueSize
  PROVE  LET t == [u EXCEPT !.queue = @ + 1]
             k == [c EXCEPT !.made = @ + 1]
         IN /\ Side(p, t, k) /\ Rests(u, t, c, k) /\ Quietly(u, t)
            /\ ~t.finished /\ k.made = c.made + 1 /\ k.fin = c.fin
            /\ k.over = c.over /\ k.state = c.state
<1> DEFINE t == [u EXCEPT !.queue = @ + 1]
           k == [c EXCEPT !.made = @ + 1]
<1>1. /\ u.queue \in Nat /\ u.sent \in Nat /\ c.made \in Nat
      /\ QueueSize \in Nat /\ MaxChunks[p] \in Nat
  BY TunnelAssumption DEF Tunnel, Socket
<1>2. t \in Tunnel
  BY DEF Tunnel
<1>7. k \in Socket
  BY DEF Socket
<1>3. Rests(u, t, c, k) /\ Quietly(u, t) /\ ~t.closed
  BY DEF Tunnel, Socket, Rests, Quietly, Side
<1>4. /\ ~t.finished /\ k.made = c.made + 1 /\ k.fin = c.fin
      /\ k.over = c.over /\ k.state = c.state
  BY DEF Tunnel, Socket, Side, Sender
<1>5. Sender(p, t, k)
  BY <1>1 DEF Tunnel, Socket, Side, Sender
<1>6. Receiver(t, k)
  BY DEF Tunnel, Socket, Side, Receiver
<1> QED BY <1>2, <1>3, <1>4, <1>5, <1>6, <1>7 DEF Side

(* A chunk is held.                                                        *)
LEMMA HoldsSide ==
  ASSUME NEW p \in Sides, NEW u \in Tunnel, NEW c \in Socket, Side(p, u, c),
         u.queue > 0, ~u.drain
  PROVE  LET t == [u EXCEPT !.held = TRUE]
         IN Side(p, t, c) /\ Rests(u, t, c, c) /\ Quietly(u, t) /\ ~t.finished
<1> DEFINE t == [u EXCEPT !.held = TRUE]
<1>1. t \in Tunnel
  BY DEF Tunnel
<1>2. Rests(u, t, c, c) /\ Quietly(u, t) /\ ~t.closed
  BY DEF Tunnel, Rests, Quietly, Side
<1>3. ~t.finished
  BY DEF Tunnel, Side, Sender
<1>4. Sender(p, t, c)
  BY DEF Tunnel, Side, Sender
<1>5. Receiver(t, c)
  BY DEF Tunnel, Side, Receiver
<1> QED BY <1>1, <1>2, <1>3, <1>4, <1>5 DEF Side

(* A chunk is sent.                                                        *)
LEMMA SendsSide ==
  ASSUME NEW p \in Sides, NEW u \in Tunnel, NEW c \in Socket,
         NEW d \in BOOLEAN, NEW r \in BOOLEAN, Side(p, u, c), u.queue > 0
  PROVE  LET t == [Sending(u, d) EXCEPT !.remotePaused = r]
         IN /\ Side(p, t, c) /\ Rests(u, t, c, c)
            /\ t.sent = u.sent + 1 /\ ~u.finished /\ ~t.finished
<1> DEFINE t == [Sending(u, d) EXCEPT !.remotePaused = r]
<1>1. /\ u.queue \in Nat /\ u.sent \in Nat /\ c.made \in Nat
      /\ u.queue - 1 \in Nat /\ u.sent + 1 \in Nat
      /\ QueueSize \in Nat /\ MaxChunks[p] \in Nat
  BY TunnelAssumption DEF Tunnel, Socket
<1>2. t \in Tunnel
  BY <1>1 DEF Tunnel, Sending
<1>3. Rests(u, t, c, c) /\ ~t.closed
  BY DEF Tunnel, Rests, Sending, Side
<1>4. t.sent = u.sent + 1 /\ ~u.finished /\ ~t.finished
  BY <1>1 DEF Tunnel, Sending, Side, Sender
<1>5. Sender(p, t, c)
  BY <1>1 DEF Tunnel, Sending, Side, Sender
<1>6. Receiver(t, c)
  BY DEF Tunnel, Sending, Side, Receiver
<1> QED BY <1>2, <1>3, <1>4, <1>5, <1>6 DEF Side

(* The mux has drained.                                                    *)
LEMMA DrainsSide ==
  ASSUME NEW p \in Sides, NEW u \in Tunnel, NEW c \in Socket,
         Side(p, u, c)
  PROVE  LET t == [u EXCEPT !.drain = FALSE]
         IN /\ Side(p, t, c) /\ Rests(u, t, c, c) /\ Quietly(u, t)
            /\ t.ended = u.ended
<1> DEFINE t == [u EXCEPT !.drain = FALSE]
<1>1. t \in Tunnel
  BY DEF Tunnel
<1>2. Rests(u, t, c, c) /\ Quietly(u, t) /\ ~t.closed
  BY DEF Tunnel, Rests, Quietly, Side
<1>3. t.ended = u.ended
  BY DEF Tunnel, Side, Sender, Receiver
<1>4. Sender(p, t, c)
  BY DEF Tunnel, Side, Sender
<1>5. Receiver(t, c)
  BY DEF Tunnel, Side, Receiver
<1> QED BY <1>1, <1>2, <1>3, <1>4, <1>5 DEF Side

(* The application ends its side.                                          *)
LEMMA EndsSide ==
  ASSUME NEW p \in Sides, NEW u \in Tunnel, NEW c \in Socket,
         Side(p, u, c),
         ~c.fin
  PROVE  LET t == [u EXCEPT !.ending = TRUE]
             k == [c EXCEPT !.fin = TRUE]
         IN /\ Side(p, t, k) /\ Rests(u, t, c, k) /\ Quietly(u, t)
            /\ ~t.finished /\ k.made = c.made /\ k.fin = TRUE
            /\ k.over = c.over /\ k.state = c.state
<1> DEFINE t == [u EXCEPT !.ending = TRUE]
           k == [c EXCEPT !.fin = TRUE]
<1>1. t \in Tunnel
  BY DEF Tunnel
<1>2. k \in Socket
  BY DEF Socket
<1>3. Rests(u, t, c, k) /\ Quietly(u, t) /\ ~t.closed
  BY DEF Tunnel, Socket, Rests, Quietly, Side
<1>4. ~t.finished /\ k.made = c.made /\ k.fin = TRUE
  BY DEF Tunnel, Socket, Side, Sender, Receiver
<1>5. k.over = c.over /\ k.state = c.state
  BY DEF Tunnel, Socket, Side, Sender, Receiver
<1>6. Sender(p, t, k)
  BY DEF Tunnel, Socket, Side, Sender
<1>7. Receiver(t, k)
  BY DEF Tunnel, Socket, Side, Receiver
<1> QED BY <1>1, <1>2, <1>3, <1>4, <1>5, <1>6, <1>7 DEF Side

(* Everything is written: the tunnel finishes.                             *)
LEMMA FinishesSide ==
  ASSUME NEW p \in Sides, NEW u \in Tunnel, NEW c \in Socket,
         Side(p, u, c),
         u.ending, u.queue = 0
  PROVE  LET t == [u EXCEPT !.finished = TRUE]
         IN /\ Side(p, t, c) /\ Rests(u, t, c, c)
            /\ t.finished /\ t.sent = u.sent
<1> DEFINE t == [u EXCEPT !.finished = TRUE]
<1>1. t \in Tunnel
  BY DEF Tunnel
<1>2. Rests(u, t, c, c) /\ ~t.closed
  BY DEF Tunnel, Rests, Side
<1>3. t.finished /\ t.sent = u.sent
  BY DEF Tunnel, Side, Sender, Receiver
<1>4. Sender(p, t, c)
  BY DEF Tunnel, Side, Sender
<1>5. Receiver(t, c)
  BY DEF Tunnel, Side, Receiver
<1> QED BY <1>1, <1>2, <1>3, <1>4, <1>5 DEF Side

(* A chunk moves from the tunnel to the socket.                            *)
LEMMA PipesSide ==
  ASSUME NEW p \in Sides, NEW u \in Tunnel, NEW c \in Socket,
         NEW b \in BOOLEAN, Side(p, u, c),
         c.state = "open", u.ready, u.rbuf # <<>>,
         Len(c.out) < SocketBuffer
  PROVE  LET t == [u EXCEPT !.rbuf = Tail(@), !.localPaused = b]
             k == [c EXCEPT !.out = Append(@, Head(u.rbuf))]
         IN /\ Side(p, t, k) /\ Quietly(u, t)
            /\ Keeps(c, k) /\ k.over = c.over
            /\ k.state = c.state /\ k.out = Append(c.out, Head(u.rbuf))
            /\ t.rbuf = Tail(u.rbuf) /\ t.eof = u.eof
            /\ ~t.ended
<1> DEFINE t == [u EXCEPT !.rbuf = Tail(@), !.localPaused = b]
           k == [c EXCEPT !.out = Append(@, Head(u.rbuf))]
<1>1. /\ Tail(u.rbuf) \in Seq(Nat)
      /\ Append(c.out, Head(u.rbuf)) \in Seq(Nat)
      /\ Len(Append(c.out, Head(u.rbuf))) = Len(c.out) + 1
      /\ Len(c.out) \in Nat /\ SocketBuffer \in Nat
  <2>1. u.rbuf \in Seq(Nat) /\ c.out \in Seq(Nat)
    BY DEF Tunnel, Socket
  <2>2. Head(u.rbuf) \in Nat /\ Tail(u.rbuf) \in Seq(Nat)
    BY <2>1, HeadTailProperties
  <2> QED BY <2>1, <2>2, AppendProperties, LenProperties, TunnelAssumption
<1>2. t \in Tunnel
  BY <1>1 DEF Tunnel
<1>3. k \in Socket
  BY <1>1 DEF Socket
<1>4. Quietly(u, t) /\ ~t.closed
  BY <1>1 DEF Tunnel, Socket, Quietly, Side
<1>5. Keeps(c, k) /\ k.over = c.over
  BY <1>1 DEF Tunnel, Socket, Side, Sender, Receiver, Keeps
<1>6. k.state = c.state /\ k.out = Append(c.out, Head(u.rbuf))
  BY <1>1 DEF Tunnel, Socket, Side, Sender, Receiver
<1>7. t.rbuf = Tail(u.rbuf) /\ t.eof = u.eof
  BY <1>1 DEF Tunnel, Socket, Side, Sender, Receiver
<1>8. ~t.ended
  BY <1>1 DEF Tunnel, Socket, Side, Sender, Receiver
<1>9. Sender(p, t, k)
  BY <1>1 DEF Tunnel, Socket, Side, Sender
<1>10. Receiver(t, k)
  BY <1>1 DEF Tunnel, Socket, Side, Receiver
<1> QED BY <1>1, <1>2, <1>3, <1>4, <1>5, <1>6, <1>7, <1>8, <1>9, <1>10 DEF Side

(* The pipe ends the socket.                                               *)
LEMMA PipeEndsSide ==
  ASSUME NEW p \in Sides, NEW u \in Tunnel, NEW c \in Socket,
         Side(p, u, c),
         c.state = "open", u.ready, u.eof, u.rbuf = <<>>
  PROVE  LET t == [u EXCEPT !.ended = TRUE]
             k == [c EXCEPT !.end = TRUE]
         IN /\ Side(p, t, k) /\ Rests(u, t, c, k) /\ Quietly(u, t)
            /\ Keeps(c, k) /\ k.over = c.over
            /\ k.state = c.state
<1> DEFINE t == [u EXCEPT !.ended = TRUE]
           k == [c EXCEPT !.end = TRUE]
<1>1. t \in Tunnel
  BY DEF Tunnel
<1>2. k \in Socket
  BY DEF Socket
<1>3. Rests(u, t, c, k) /\ Quietly(u, t) /\ ~t.closed
  BY DEF Tunnel, Socket, Rests, Quietly, Side
<1>4. Keeps(c, k) /\ k.over = c.over
  BY DEF Tunnel, Socket, Side, Sender, Receiver, Keeps
<1>5. k.state = c.state
  BY DEF Tunnel, Socket, Side, Sender, Receiver
<1>6. Sender(p, t, k)
  BY DEF Tunnel, Socket, Side, Sender
<1>7. Receiver(t, k)
  BY DEF Tunnel, Socket, Side, Receiver
<1> QED BY <1>1, <1>2, <1>3, <1>4, <1>5, <1>6, <1>7 DEF Side

(* The target connects.                                                    *)
LEMMA ConnectsSide ==
  ASSUME NEW p \in Sides, NEW u \in Tunnel, NEW c \in Socket,
         Side(p, u, c),
         c.state = "connecting"
  PROVE  LET t == [u EXCEPT !.ready = TRUE]
             k == [c EXCEPT !.state = "open"]
         IN /\ Side(p, t, k) /\ Rests(u, t, c, k) /\ Quietly(u, t)
            /\ Keeps(c, k) /\ k.over = c.over
            /\ k.state = "open"
            /\ t.ended = u.ended
<1> DEFINE t == [u EXCEPT !.ready = TRUE]
           k == [c EXCEPT !.state = "open"]
<1>1. t \in Tunnel
  BY DEF Tunnel
<1>2. k \in Socket
  BY DEF Socket
<1>3. Rests(u, t, c, k) /\ Quietly(u, t) /\ ~t.closed
  BY DEF Tunnel, Socket, Rests, Quietly, Side
<1>4. Keeps(c, k) /\ k.over = c.over
  BY DEF Tunnel, Socket, Side, Sender, Receiver, Keeps
<1>5. k.state = "open"
  BY DEF Tunnel, Socket, Side, Sender, Receiver
<1>6. t.ended = u.ended
  BY DEF Tunnel, Socket, Side, Sender, Receiver
<1>7. Sender(p, t, k)
  BY DEF Tunnel, Socket, Side, Sender
<1>8. Receiver(t, k)
  BY DEF Tunnel, Socket, Side, Receiver
<1> QED BY <1>1, <1>2, <1>3, <1>4, <1>5, <1>6, <1>7, <1>8 DEF Side

(* The publisher begins to connect.                                        *)
LEMMA OpensSide ==
  ASSUME NEW p \in Sides, NEW u \in Tunnel, NEW c \in Socket,
         Side(p, u, c),
         c.state = "none"
  PROVE  LET k == [c EXCEPT !.state = "connecting"]
         IN /\ Side(p, u, k) /\ Rests(u, u, c, k) /\ Quietly(u, u)
            /\ Keeps(c, k) /\ k.over = c.over
            /\ k.state = "connecting"
<1> DEFINE k == [c EXCEPT !.state = "connecting"]
<1>1. k \in Socket
  BY DEF Socket
<1>2. Rests(u, u, c, k) /\ Quietly(u, u) /\ ~u.closed
  BY DEF Tunnel, Socket, Rests, Quietly, Side
<1>3. Keeps(c, k) /\ k.over = c.over
  BY DEF Tunnel, Socket, Side, Sender, Receiver, Keeps
<1>4. k.state = "connecting"
  BY DEF Tunnel, Socket, Side, Sender, Receiver
<1>5. Sender(p, u, k)
  BY DEF Tunnel, Socket, Side, Sender
<1>6. Receiver(u, k)
  BY DEF Tunnel, Socket, Side, Receiver
<1> QED BY <1>1, <1>2, <1>3, <1>4, <1>5, <1>6 DEF Side

(* The tunnel is ready for its socket.                                     *)
LEMMA ReadySide ==
  ASSUME NEW p \in Sides, NEW u \in Tunnel, NEW c \in Socket,
         Side(p, u, c),
         c.state = "open"
  PROVE  LET t == [u EXCEPT !.ready = TRUE]
         IN /\ Side(p, t, c) /\ Rests(u, t, c, c) /\ Quietly(u, t)
            /\ t.ended = u.ended
<1> DEFINE t == [u EXCEPT !.ready = TRUE]
<1>1. t \in Tunnel
  BY DEF Tunnel
<1>2. Rests(u, t, c, c) /\ Quietly(u, t) /\ ~t.closed
  BY DEF Tunnel, Rests, Quietly, Side
<1>3. t.ended = u.ended
  BY DEF Tunnel, Side, Sender, Receiver
<1>4. Sender(p, t, c)
  BY DEF Tunnel, Side, Sender
<1>5. Receiver(t, c)
  BY DEF Tunnel, Side, Receiver
<1> QED BY <1>1, <1>2, <1>3, <1>4, <1>5 DEF Side

(* A chunk is received.                                                    *)
LEMMA PushesSide ==
  ASSUME NEW p \in Sides, NEW u \in Tunnel, NEW c \in Socket,
         NEW n \in Nat, Side(p, u, c),
         ~u.eof
  PROVE  LET t == Pushed(u, n)
         IN /\ Side(p, t, c) /\ Quietly(u, t)
            /\ t.rbuf = Append(u.rbuf, n) /\ t.eof = u.eof
            /\ ~t.ended
<1> DEFINE t == Pushed(u, n)
<1>1. Append(u.rbuf, n) \in Seq(Nat)
  <2>1. u.rbuf \in Seq(Nat)
    BY DEF Tunnel
  <2> QED BY <2>1, AppendProperties
<1>2. t \in Tunnel
  BY <1>1 DEF Tunnel, Pushed
<1>3. Quietly(u, t) /\ ~t.closed
  BY <1>1 DEF Tunnel, Quietly, Side, Pushed
<1>4. t.rbuf = Append(u.rbuf, n) /\ t.eof = u.eof
  BY <1>1 DEF Tunnel, Side, Sender, Receiver, Pushed
<1>5. ~t.ended
  BY <1>1 DEF Tunnel, Side, Sender, Receiver, Pushed
<1>6. Sender(p, t, c)
  BY <1>1 DEF Tunnel, Side, Sender, Pushed
<1>7. Receiver(t, c)
  BY <1>1 DEF Tunnel, Side, Receiver, Pushed
<1> QED BY <1>1, <1>2, <1>3, <1>4, <1>5, <1>6, <1>7 DEF Side

(* The end of the stream is received.                                      *)
LEMMA EofSide ==
  ASSUME NEW p \in Sides, NEW u \in Tunnel, NEW c \in Socket,
         Side(p, u, c)
  PROVE  LET t == [u EXCEPT !.eof = TRUE]
         IN /\ Side(p, t, c) /\ Quietly(u, t)
            /\ t.rbuf = u.rbuf /\ t.eof
            /\ t.ended = u.ended
<1> DEFINE t == [u EXCEPT !.eof = TRUE]
<1>1. t \in Tunnel
  BY DEF Tunnel
<1>2. Quietly(u, t) /\ ~t.closed
  BY DEF Tunnel, Quietly, Side
<1>3. t.rbuf = u.rbuf /\ t.eof
  BY DEF Tunnel, Side, Sender, Receiver
<1>4. t.ended = u.ended
  BY DEF Tunnel, Side, Sender, Receiver
<1>5. Sender(p, t, c)
  BY DEF Tunnel, Side, Sender
<1>6. Receiver(t, c)
  BY DEF Tunnel, Side, Receiver
<1> QED BY <1>1, <1>2, <1>3, <1>4, <1>5, <1>6 DEF Side

(* The peer pauses or resumes.                                             *)
LEMMA PauseSide ==
  ASSUME NEW p \in Sides, NEW u \in Tunnel, NEW c \in Socket,
         NEW b \in BOOLEAN, Side(p, u, c)
  PROVE  LET t == [u EXCEPT !.remotePaused = b]
         IN /\ Side(p, t, c) /\ Rests(u, t, c, c) /\ Quietly(u, t)
            /\ t.ended = u.ended
<1> DEFINE t == [u EXCEPT !.remotePaused = b]
<1>1. t \in Tunnel
  BY DEF Tunnel
<1>2. Rests(u, t, c, c) /\ Quietly(u, t) /\ ~t.closed
  BY DEF Tunnel, Rests, Quietly, Side
<1>3. t.ended = u.ended
  BY DEF Tunnel, Side, Sender, Receiver
<1>4. Sender(p, t, c)
  BY DEF Tunnel, Side, Sender
<1>5. Receiver(t, c)
  BY DEF Tunnel, Side, Receiver
<1> QED BY <1>1, <1>2, <1>3, <1>4, <1>5 DEF Side

-----------------------------------------------------------------------------
(* The actions.                                                            *)

(* Sending nothing leaves nothing on the wire.                             *)
LEMMA Nothing ==
  /\ <<>> \in Seq(Message) /\ Plain(<<>>)
  /\ \A ty : Only(<<>>, ty)
BY EmptySeq DEF Plain, Only

Speech == {"data", "fin", "pause", "resume"}

(* A side that takes nothing from the wire goes on.                        *)
LEMMA SideGoesOn ==
  ASSUME IInv, NEW p \in Sides, NEW t, NEW k, NEW m \in Seq(Message),
         Step(p, t, k, wire, m), UNCHANGED broken,
         ~tun[p].closed, Side(p, t, k), Only(m, Speech),
         Link(t, wire[p] \o m, tun[Other(p)], sock[Other(p)]),
         Link(tun[Other(p)], wire[Other(p)], t, k),
         sock[p].fin => k.fin, k.state = sock[p].state
  PROVE  /\ IInv'
         /\ sock' = [sock EXCEPT ![p] = IF t.finished /\ t.ended
                                        THEN Shut(k) ELSE k]
         /\ (t.finished /\ t.ended => k.fin /\ sock[Other(p)].fin)
<1>1. /\ Taken(p, wire) /\ broken \in BOOLEAN
      /\ (p = "sub" => sock[p].state \in {"open", "dead"})
  BY SideFacts
<1>2. broken' \in BOOLEAN /\ (broken => broken')
  BY <1>1
<1>3. \A i \in 1..Len(m) : /\ m[i].type \notin Enders \cup {"open"}
                           /\ p = "sub" => m[i].type # "ok"
  BY DEF Only, Speech, Enders
<1>4. k.state = "dead" => sock[p].state = "dead" \/ broken'
  OBVIOUS
<1>5. p = "sub" => k.state \in {"open", "dead"}
  BY <1>1
<1>6. sock[p].state = "none" =>
        k.state = "none" \/ wire[Other(p)] # wire[Other(p)]
  OBVIOUS
<1>7. /\ t \in Tunnel /\ k \in Socket /\ ~t.closed
      /\ Sender(p, t, k) /\ Receiver(t, k)
  BY DEF Side
<1> QED BY <1>1, <1>2, <1>3, <1>4, <1>5, <1>6, <1>7, StepKeeps

(* The side that takes a step is in order, and lives if its tunnel does.   *)
LEMMA LiveSide ==
  ASSUME IInv, NEW p \in Sides, ~tun[p].closed
  PROVE  /\ Side(p, tun[p], sock[p])
         /\ ~(tun[p].finished /\ tun[p].ended)
BY SideFacts DEF Side

(* It goes on with what it holds and what it has sent.                     *)
LEMMA SideRests ==
  ASSUME IInv, NEW p \in Sides, NEW t, NEW k, Step(p, t, k, wire, <<>>),
         UNCHANGED broken, ~tun[p].closed, Side(p, t, k),
         Rests(tun[p], t, sock[p], k), Quietly(tun[p], t),
         sock[p].fin => k.fin, k.state = sock[p].state
  PROVE  /\ IInv'
         /\ sock' = [sock EXCEPT ![p] = IF t.finished /\ t.ended
                                        THEN Shut(k) ELSE k]
         /\ (t.finished /\ t.ended => k.fin /\ sock[Other(p)].fin)
<1> DEFINE q == Other(p)
<1>1. /\ tun[p] \in Tunnel /\ tun[q] \in Tunnel /\ sock[q] \in Socket
      /\ wire[p] \in Seq(Message)
      /\ Link(tun[p], wire[p], tun[q], sock[q])
      /\ Link(tun[q], wire[q], tun[p], sock[p])
  BY SideFacts
<1>2. t \in Tunnel
  BY DEF Side
<1>3. Link(t, wire[p] \o <<>>, tun[q], sock[q])
  BY <1>1, <1>2, LinkSaysNothing DEF Quietly
<1>4. Link(tun[q], wire[q], t, k)
  BY <1>1, LinkRests DEF Rests
<1> QED BY <1>3, <1>4, Nothing, SideGoesOn

(* The application writes a chunk.                                         *)
LEMMA SocketReadsStep ==
  ASSUME IInv, NEW p \in Sides, SocketReads(p)
  PROVE  IInv' /\ Advances(p)
<1> DEFINE t == [tun[p] EXCEPT !.queue = @ + 1]
           k == [sock[p] EXCEPT !.made = @ + 1]
<1>1. /\ Step(p, t, k, wire, <<>>) /\ UNCHANGED broken
      /\ ~tun[p].closed /\ ~sock[p].fin /\ sock[p].made < MaxChunks[p]
      /\ tun[p].queue + (IF tun[p].drain THEN 1 ELSE 0) < QueueSize
  BY DEF SocketReads, Bridged
<1>2. /\ tun[p] \in Tunnel /\ sock[p] \in Socket /\ Shapes
      /\ Side(p, tun[p], sock[p])
  BY <1>1, SideFacts, LiveSide
<1>3. tun[p].queue < QueueSize
  <2>1. tun[p].queue \in Nat /\ QueueSize \in Nat
    BY <1>2, TunnelAssumption DEF Tunnel
  <2> QED BY <1>1, <2>1
<1>4. /\ Side(p, t, k) /\ Rests(tun[p], t, sock[p], k) /\ Quietly(tun[p], t)
      /\ ~t.finished /\ k.made = sock[p].made + 1 /\ k.fin = sock[p].fin
      /\ k.over = sock[p].over /\ k.state = sock[p].state
  BY <1>1, <1>2, <1>3, ReadsSide
<1> HIDE DEF t, k
<1>5. IInv' /\ sock' = [sock EXCEPT ![p] = k]
  BY <1>1, <1>4, SideRests
<1>6. sock'[p] = k /\ sock'[Other(p)] = sock[Other(p)]
  BY <1>2, <1>5, TwoSides DEF Shapes
<1>7. k.got = sock[p].got
  BY <1>4 DEF Rests
<1> QED BY <1>1, <1>4, <1>5, <1>6, <1>7 DEF Advances, Moves

(* A write is held for a paused peer, or sent.                             *)
LEMMA WriteStep ==
  ASSUME IInv, NEW p \in Sides, Write(p)
  PROVE  IInv' /\ Advances(p)
<1> DEFINE q == Other(p)
           k == sock[p]
<1>1. UNCHANGED broken /\ tun[p].queue > 0 /\ ~tun[p].drain
  BY DEF Write, MayWrite, Writing
<1>2. /\ tun[p] \in Tunnel /\ k \in Socket /\ Shapes
      /\ tun[q] \in Tunnel /\ sock[q] \in Socket
      /\ wire[p] \in Seq(Message) /\ Sender(p, tun[p], k)
      /\ Link(tun[p], wire[p], tun[q], sock[q])
      /\ Link(tun[q], wire[q], tun[p], k)
  BY SideFacts
<1>3. ~tun[p].closed
  BY <1>1, <1>2 DEF Sender
<1>4. Side(p, tun[p], k)
  BY <1>3, LiveSide
<1>5. CASE tun[p].remotePaused
  <2> DEFINE t == [tun[p] EXCEPT !.held = TRUE]
  <2>1. Step(p, t, k, wire, <<>>)
    BY <1>5 DEF Write
  <2>2. /\ Side(p, t, k) /\ Rests(tun[p], t, k, k) /\ Quietly(tun[p], t)
        /\ ~t.finished
    BY <1>1, <1>2, <1>4, HoldsSide
  <2> HIDE DEF t
  <2>3. IInv' /\ sock' = [sock EXCEPT ![p] = k]
    BY <1>1, <1>3, <2>1, <2>2, SideRests
  <2> QED BY <1>2, <2>3, QuietStep DEF Keeps
<1>6. CASE ~tun[p].remotePaused
  <2>1. PICK d \in BOOLEAN :
          Step(p, Sending(tun[p], d), k, wire, <<Data(tun[p].sent + 1)>>)
    BY <1>6 DEF Write
  <2> DEFINE t == [Sending(tun[p], d) EXCEPT
                     !.remotePaused = tun[p].remotePaused]
             m == <<Data(tun[p].sent + 1)>>
  <2>2. t = Sending(tun[p], d)
    BY <1>2 DEF Tunnel, Sending
  <2>3. /\ Side(p, t, k) /\ Rests(tun[p], t, k, k)
        /\ t.sent = tun[p].sent + 1 /\ ~tun[p].finished /\ ~t.finished
    <3>1. tun[p].remotePaused \in BOOLEAN
      BY <1>2 DEF Tunnel
    <3> QED BY <1>1, <1>2, <1>4, <3>1, SendsSide
  <2>4. m \in Seq(Message) /\ Only(m, Speech)
    <3>1. tun[p].sent + 1 \in Nat
      BY <1>2 DEF Tunnel
    <3> QED BY <3>1, MessageTypes, OneMessage DEF Only, Speech
  <2>5. Step(p, t, k, wire, m)
    BY <2>1, <2>2
  <2> HIDE DEF t
  <2>6. Link(t, wire[p] \o m, tun[q], sock[q])
    BY <1>2, <2>3, LinkSends DEF Side
  <2> HIDE DEF m
  <2>7. Link(tun[q], wire[q], t, k)
    BY <1>2, <2>3, LinkRests DEF Rests
  <2>8. IInv' /\ sock' = [sock EXCEPT ![p] = k]
    BY <1>1, <1>3, <2>3, <2>4, <2>5, <2>6, <2>7, SideGoesOn
  <2> QED BY <1>2, <2>8, QuietStep DEF Keeps
<1> QED BY <1>5, <1>6

(* The mux has drained.                                                    *)
LEMMA DrainStep ==
  ASSUME IInv, NEW p \in Sides, Drain(p)
  PROVE  IInv' /\ Advances(p)
<1> DEFINE t == [tun[p] EXCEPT !.drain = FALSE]
           k == sock[p]
<1>1. Step(p, t, k, wire, <<>>) /\ UNCHANGED broken /\ tun[p].drain
  BY DEF Drain
<1>2. /\ tun[p] \in Tunnel /\ k \in Socket /\ Shapes /\ Sender(p, tun[p], k)
  BY SideFacts
<1>3. ~tun[p].closed
  BY <1>1, <1>2 DEF Sender
<1>4. Side(p, tun[p], k) /\ ~(tun[p].finished /\ tun[p].ended)
  BY <1>3, LiveSide
<1>5. /\ Side(p, t, k) /\ Rests(tun[p], t, k, k) /\ Quietly(tun[p], t)
      /\ t.ended = tun[p].ended
  BY <1>2, <1>4, DrainsSide
<1> HIDE DEF t
<1>6. ~(t.finished /\ t.ended)
  BY <1>4, <1>5 DEF Quietly
<1>7. IInv' /\ sock' = [sock EXCEPT ![p] = k]
  BY <1>1, <1>3, <1>5, <1>6, SideRests
<1> QED BY <1>2, <1>7, QuietStep DEF Keeps

(* The application ends its side.                                          *)
LEMMA SocketEndsStep ==
  ASSUME IInv, NEW p \in Sides, SocketEnds(p)
  PROVE  IInv' /\ Advances(p)
<1> DEFINE t == [tun[p] EXCEPT !.ending = TRUE]
           k == [sock[p] EXCEPT !.fin = TRUE]
<1>1. /\ Step(p, t, k, wire, <<>>) /\ UNCHANGED broken
      /\ ~tun[p].closed /\ ~sock[p].fin
  BY DEF SocketEnds, Bridged
<1>2. /\ tun[p] \in Tunnel /\ sock[p] \in Socket /\ Shapes
      /\ Side(p, tun[p], sock[p])
  BY <1>1, SideFacts, LiveSide
<1>3. /\ Side(p, t, k) /\ Rests(tun[p], t, sock[p], k) /\ Quietly(tun[p], t)
      /\ ~t.finished /\ k.made = sock[p].made /\ k.fin = TRUE
      /\ k.over = sock[p].over /\ k.state = sock[p].state
  BY <1>1, <1>2, EndsSide
<1> HIDE DEF t, k
<1>4. IInv' /\ sock' = [sock EXCEPT ![p] = k]
  BY <1>1, <1>3, SideRests
<1>5. sock'[p] = k /\ sock'[Other(p)] = sock[Other(p)]
  BY <1>2, <1>4, TwoSides DEF Shapes
<1>6. k.got = sock[p].got
  BY <1>3 DEF Rests
<1> QED BY <1>1, <1>3, <1>4, <1>5, <1>6 DEF Advances, Moves

(* The tunnel finishes, and destroys itself if it has ended.               *)
LEMMA FinalStep ==
  ASSUME IInv, NEW p \in Sides, Final(p)
  PROVE  IInv' /\ Advances(p)
<1> DEFINE q == Other(p)
           t == [tun[p] EXCEPT !.finished = TRUE]
           k == sock[p]
           m == <<Msg("fin")>>
<1>1. /\ Step(p, t, k, wire, m) /\ UNCHANGED broken
      /\ tun[p].ending /\ ~tun[p].closed /\ tun[p].queue = 0
  BY DEF Final, MayFinish, AllWritten
<1>2. /\ tun[p] \in Tunnel /\ k \in Socket /\ Shapes
      /\ tun[q] \in Tunnel /\ sock[q] \in Socket /\ q \in Sides
      /\ Sides = {p, q} /\ wire[p] \in Seq(Message)
      /\ Link(tun[p], wire[p], tun[q], sock[q])
      /\ Link(tun[q], wire[q], tun[p], k)
  BY SideFacts
<1>3. /\ Side(p, t, k) /\ Rests(tun[p], t, k, k)
      /\ t.finished /\ t.sent = tun[p].sent
  BY <1>1, <1>2, LiveSide, FinishesSide
<1> HIDE DEF t
<1>4. Link(t, wire[p] \o m, tun[q], sock[q])
  BY <1>2, <1>3, LinkFinishes DEF Side
<1>5. Link(tun[q], wire[q], t, k)
  BY <1>2, <1>3, LinkRests DEF Rests
<1>6. m \in Seq(Message) /\ Only(m, Speech)
  BY MessageTypes, OneMessage DEF Only, Speech, Types
<1> HIDE DEF m
<1>7. /\ IInv'
      /\ sock' = [sock EXCEPT ![p] = IF t.finished /\ t.ended
                                     THEN Shut(k) ELSE k]
      /\ (t.finished /\ t.ended => k.fin /\ sock[q].fin)
  BY <1>1, <1>3, <1>4, <1>5, <1>6, SideGoesOn
<1> DEFINE k2 == IF t.finished /\ t.ended THEN Shut(k) ELSE k
<1>8. \/ k2 = k
      \/ k2 = Shut(k) /\ (broken' \/ \A r \in Sides : sock[r].fin)
  BY <1>2, <1>7
<1> QED BY <1>2, <1>7, <1>8, QuietStep DEF Keeps

(* The tunnel's end ends the socket, and the tunnel itself if it has       *)
(* finished.                                                               *)
LEMMA PipeEndsStep ==
  ASSUME IInv, NEW p \in Sides, PipeEnds(p)
  PROVE  IInv' /\ Advances(p)
<1> DEFINE q == Other(p)
           t == [tun[p] EXCEPT !.ended = TRUE]
           k == [sock[p] EXCEPT !.end = TRUE]
<1>1. /\ Step(p, t, k, wire, <<>>) /\ UNCHANGED broken
      /\ tun[p].ready /\ ~tun[p].closed /\ sock[p].state = "open"
      /\ tun[p].eof /\ tun[p].rbuf = <<>>
  BY DEF PipeEnds, MayEnd, Bridged
<1>2. /\ tun[p] \in Tunnel /\ sock[p] \in Socket /\ Shapes
      /\ q \in Sides /\ Sides = {p, q}
  BY SideFacts
<1>3. /\ Side(p, t, k) /\ Rests(tun[p], t, sock[p], k) /\ Quietly(tun[p], t)
      /\ Keeps(sock[p], k) /\ k.over = sock[p].over
      /\ k.state = sock[p].state
  BY <1>1, <1>2, LiveSide, PipeEndsSide
<1> HIDE DEF t, k
<1>4. /\ IInv'
      /\ sock' = [sock EXCEPT ![p] = IF t.finished /\ t.ended
                                     THEN Shut(k) ELSE k]
      /\ (t.finished /\ t.ended => k.fin /\ sock[q].fin)
  BY <1>1, <1>3, SideRests DEF Keeps
<1> DEFINE k2 == IF t.finished /\ t.ended THEN Shut(k) ELSE k
<1>5. k.fin = sock[p].fin
  BY <1>3 DEF Keeps
<1>6. \/ k2 = k
      \/ k2 = Shut(k) /\ (broken' \/ \A r \in Sides : sock[r].fin)
  BY <1>2, <1>4, <1>5
<1> QED BY <1>2, <1>3, <1>4, <1>6, QuietStep DEF Side

(* A direction whose receiver moves a chunk to the socket.                 *)
LEMMA LinkPipes ==
  ASSUME NEW s, NEW w, NEW t \in Tunnel, NEW k \in Socket, NEW t2, NEW k2,
         Link(s, w, t, k), t.rbuf # <<>>, t2.rbuf = Tail(t.rbuf),
         t2.eof = t.eof, t2.closed = t.closed,
         k2.got = k.got, k2.out = Append(k.out, Head(t.rbuf))
  PROVE  Link(s, w, t2, k2)
<1>1. k.got \in Seq(Nat) /\ k.out \in Seq(Nat) /\ t.rbuf \in Seq(Nat)
  BY DEF Tunnel, Socket
<1>2. InOrder(k.got, k.out, t.rbuf)
  BY DEF Link
<1>3. /\ InOrder(k2.got, k2.out, t2.rbuf)
      /\ Len(k2.out) = Len(k.out) + 1 /\ Len(t2.rbuf) = Len(t.rbuf) - 1
  BY <1>1, <1>2, MoveInOrder
<1>4. Len(k.got) \in Nat /\ Len(k.out) \in Nat /\ Len(t.rbuf) \in Nat
  BY HeldNat
<1>5. Held(t2, k2) = Held(t, k)
  <2>1. Len(k2.got) = Len(k.got)
    OBVIOUS
  <2>2. \A x, y, z \in Nat : x + (y + 1) + (z - 1) = x + y + z
    OBVIOUS
  <2>3. Len(k.got) + (Len(k.out) + 1) + (Len(t.rbuf) - 1)
          = Len(k.got) + Len(k.out) + Len(t.rbuf)
    BY <1>4, <2>2
  <2>4. /\ Held(t2, k2) = Len(k2.got) + Len(k2.out) + Len(t2.rbuf)
        /\ Held(t, k) = Len(k.got) + Len(k.out) + Len(t.rbuf)
    BY DEF Held
  <2> QED BY <1>3, <2>1, <2>3, <2>4
<1> QED BY <1>3, <1>5 DEF Link

\* The application is given the chunk that is due.
Given(c, k) == k.got = Append(c.got, Len(c.got) + 1)

(* One whose receiver is given a chunk.                                    *)
LEMMA LinkGives ==
  ASSUME NEW s \in Tunnel, NEW w, NEW t \in Tunnel, NEW k \in Socket, NEW k2,
         Link(s, w, t, k), ~t.closed, k.out # <<>>,
         k2.got = Append(k.got, Head(k.out)), k2.out = Tail(k.out)
  PROVE  /\ Link(s, w, t, k2)
         /\ Given(k, k2) /\ Len(k.got) < s.sent
         /\ k2.got \in Seq(Nat) /\ k2.out \in Seq(Nat)
         /\ Len(k2.out) = Len(k.out) - 1
<1>1. k.got \in Seq(Nat) /\ k.out \in Seq(Nat) /\ t.rbuf \in Seq(Nat)
      /\ s.sent \in Nat
  BY DEF Tunnel, Socket
<1>2. InOrder(k.got, k.out, t.rbuf)
  BY DEF Link
<1>3. /\ InOrder(k2.got, k2.out, t.rbuf)
      /\ k2.got \in Seq(Nat) /\ k2.out \in Seq(Nat)
      /\ Len(k2.got) = Len(k.got) + 1 /\ Len(k2.out) = Len(k.out) - 1
      /\ Head(k.out) = Len(k.got) + 1
  BY <1>1, <1>2, GiveInOrder
<1>4. /\ Len(k.got) \in Nat /\ Len(k.out) \in Nat \ {0}
      /\ Len(t.rbuf) \in Nat
  BY <1>1, HeldNat, EmptySeq
<1>5. Held(t, k2) = Held(t, k)
  <2>1. \A x, y, z \in Nat : (x + 1) + (y - 1) + z = x + y + z
    OBVIOUS
  <2>2. (Len(k.got) + 1) + (Len(k.out) - 1) + Len(t.rbuf)
          = Len(k.got) + Len(k.out) + Len(t.rbuf)
    BY <1>4, <2>1
  <2>3. /\ Held(t, k2) = Len(k2.got) + Len(k2.out) + Len(t.rbuf)
        /\ Held(t, k) = Len(k.got) + Len(k.out) + Len(t.rbuf)
    BY DEF Held
  <2> QED BY <1>3, <2>2, <2>3
<1>6. Len(k.got) < s.sent
  <2>1. Held(t, k) <= s.sent
    BY DEF Link, Carries
  <2>2. \A x, y, z, n \in Nat : x + y + z <= n /\ y # 0 => x < n
    OBVIOUS
  <2> QED BY <1>1, <1>4, <2>1, <2>2 DEF Held
<1>7. Given(k, k2)
  BY <1>3 DEF Given
<1> QED BY <1>3, <1>5, <1>6, <1>7 DEF Link

(* One whose receiver takes the chunk that is due.                         *)
LEMMA LinkTakes ==
  ASSUME NEW s \in Tunnel, NEW w \in Seq(Message), NEW t \in Tunnel,
         NEW k \in Socket, Link(s, w, t, k), ~t.closed, w # <<>>,
         w[1].type = "data"
  PROVE  /\ ~t.eof /\ w[1].chunk \in Nat
         /\ \A t2 : t2.rbuf = Append(t.rbuf, w[1].chunk) /\ t2.eof = t.eof
                    /\ t2.closed = t.closed => Link(s, Tail(w), t2, k)
<1>1. k.got \in Seq(Nat) /\ k.out \in Seq(Nat) /\ t.rbuf \in Seq(Nat)
      /\ s.sent \in Nat /\ s.finished \in BOOLEAN
  BY DEF Tunnel, Socket
<1>2. /\ InOrder(k.got, k.out, t.rbuf) /\ EndLast(w, s.finished)
      /\ Carries(w, Held(t, k), s.sent)
      /\ (t.eof => Held(t, k) = s.sent)
  BY DEF Link
<1>3. Held(t, k) \in Nat
  BY HeldNat
<1>4. /\ w[1].chunk = Held(t, k) + 1 /\ Held(t, k) + 1 <= s.sent
      /\ Carries(Tail(w), Held(t, k) + 1, s.sent)
  BY <1>1, <1>2, <1>3, TakeData
<1>5. ~t.eof
  BY <1>1, <1>2, <1>3, <1>4
<1>6. EndLast(Tail(w), s.finished)
  BY <1>1, <1>2, <1>3, TakePlain
<1>7. w[1].chunk \in Nat
  BY <1>3, <1>4
<1>8. ASSUME NEW t2, t2.rbuf = Append(t.rbuf, w[1].chunk), t2.eof = t.eof,
             t2.closed = t.closed
      PROVE  Link(s, Tail(w), t2, k)
  <2>1. /\ InOrder(k.got, k.out, t2.rbuf)
        /\ Len(t2.rbuf) = Len(t.rbuf) + 1
    <3>1. w[1].chunk = Len(k.got) + Len(k.out) + Len(t.rbuf) + 1
      BY <1>4 DEF Held
    <3>2. /\ InOrder(k.got, k.out, Append(t.rbuf, w[1].chunk))
          /\ Len(Append(t.rbuf, w[1].chunk)) = Len(t.rbuf) + 1
      <4>1. LET n == Len(k.got) + Len(k.out) + Len(t.rbuf) + 1
                b == Append(t.rbuf, n)
            IN InOrder(k.got, k.out, b) /\ Len(b) = Len(t.rbuf) + 1
        BY <1>1, <1>2, PushInOrder
      <4> QED BY <3>1, <4>1
    <3> QED BY <1>8, <3>2
  <2>2. Len(k.got) \in Nat /\ Len(k.out) \in Nat /\ Len(t.rbuf) \in Nat
    BY HeldNat
  <2>3. Held(t2, k) = Held(t, k) + 1
    <3>1. \A x, y, z \in Nat : x + y + (z + 1) = x + y + z + 1
      OBVIOUS
    <3>2. Len(k.got) + Len(k.out) + (Len(t.rbuf) + 1)
            = Len(k.got) + Len(k.out) + Len(t.rbuf) + 1
      BY <2>2, <3>1
    <3>3. /\ Held(t2, k) = Len(k.got) + Len(k.out) + Len(t2.rbuf)
          /\ Held(t, k) = Len(k.got) + Len(k.out) + Len(t.rbuf)
      BY DEF Held
    <3> QED BY <2>1, <3>2, <3>3
  <2> QED BY <1>4, <1>5, <1>6, <1>8, <2>1, <2>3 DEF Link
<1> QED BY <1>5, <1>7, <1>8

(* One whose receiver takes the end.                                       *)
LEMMA LinkEnds ==
  ASSUME NEW s \in Tunnel, NEW w \in Seq(Message), NEW t \in Tunnel,
         NEW k \in Socket, NEW t2, Link(s, w, t, k), ~t.closed, w # <<>>,
         w[1].type = "fin", t2.rbuf = t.rbuf, t2.closed = t.closed
  PROVE  Link(s, Tail(w), t2, k)
<1>1. s.sent \in Nat /\ s.finished \in BOOLEAN
  BY DEF Tunnel
<1>2. /\ InOrder(k.got, k.out, t.rbuf) /\ EndLast(w, s.finished)
      /\ Carries(w, Held(t, k), s.sent)
  BY DEF Link
<1>3. Held(t, k) \in Nat /\ Held(t2, k) = Held(t, k)
  BY HeldNat DEF Held
<1>4. s.finished /\ Held(t, k) = s.sent
  BY <1>1, <1>2, <1>3, TakeFin
<1>5. /\ Carries(Tail(w), Held(t, k), s.sent)
      /\ EndLast(Tail(w), s.finished)
  BY <1>1, <1>2, <1>3, TakePlain
<1> QED BY <1>2, <1>3, <1>4, <1>5 DEF Link

(* A chunk moves from the tunnel to the socket, and may resume the peer.   *)
LEMMA PipeStep ==
  ASSUME IInv, NEW p \in Sides, Pipe(p)
  PROVE  IInv' /\ Advances(p)
<1> DEFINE q == Other(p)
           b == tun[p].localPaused /\ ~Resumes(tun[p])
           t == [tun[p] EXCEPT !.rbuf = Tail(@), !.localPaused = b]
           k == [sock[p] EXCEPT !.out = Append(@, Head(tun[p].rbuf))]
           m == IF Resumes(tun[p]) THEN <<Msg("resume")>> ELSE <<>>
<1>1. /\ Step(p, t, k, wire, m) /\ UNCHANGED broken
      /\ tun[p].ready /\ ~tun[p].closed /\ sock[p].state = "open"
      /\ tun[p].rbuf # <<>> /\ Len(sock[p].out) < SocketBuffer
  BY DEF Pipe, Bridged
<1>2. /\ tun[p] \in Tunnel /\ sock[p] \in Socket /\ Shapes
      /\ tun[q] \in Tunnel /\ sock[q] \in Socket
      /\ wire[p] \in Seq(Message)
      /\ Link(tun[p], wire[p], tun[q], sock[q])
      /\ Link(tun[q], wire[q], tun[p], sock[p])
  BY SideFacts
<1>3. b \in BOOLEAN
  OBVIOUS
<1>4. m \in Seq(Message) /\ Plain(m) /\ Only(m, Speech)
  BY MessageTypes, OneMessage, Nothing DEF Only, Speech, Types
<1> HIDE DEF b, m
<1>5. /\ Side(p, t, k) /\ Quietly(tun[p], t)
      /\ Keeps(sock[p], k) /\ k.over = sock[p].over
      /\ k.state = sock[p].state
      /\ k.out = Append(sock[p].out, Head(tun[p].rbuf))
      /\ t.rbuf = Tail(tun[p].rbuf) /\ t.eof = tun[p].eof /\ ~t.ended
  <2>1. Side(p, tun[p], sock[p])
    BY <1>1, LiveSide
  <2>2. /\ tun[p] \in Tunnel /\ sock[p] \in Socket
        /\ tun[p].ready /\ sock[p].state = "open"
        /\ tun[p].rbuf # <<>> /\ Len(sock[p].out) < SocketBuffer
    BY <1>1, <1>2
  <2> QED BY <1>3, <2>1, <2>2, PipesSide
<1> HIDE DEF t, k
<1>6. Link(t, wire[p] \o m, tun[q], sock[q])
  BY <1>2, <1>4, <1>5, LinkSaysMore DEF Side, Quietly
<1>7. Link(tun[q], wire[q], t, k)
  <2>1. t.closed = tun[p].closed /\ k.got = sock[p].got
    BY <1>1, <1>2, <1>5 DEF Side, Tunnel, Keeps
  <2> QED BY <1>1, <1>2, <1>5, <2>1, LinkPipes
<1>8. IInv' /\ sock' = [sock EXCEPT ![p] = k]
  BY <1>1, <1>4, <1>5, <1>6, <1>7, SideGoesOn DEF Keeps
<1> QED BY <1>2, <1>5, <1>8, QuietStep DEF Side

(* A step of a socket alone.                                               *)
LEMMA SocketGoesOn ==
  ASSUME IInv, NEW p \in Sides, NEW k \in Socket,
         sock' = [sock EXCEPT ![p] = k], UNCHANGED <<tun, wire>>,
         broken' \in BOOLEAN, broken => broken',
         Sender(p, tun[p], k), Receiver(tun[p], k),
         Link(tun[Other(p)], wire[Other(p)], tun[p], k),
         k.fin = sock[p].fin, sock[p].state # "none",
         k.state = sock[p].state \/ p = "pub",
         k.state = "dead" => sock[p].state = "dead" \/ broken'
  PROVE  IInv'
<1> DEFINE q == Other(p)
<1>1. /\ Shapes /\ q \in Sides /\ q # p /\ q = Other(p) /\ Sides = {p, q}
      /\ tun[p] \in Tunnel
      /\ wire[p] \in Seq(Message) /\ wire[q] \in Seq(Message)
      /\ Sender(q, tun[q], sock[q]) /\ Receiver(tun[q], sock[q])
      /\ Link(tun[p], wire[p], tun[q], sock[q])
      /\ (tun[p].closed => wire[q] = <<>>)
      /\ (~tun[p].closed => ~(tun[p].finished /\ tun[p].ended))
      /\ (p = "sub" => sock[p].state \in {"open", "dead"})
      /\ Taken(p, wire)
  BY SideFacts
<1>2. /\ (tun[q].closed => wire[p] = <<>>)
      /\ (tun[q].finished /\ tun[q].ended => tun[q].closed)
      /\ (tun[p].closed \/ sock[p].state = "dead" => Ended)
  <2>1. Other(q) = p
    BY TwoSides
  <2> QED BY <1>1, <2>1 DEF IInv, Closed, HasReason
<1>3. /\ tun' = tun /\ wire' = wire /\ sock'[p] = k /\ sock'[q] = sock[q]
      /\ sock' \in [Sides -> Socket]
  BY <1>1 DEF Shapes
<1>4. Ended => Ended'
  BY <1>1, <1>3 DEF Ended
<1>5. Handshake' /\ HasReason'
  <2>1. tun' = [tun EXCEPT ![p] = tun[p]]
    BY <1>1, <1>3 DEF Shapes
  <2>2. wire'[p] = IF tun[q].closed THEN <<>> ELSE wire[p] \o <<>>
    BY <1>1, <1>2, <1>3, ConcatEmptySeq
  <2>3. Polite(p, <<>>, tun[p].closed) /\ <<>> \in Seq(Message)
    BY EmptySeq DEF Polite
  <2>4. wire'[q] = wire[q] \/ wire'[q] = <<>>
    BY <1>3
  <2>5. tun[p].closed \/ k.state = "dead" => Ended'
    BY <1>2, <1>4 DEF Ended
  <2>6. p = "sub" => k.state \in {"open", "dead"}
    BY <1>1
  <2>7. sock[p].state = "none" => k.state = "none" \/
          wire'[q] # wire[q] \/ wire'[q] = <<>>
    OBVIOUS
  <2>8. sock[p].fin => k.fin
    OBVIOUS
  <2> QED BY <1>1, <2>1, <2>2, <2>3, <2>4, <2>5, <2>6, <2>7, <2>8, TalkKeeps
<1>6. /\ Sender(p, tun'[p], sock'[p]) /\ Sender(q, tun'[q], sock'[q])
      /\ Receiver(tun'[p], sock'[p]) /\ Receiver(tun'[q], sock'[q])
      /\ Link(tun'[p], wire'[p], tun'[q], sock'[q])
      /\ Link(tun'[q], wire'[q], tun'[p], sock'[p])
  BY <1>1, <1>3
<1>7. /\ tun' \in [Sides -> Tunnel] /\ wire' \in [Sides -> Seq(Message)]
      /\ (tun'[p].closed => wire'[q] = <<>>)
      /\ (tun'[q].closed => wire'[p] = <<>>)
      /\ (tun'[p].finished /\ tun'[p].ended => tun'[p].closed)
      /\ (tun'[q].finished /\ tun'[q].ended => tun'[q].closed)
  BY <1>1, <1>2, <1>3 DEF Shapes
<1> QED BY <1>1, <1>3, <1>5, <1>6, <1>7, Assemble

(* The socket gives its application the next chunk.                        *)
LEMMA SocketWritesStep ==
  ASSUME IInv, NEW p \in Sides, SocketWrites(p)
  PROVE  IInv' /\ Advances(p)
<1> DEFINE q == Other(p)
           c == sock[p]
           k == [sock[p] EXCEPT !.out = Tail(@),
                                !.got = Append(@, Head(c.out))]
<1>1. /\ c.state = "open" /\ c.out # <<>>
      /\ sock' = [sock EXCEPT ![p] = k] /\ UNCHANGED <<tun, wire, broken>>
  BY DEF SocketWrites
<1>2. /\ tun[p] \in Tunnel /\ c \in Socket /\ Shapes
      /\ tun[q] \in Tunnel /\ sock[q] \in Socket
      /\ Sender(p, tun[p], c) /\ Receiver(tun[p], c)
      /\ Sender(q, tun[q], sock[q])
      /\ Link(tun[q], wire[q], tun[p], c)
      /\ broken \in BOOLEAN
  BY SideFacts
<1>3. ~tun[p].closed /\ c.over = "no"
  <2>1. c.over \in {"no", "eof", "cut"}
    BY <1>2 DEF Socket
  <2> QED BY <1>1, <1>2, <2>1 DEF Receiver
<1>4. c \in Socket
  BY <1>2
<1>5. /\ k.got = Append(c.got, Head(c.out)) /\ k.out = Tail(c.out)
      /\ k.made = c.made /\ k.fin = c.fin /\ k.over = c.over
      /\ k.state = c.state /\ k.end = c.end
  BY <1>4 DEF Socket
<1> HIDE DEF k
<1>6. /\ Link(tun[q], wire[q], tun[p], k)
      /\ Given(c, k) /\ Len(c.got) < tun[q].sent
      /\ k.got \in Seq(Nat) /\ k.out \in Seq(Nat)
      /\ Len(k.out) = Len(c.out) - 1
  <2>1. /\ tun[q] \in Tunnel /\ tun[p] \in Tunnel /\ c \in Socket
        /\ Link(tun[q], wire[q], tun[p], c) /\ ~tun[p].closed
        /\ c.out # <<>>
        /\ k.got = Append(c.got, Head(c.out)) /\ k.out = Tail(c.out)
    BY <1>1, <1>2, <1>3, <1>5
  <2>2. /\ c.got \in Seq(Nat) /\ c.out \in Seq(Nat) /\ tun[q].sent \in Nat
        /\ Len(c.got) \in Nat /\ Len(c.out) \in Nat
    BY <2>1, HeldNat DEF Socket, Tunnel
  <2> HIDE DEF c, q
  <2>3. Link(tun[q], wire[q], tun[p], k)
    BY <2>1, LinkGives
  <2>4. Given(c, k)
    BY <2>1, LinkGives
  <2>5. Len(c.got) < tun[q].sent
    BY <2>1, LinkGives
  <2>6. k.got \in Seq(Nat) /\ k.out \in Seq(Nat)
    BY <2>1, LinkGives
  <2>7. Len(k.out) = Len(c.out) - 1
    BY <2>1, LinkGives
  <2> QED BY <2>3, <2>4, <2>5, <2>6, <2>7
<1>7. k \in Socket
  <2>1. k = [c EXCEPT !.out = k.out, !.got = k.got]
    BY <1>4, <1>5 DEF Socket, k
  <2> QED BY <1>4, <1>6, <2>1 DEF Socket
<1>8. Sender(p, tun[p], k)
  BY <1>2, <1>5 DEF Sender
<1>9. Receiver(tun[p], k)
  <2>1. Len(c.out) \in Nat /\ SocketBuffer \in Nat
    BY <1>2, HeldNat, TunnelAssumption
  <2>2. Len(k.out) <= SocketBuffer
    BY <1>2, <1>6, <2>1 DEF Receiver
  <2> QED BY <1>1, <1>2, <1>3, <1>5, <2>2 DEF Receiver
<1>10. IInv'
  BY <1>1, <1>2, <1>5, <1>6, <1>7, <1>8, <1>9, SocketGoesOn
<1>11. sock'[p] = k /\ sock'[q] = sock[q]
  BY <1>1, <1>2, TwoSides DEF Shapes
<1>12. Len(c.got) < sock[q].made
  <2>1. Len(c.got) \in Nat /\ tun[q].sent \in Nat /\ sock[q].made \in Nat
    BY <1>2, HeldNat DEF Tunnel, Socket
  <2> QED BY <1>2, <1>6, <2>1 DEF Sender
<1>13. k.got = Append(c.got, Len(c.got) + 1)
  BY <1>6 DEF Given
<1> QED BY <1>3, <1>5, <1>10, <1>11, <1>12, <1>13 DEF Advances, Moves

(* It has given it everything: the end comes last.                         *)
LEMMA SocketFinishesStep ==
  ASSUME IInv, NEW p \in Sides, SocketFinishes(p)
  PROVE  IInv' /\ Advances(p)
<1> DEFINE q == Other(p)
           c == sock[p]
           k == [sock[p] EXCEPT !.over = "eof"]
<1>1. /\ c.state = "open" /\ c.end /\ c.out = <<>> /\ c.over = "no"
      /\ sock' = [sock EXCEPT ![p] = k] /\ UNCHANGED <<tun, wire, broken>>
  BY DEF SocketFinishes
<1>2. /\ tun[p] \in Tunnel /\ c \in Socket /\ Shapes
      /\ tun[q] \in Tunnel /\ sock[q] \in Socket
      /\ Sender(p, tun[p], c) /\ Receiver(tun[p], c)
      /\ Sender(q, tun[q], sock[q])
      /\ Link(tun[q], wire[q], tun[p], c)
      /\ broken \in BOOLEAN
  BY SideFacts
<1>3. c \in Socket
  BY <1>2
<1>4. k \in Socket
  BY <1>3 DEF Socket
<1>5. /\ k.got = c.got /\ k.out = c.out /\ k.over = "eof"
      /\ k.made = c.made /\ k.fin = c.fin
      /\ k.state = c.state /\ k.end = c.end
  BY <1>3 DEF Socket
<1> HIDE DEF k
<1>6. Sender(p, tun[p], k) /\ Receiver(tun[p], k)
  BY <1>1, <1>2, <1>5 DEF Sender, Receiver
<1>7. Link(tun[q], wire[q], tun[p], k)
  BY <1>2, <1>5, LinkRests
<1>8. IInv'
  BY <1>1, <1>2, <1>4, <1>5, <1>6, <1>7, SocketGoesOn
<1>9. sock'[p] = k /\ sock'[q] = sock[q]
  BY <1>1, <1>2, TwoSides DEF Shapes
<1>10. sock[q].fin /\ Len(c.got) = sock[q].made
  <2>1. ~tun[p].closed /\ tun[p].eof /\ tun[p].rbuf = <<>>
    BY <1>1, <1>2 DEF Receiver
  <2>2. tun[q].finished /\ Held(tun[p], c) = tun[q].sent
    BY <1>2, <2>1 DEF Link
  <2>3. sock[q].fin /\ tun[q].sent = sock[q].made
    BY <1>2, <2>2 DEF Sender
  <2>4. Held(tun[p], c) = Len(c.got)
    <3>1. Len(<<>>) = 0 /\ Len(c.got) \in Nat
      BY <1>2, HeldNat
    <3>2. Held(tun[p], c) = Len(c.got) + 0 + 0
      BY <1>1, <2>1, <3>1 DEF Held
    <3> QED BY <3>1, <3>2
  <2> QED BY <2>2, <2>3, <2>4
<1>11. Keeps(c, k)
  BY <1>5 DEF Keeps
<1> QED BY <1>1, <1>5, <1>8, <1>9, <1>10, <1>11 DEF Advances, Moves

(* A tunnel that is destroyed says so and nothing else.                    *)
LEMMA LastWords ==
  /\ Closing \in Seq(Message) /\ Only(Closing, Enders)
  /\ \A ty \in Enders : /\ <<Msg(ty)>> \o Closing \in Seq(Message)
                        /\ Only(<<Msg(ty)>> \o Closing, Enders)
  /\ <<>> \o Closing = Closing
<1>1. /\ Closing \in Seq(Message) /\ Len(Closing) = 1
      /\ Closing[1].type = "close"
  BY MessageTypes, OneMessage DEF Closing, Types
<1>2. Only(Closing, Enders)
  BY <1>1 DEF Only, Enders
<1>3. ASSUME NEW ty \in Enders
      PROVE  /\ <<Msg(ty)>> \o Closing \in Seq(Message)
             /\ Only(<<Msg(ty)>> \o Closing, Enders)
  <2> DEFINE a == <<Msg(ty)>>
             v == a \o Closing
  <2>1. a \in Seq(Message) /\ Len(a) = 1 /\ a[1].type \in Enders
    BY MessageTypes, OneMessage DEF Types, Enders
  <2> HIDE DEF a
  <2>2. /\ v \in Seq(Message)
        /\ \A i \in 1..Len(v) :
             \/ i \in 1..Len(a) /\ v[i] = a[i]
             \/ i - Len(a) \in 1..Len(Closing) /\ v[i] = Closing[i - Len(a)]
    BY <1>1, <2>1, WireAppend
  <2> HIDE DEF v
  <2>3. Only(v, Enders)
    BY <1>1, <2>1, <2>2 DEF Only, Enders
  <2> QED BY <2>2, <2>3 DEF v, a
<1>4. <<>> \o Closing = Closing
  BY <1>1, ConcatEmptySeq
<1> QED BY <1>1, <1>2, <1>3, <1>4

(* A side whose tunnel is destroyed for a reason, its socket as it is.     *)
LEMMA SideDies ==
  ASSUME IInv, NEW p \in Sides, NEW w, Taken(p, w), NEW m \in Seq(Message),
         Step(p, Dead(tun[p]), sock[p], w, m), Only(m, Enders),
         UNCHANGED broken, Ended
  PROVE  IInv' /\ Advances(p)
<1>1. /\ tun[p] \in Tunnel /\ sock[p] \in Socket /\ Shapes
      /\ Receiver(tun[p], sock[p]) /\ broken \in BOOLEAN
      /\ (p = "sub" => sock[p].state \in {"open", "dead"})
  BY SideFacts
<1>2. Receiver(Dead(tun[p]), Shut(sock[p]))
  BY <1>1, DeadSide
<1>3. broken' \in BOOLEAN /\ (broken => broken')
      /\ (broken' \/ \A r \in Sides : sock[r].fin)
  BY <1>1 DEF Ended
<1>4. IInv' /\ sock' = [sock EXCEPT ![p] = Shut(sock[p])]
  BY <1>1, <1>2, <1>3, StepDies DEF Only
<1> QED BY <1>1, <1>3, <1>4, QuietStep DEF Keeps

(* The socket has closed, both its halves having ended.                    *)
LEMMA SocketClosesStep ==
  ASSUME IInv, NEW p \in Sides, SocketCloses(p)
  PROVE  IInv' /\ Advances(p)
<1> DEFINE q == Other(p)
<1>1. /\ Step(p, Dead(tun[p]), sock[p], wire, Closing) /\ UNCHANGED broken
      /\ ~tun[p].closed /\ sock[p].over = "eof" /\ sock[p].fin
  BY DEF SocketCloses, Bridged
<1>2. /\ Receiver(tun[p], sock[p]) /\ Sender(q, tun[q], sock[q])
      /\ Link(tun[q], wire[q], tun[p], sock[p]) /\ Sides = {p, q}
      /\ Taken(p, wire)
  BY SideFacts
<1>3. sock[q].fin
  <2>1. tun[p].eof
    BY <1>1, <1>2 DEF Receiver
  <2>2. tun[q].finished
    BY <1>1, <1>2, <2>1 DEF Link
  <2> QED BY <1>2, <2>2 DEF Sender
<1>4. Ended
  BY <1>1, <1>2, <1>3 DEF Ended
<1> QED BY <1>1, <1>2, <1>4, LastWords, SideDies

(* The socket dies: its tunnel goes with it, or is not open yet.           *)
LEMMA SocketDiesStep ==
  ASSUME IInv, NEW p \in Sides, SocketDies(p)
  PROVE  IInv' /\ Advances(p)
<1> DEFINE q == Other(p)
           k == Killed(sock[p])
<1>1. /\ sock[p].state = "open" /\ ~tun[p].closed /\ broken' = TRUE
  BY DEF SocketDies
<1>2. /\ tun[p] \in Tunnel /\ sock[p] \in Socket /\ Shapes
      /\ tun[q] \in Tunnel /\ sock[q] \in Socket
      /\ wire[p] \in Seq(Message)
      /\ Sender(p, tun[p], sock[p]) /\ Receiver(tun[p], sock[p])
      /\ Link(tun[p], wire[p], tun[q], sock[q])
      /\ Link(tun[q], wire[q], tun[p], sock[p])
      /\ ~(tun[p].finished /\ tun[p].ended)
      /\ Taken(p, wire)
  BY <1>1, SideFacts
<1>3. /\ k \in Socket /\ k.state = "dead" /\ k.out = <<>>
      /\ k.end = sock[p].end /\ k.made = sock[p].made
      /\ k.fin = sock[p].fin /\ k.got = sock[p].got
      /\ k.over = IF sock[p].over = "no" THEN "cut" ELSE sock[p].over
  BY <1>2, KilledSocket
<1>4. Shut(sock[p]) = k /\ Shut(k) = k
  BY <1>1, <1>3 DEF Shut
<1> HIDE DEF k
<1>5. broken' \in BOOLEAN /\ (broken => broken')
  BY <1>1
<1>6. CASE p = "sub" /\ ~tun[p].ready
  <2>1. Step(p, tun[p], k, wire, <<>>)
    <3>1. (IF FALSE THEN <<Msg("reset")>> ELSE <<>>) \o
            (IF FALSE THEN Closing ELSE <<>>) = <<>>
      BY EmptySeq, ConcatEmptySeq
    <3>2. tun[p].closed = FALSE
      BY <1>1, <1>2 DEF Tunnel
    <3>3. PICK failed \in BOOLEAN :
            Step(p, tun[p], k, wire,
              (IF failed /\ tun[p].closed THEN <<Msg("reset")>> ELSE <<>>) \o
              (IF tun[p].closed THEN Closing ELSE <<>>))
      BY <1>6 DEF SocketDies, k
    <3>4. (failed /\ tun[p].closed) = FALSE
      BY <3>2
    <3> QED BY <3>1, <3>2, <3>3, <3>4
  <2>2. Sender(p, tun[p], k)
    BY <1>2, <1>3 DEF Sender
  <2>3. Receiver(tun[p], k)
    <3>1. sock[p].out = <<>> /\ ~sock[p].end
      BY <1>2, <1>6 DEF Receiver
    <3>2. k.over # "eof"
      BY <1>2, <1>3, <3>1 DEF Receiver
    <3> QED BY <1>1, <1>2, <1>3, <3>1, <3>2 DEF Receiver
  <2>4. Link(tun[p], wire[p] \o <<>>, tun[q], sock[q])
    BY <1>2, LinkSaysNothing
  <2>5. Link(tun[q], wire[q], tun[p], k)
    <3>1. k.out = sock[p].out
      BY <1>2, <1>3, <1>6 DEF Receiver
    <3> QED BY <1>2, <1>3, <3>1, LinkRests
  <2>6. \A i \in 1..Len(<<>>) : /\ <<>>[i].type \notin Enders \cup {"open"}
                                /\ p = "sub" => <<>>[i].type # "ok"
    OBVIOUS
  <2>7. IInv' /\ sock' = [sock EXCEPT ![p] = k]
    BY <1>1, <1>2, <1>3, <1>5, <2>1, <2>2, <2>3, <2>4, <2>5, <2>6, Nothing,
       StepKeeps
  <2> QED BY <1>1, <1>2, <1>4, <2>7, QuietStep DEF Keeps
<1>7. CASE ~(p = "sub" /\ ~tun[p].ready)
  <2>1. PICK m \in Seq(Message) :
          Step(p, Dead(tun[p]), k, wire, m) /\ Only(m, Enders)
    <3>1. PICK failed \in BOOLEAN :
            Step(p, Dead(tun[p]), k, wire,
              (IF failed /\ Dead(tun[p]).closed
                 THEN <<Msg("reset")>> ELSE <<>>) \o
              (IF Dead(tun[p]).closed THEN Closing ELSE <<>>))
      BY <1>7 DEF SocketDies, k
    <3>2. Dead(tun[p]).closed = TRUE
      BY <1>2, DeadTunnel DEF Tunnel
    <3>3. CASE failed
      <4>1. Step(p, Dead(tun[p]), k, wire, <<Msg("reset")>> \o Closing)
        BY <3>1, <3>2, <3>3
      <4> QED BY <4>1, LastWords DEF Enders
    <3>4. CASE ~failed
      <4>1. Step(p, Dead(tun[p]), k, wire, <<>> \o Closing)
        BY <3>1, <3>2, <3>4
      <4> QED BY <4>1, LastWords
    <3> QED BY <3>3, <3>4
  <2>2. Receiver(Dead(tun[p]), Shut(k))
    BY <1>2, <1>4, DeadSide
  <2>3. IInv' /\ sock' = [sock EXCEPT ![p] = Shut(k)]
    BY <1>1, <1>2, <1>3, <1>5, <2>1, <2>2, StepDies DEF Only
  <2> QED BY <1>1, <1>2, <1>4, <2>3, QuietStep DEF Keeps
<1> QED BY <1>6, <1>7

(* A target that settles leaves the rest of its socket as it was.          *)
LEMMA SettledSocket ==
  ASSUME NEW p \in Sides, NEW u \in Tunnel, NEW c \in Socket, NEW k,
         NEW st \in {"open", "dead"}, c.state = "connecting",
         Sender(p, u, c), Receiver(u, c), k = [c EXCEPT !.state = st]
  PROVE  /\ k \in Socket /\ k.state = st /\ k.over = c.over /\ Keeps(c, k)
         /\ k.out = c.out /\ Sender(p, u, k) /\ Receiver(u, k)
<1>1. k \in Socket
  BY DEF Socket
<1>2. /\ k.state = st /\ k.over = c.over /\ Keeps(c, k) /\ k.out = c.out
      /\ k.end = c.end
  BY DEF Socket, Keeps
<1>3. Sender(p, u, k)
  BY <1>2 DEF Sender, Keeps
<1>4. Receiver(u, k)
  BY <1>2 DEF Receiver
<1> QED BY <1>1, <1>2, <1>3, <1>4

(* It settles when its tunnel is closed already.                           *)
LEMMA SettlesTooLate ==
  ASSUME IInv, NEW p \in Sides, p # "sub", NEW st \in {"open", "dead"},
         sock[p].state = "connecting", broken' \in BOOLEAN, broken => broken',
         st = "dead" => broken',
         sock' = [sock EXCEPT ![p] = [sock[p] EXCEPT !.state = st]],
         UNCHANGED <<tun, wire>>
  PROVE  IInv' /\ Advances(p)
<1> DEFINE q == Other(p)
           k == [sock[p] EXCEPT !.state = st]
<1>1. /\ tun[p] \in Tunnel /\ sock[p] \in Socket /\ Shapes
      /\ Sender(p, tun[p], sock[p]) /\ Receiver(tun[p], sock[p])
      /\ Link(tun[q], wire[q], tun[p], sock[p])
  BY SideFacts
<1>2. /\ k \in Socket /\ k.state = st /\ k.over = sock[p].over
      /\ Keeps(sock[p], k) /\ k.out = sock[p].out
      /\ Sender(p, tun[p], k) /\ Receiver(tun[p], k)
  BY <1>1, SettledSocket
<1>3. sock' = [sock EXCEPT ![p] = k]
  OBVIOUS
<1> HIDE DEF k
<1>4. k.made = sock[p].made /\ k.fin = sock[p].fin /\ k.got = sock[p].got
  BY <1>2 DEF Keeps
<1>5. Link(tun[q], wire[q], tun[p], k)
  BY <1>1, <1>2, <1>4, LinkRests
<1>6. /\ sock[p].state # "none" /\ p = "pub"
      /\ (k.state = "dead" => sock[p].state = "dead" \/ broken')
  BY <1>2 DEF Sides
<1>7. IInv'
  BY <1>2, <1>3, <1>4, <1>5, <1>6, SocketGoesOn
<1> QED BY <1>1, <1>2, <1>3, <1>7, QuietStep

(* The target connects: the tunnel is open on both sides, or has closed    *)
(* in the meantime.                                                        *)
LEMMA TargetConnectsStep ==
  ASSUME IInv, NEW p \in Sides, p # "sub", TargetConnects
  PROVE  IInv' /\ Advances(p)
<1> DEFINE q == Other(p)
           t == [tun[p] EXCEPT !.ready = TRUE]
           k == [sock[p] EXCEPT !.state = "open"]
           m == <<Msg("ok")>>
<1>1. /\ sock[p].state = "connecting" /\ UNCHANGED broken
      /\ (tun[p].closed =>
            sock' = [sock EXCEPT ![p] = k] /\ UNCHANGED <<tun, wire>>)
      /\ (~tun[p].closed => Step(p, t, k, wire, m))
  BY DEF TargetConnects, Sides
<1>2. /\ tun[p] \in Tunnel /\ sock[p] \in Socket /\ Shapes
      /\ tun[q] \in Tunnel /\ sock[q] \in Socket
      /\ wire[p] \in Seq(Message) /\ broken \in BOOLEAN /\ Taken(p, wire)
      /\ Link(tun[p], wire[p], tun[q], sock[q])
      /\ Link(tun[q], wire[q], tun[p], sock[p])
  BY SideFacts
<1>3. CASE tun[p].closed
  BY <1>1, <1>2, <1>3, SettlesTooLate
<1>4. CASE ~tun[p].closed
  <2>1. Side(p, tun[p], sock[p]) /\ ~(tun[p].finished /\ tun[p].ended)
    BY <1>4, LiveSide
  <2>2. /\ Side(p, t, k) /\ Rests(tun[p], t, sock[p], k)
        /\ Quietly(tun[p], t) /\ Keeps(sock[p], k)
        /\ k.over = sock[p].over /\ k.state = "open"
        /\ t.ended = tun[p].ended
    BY <1>1, <1>2, <2>1, ConnectsSide
  <2>3. Step(p, t, k, wire, m)
    BY <1>1, <1>4
  <2> HIDE DEF t, k
  <2>4. /\ m \in Seq(Message) /\ Plain(m)
        /\ \A i \in 1..Len(m) : /\ m[i].type \notin Enders \cup {"open"}
                                /\ p = "sub" => m[i].type # "ok"
    BY MessageTypes, OneMessage DEF Types, Enders
  <2> HIDE DEF m
  <2>5. Link(t, wire[p] \o m, tun[q], sock[q])
    BY <1>2, <2>2, <2>4, LinkSaysMore DEF Side, Quietly
  <2>6. Link(tun[q], wire[q], t, k)
    BY <1>2, <2>2, LinkRests DEF Rests
  <2>7. ~(t.finished /\ t.ended)
    BY <2>1, <2>2 DEF Quietly
  <2>8. /\ t \in Tunnel /\ k \in Socket /\ ~t.closed
        /\ Sender(p, t, k) /\ Receiver(t, k) /\ (sock[p].fin => k.fin)
    BY <2>2 DEF Side, Keeps
  <2>9. IInv' /\ sock' = [sock EXCEPT ![p] = k]
    BY <1>1, <1>2, <1>4, <2>2, <2>3, <2>4, <2>5, <2>6, <2>7, <2>8, StepKeeps
  <2> QED BY <1>2, <2>2, <2>8, <2>9, QuietStep
<1> QED BY <1>3, <1>4

(* The target refuses, and the tunnel with it.                             *)
LEMMA TargetRefusesStep ==
  ASSUME IInv, NEW p \in Sides, p # "sub", TargetRefuses
  PROVE  IInv' /\ Advances(p)
<1> DEFINE k == [sock[p] EXCEPT !.state = "dead"]
           m == <<Msg("error")>> \o Closing
<1>1. /\ sock[p].state = "connecting" /\ broken' = TRUE
      /\ (tun[p].closed =>
            sock' = [sock EXCEPT ![p] = k] /\ UNCHANGED <<tun, wire>>)
      /\ (~tun[p].closed => Step(p, Dead(tun[p]), k, wire, m))
  BY DEF TargetRefuses, Sides
<1>2. /\ tun[p] \in Tunnel /\ sock[p] \in Socket /\ Shapes /\ Taken(p, wire)
      /\ Sender(p, tun[p], sock[p]) /\ Receiver(tun[p], sock[p])
  BY SideFacts
<1>3. CASE tun[p].closed
  BY <1>1, <1>2, <1>3, SettlesTooLate
<1>4. CASE ~tun[p].closed
  <2>1. /\ k \in Socket /\ k.state = "dead" /\ k.over = sock[p].over
        /\ Keeps(sock[p], k) /\ Receiver(tun[p], k)
    BY <1>1, <1>2, SettledSocket
  <2>2. Step(p, Dead(tun[p]), k, wire, m)
    BY <1>1, <1>4
  <2> HIDE DEF k
  <2>3. m \in Seq(Message) /\ Only(m, Enders)
    BY LastWords DEF Enders
  <2> HIDE DEF m
  <2>4. Receiver(Dead(tun[p]), Shut(k))
    BY <1>2, <2>1, DeadSide
  <2>5. IInv' /\ sock' = [sock EXCEPT ![p] = Shut(k)]
    BY <1>1, <1>2, <2>1, <2>2, <2>3, <2>4, StepDies DEF Only, Keeps
  <2> QED BY <1>1, <1>2, <2>1, <2>5, QuietStep
<1> QED BY <1>3, <1>4

-----------------------------------------------------------------------------
(* The messages.                                                           *)

\* Side p has a message of type ty, and takes it.
Hears(p, ty) == wire[Other(p)] # <<>> /\ Head(wire[Other(p)]).type = ty
Rest(p) == [wire EXCEPT ![Other(p)] = Tail(@)]

(* Nobody hears for a closed tunnel, and what is left is shorter.          *)
LEMMA Hearing ==
  ASSUME IInv, NEW p \in Sides, NEW ty, Hears(p, ty)
  PROVE  LET q == Other(p)  w == Rest(p) IN
         /\ Taken(p, w) /\ w[q] = Tail(wire[q]) /\ w[q] # wire[q]
         /\ ~tun[p].closed /\ wire[q] # <<>> /\ wire[q][1].type = ty
         /\ Head(wire[q]) = wire[q][1] /\ 1 \in 1..Len(wire[q])
<1> DEFINE q == Other(p)
           w == Rest(p)
<1>1. /\ wire[q] \in Seq(Message) /\ Shapes /\ q \in Sides /\ q # p
      /\ (tun[p].closed => wire[q] = <<>>)
  BY SideFacts
<1>2. wire[q] # <<>> /\ Head(wire[q]).type = ty
  BY DEF Hears
<1>3. /\ Tail(wire[q]) \in Seq(Message) /\ Len(wire[q]) \in Nat \ {0}
      /\ Len(Tail(wire[q])) = Len(wire[q]) - 1
      /\ Head(wire[q]) = wire[q][1]
  BY <1>1, <1>2, WireTail
<1>4. /\ w \in [Sides -> Seq(Message)] /\ w[q] = Tail(wire[q])
      /\ w[p] = wire[p]
  BY <1>1, <1>3 DEF Shapes, Rest
<1>5. Tail(wire[q]) # wire[q] /\ 1 \in 1..Len(wire[q])
  <2>1. Len(wire[q]) # Len(wire[q]) - 1 /\ 1 \in 1..Len(wire[q])
    BY <1>3
  <2> QED BY <1>3, <2>1
<1> HIDE DEF w
<1>6. Taken(p, w)
  BY <1>2, <1>4 DEF Taken
<1> QED BY <1>1, <1>2, <1>3, <1>4, <1>5, <1>6 DEF w

(* A side that goes on when it has heard something.                        *)
LEMMA HearsAndGoesOn ==
  ASSUME IInv, NEW p \in Sides, NEW ty, NEW t, NEW k, NEW m \in Seq(Message),
         Hears(p, ty), Step(p, t, k, Rest(p), m), UNCHANGED broken,
         Side(p, t, k), ~(t.finished /\ t.ended), Only(m, Speech),
         Link(t, wire[p] \o m, tun[Other(p)], sock[Other(p)]),
         Link(tun[Other(p)], Tail(wire[Other(p)]), t, k),
         Keeps(sock[p], k), k.over = sock[p].over,
         k.state = sock[p].state \/ (p # "sub" /\ k.state = "connecting")
  PROVE  IInv' /\ Advances(p)
<1> DEFINE q == Other(p)
           w == Rest(p)
<1>1. Taken(p, w) /\ w[q] = Tail(wire[q]) /\ w[q] # wire[q] /\ ~tun[p].closed
  BY Hearing
<1>2. /\ broken \in BOOLEAN /\ Shapes
      /\ (p = "sub" => sock[p].state \in {"open", "dead"})
  BY SideFacts
<1>3. \A i \in 1..Len(m) : /\ m[i].type \notin Enders \cup {"open"}
                           /\ p = "sub" => m[i].type # "ok"
  BY DEF Only, Speech, Enders
<1>4. /\ t \in Tunnel /\ k \in Socket /\ ~t.closed
      /\ Sender(p, t, k) /\ Receiver(t, k)
  BY DEF Side
<1>5. /\ (p = "sub" => k.state \in {"open", "dead"})
      /\ (k.state = "dead" => sock[p].state = "dead" \/ broken')
      /\ broken' \in BOOLEAN /\ (broken => broken')
  BY <1>2
<1>6. sock[p].fin => k.fin
  BY DEF Keeps
<1>7. Link(tun[q], w[q], t, k)
  BY <1>1
<1>8. Step(p, t, k, w, m)
  OBVIOUS
<1> HIDE DEF w
<1>9. IInv' /\ sock' = [sock EXCEPT ![p] = k]
  BY <1>1, <1>3, <1>4, <1>5, <1>6, <1>7, <1>8, StepKeeps
<1> QED BY <1>2, <1>4, <1>9, QuietStep

(* It keeps what it holds and what it has sent, and says nothing.          *)
LEMMA HearsAndRests ==
  ASSUME IInv, NEW p \in Sides, NEW ty, NEW t, NEW k,
         Hears(p, ty), ty \notin {"data", "fin"},
         Step(p, t, k, Rest(p), <<>>), UNCHANGED broken,
         Side(p, t, k), t.ended = tun[p].ended,
         Rests(tun[p], t, sock[p], k), Quietly(tun[p], t),
         Keeps(sock[p], k), k.over = sock[p].over,
         k.state = sock[p].state \/ (p # "sub" /\ k.state = "connecting")
  PROVE  IInv' /\ Advances(p)
<1> DEFINE q == Other(p)
<1>1. /\ ~tun[p].closed /\ wire[q] # <<>> /\ wire[q][1].type = ty
  BY Hearing
<1>2. /\ tun[p] \in Tunnel /\ sock[p] \in Socket
      /\ tun[q] \in Tunnel /\ sock[q] \in Socket
      /\ wire[p] \in Seq(Message) /\ wire[q] \in Seq(Message)
      /\ Link(tun[p], wire[p], tun[q], sock[q])
      /\ Link(tun[q], wire[q], tun[p], sock[p])
      /\ ~(tun[p].finished /\ tun[p].ended)
  BY <1>1, SideFacts
<1>3. t \in Tunnel /\ k \in Socket
  BY DEF Side
<1>4. Link(t, wire[p] \o <<>>, tun[q], sock[q])
  BY <1>2, <1>3, LinkSaysNothing DEF Quietly
<1>5. Link(tun[q], Tail(wire[q]), t, k)
  BY <1>1, <1>2, <1>3, LinkHears DEF Rests
<1>6. ~(t.finished /\ t.ended)
  BY <1>2 DEF Quietly
<1> QED BY <1>4, <1>5, <1>6, Nothing, HearsAndGoesOn

(* "open": the publisher starts to connect.                                *)
LEMMA HearsOpen ==
  ASSUME IInv, NEW p \in Sides, Hears(p, "open"),
         Step(p, tun[p], [sock[p] EXCEPT !.state = "connecting"], Rest(p),
              <<>>), UNCHANGED broken
  PROVE  IInv' /\ Advances(p)
<1> DEFINE q == Other(p)
           k == [sock[p] EXCEPT !.state = "connecting"]
<1>1. /\ ~tun[p].closed /\ wire[q][1].type = "open" /\ 1 \in 1..Len(wire[q])
  BY Hearing
<1>2. p # "sub" /\ sock[p].state = "none"
  BY <1>1 DEF IInv, Handshake, Other, Sides
<1>3. tun[p] \in Tunnel /\ sock[p] \in Socket
  BY SideFacts
<1>4. /\ Side(p, tun[p], k) /\ Rests(tun[p], tun[p], sock[p], k)
      /\ Quietly(tun[p], tun[p]) /\ Keeps(sock[p], k)
      /\ k.over = sock[p].over /\ k.state = "connecting"
  BY <1>1, <1>2, <1>3, LiveSide, OpensSide
<1>5. Step(p, tun[p], k, Rest(p), <<>>)
  OBVIOUS
<1> HIDE DEF k
<1> QED BY <1>2, <1>4, <1>5, HearsAndRests

(* What ends a tunnel that hears it, with a reason.                        *)
LEMMA HearsTheEnd ==
  ASSUME IInv, NEW p \in Sides, NEW ty, Hears(p, ty), Ended,
         NEW m \in Seq(Message), Only(m, Enders),
         Step(p, Dead(tun[p]), sock[p], Rest(p), m), UNCHANGED broken
  PROVE  IInv' /\ Advances(p)
<1>1. Taken(p, Rest(p))
  BY Hearing
<1> QED BY <1>1, SideDies

(* "ok": the client's tunnel is open, unless the client has left.          *)
LEMMA HearsOk ==
  ASSUME IInv, NEW p \in Sides, Hears(p, "ok"),
         IF sock[p].state = "dead"
           THEN Step(p, Dead(tun[p]), sock[p], Rest(p), Closing)
           ELSE Step(p, [tun[p] EXCEPT !.ready = TRUE], sock[p], Rest(p),
                     <<>>),
         UNCHANGED broken
  PROVE  IInv' /\ Advances(p)
<1> DEFINE q == Other(p)
           k == sock[p]
           t == [tun[p] EXCEPT !.ready = TRUE]
<1>1. /\ ~tun[p].closed /\ wire[q][1].type = "ok" /\ 1 \in 1..Len(wire[q])
  BY Hearing
<1>2. k.state \in {"open", "dead"}
  BY <1>1 DEF IInv, Handshake, Other, Sides
<1>3. tun[p] \in Tunnel /\ k \in Socket /\ (k.state = "dead" => Ended)
  BY SideFacts
<1>4. CASE k.state = "dead"
  BY <1>3, <1>4, LastWords, HearsTheEnd
<1>5. CASE k.state = "open"
  <2>1. /\ Side(p, t, k) /\ Rests(tun[p], t, k, k) /\ Quietly(tun[p], t)
        /\ t.ended = tun[p].ended
    BY <1>1, <1>3, <1>5, LiveSide, ReadySide
  <2>2. Step(p, t, k, Rest(p), <<>>)
    BY <1>5
  <2> HIDE DEF t
  <2> QED BY <2>1, <2>2, HearsAndRests DEF Keeps
<1> QED BY <1>2, <1>4, <1>5

(* "error", "reset" and "close" come from a tunnel that is closed.         *)
LEMMA HearsAnEnder ==
  ASSUME IInv, NEW p \in Sides, NEW ty \in Enders, Hears(p, ty),
         NEW m \in {<<>>, Closing},
         Step(p, Dead(tun[p]), sock[p], Rest(p), m), UNCHANGED broken
  PROVE  IInv' /\ Advances(p)
<1> DEFINE q == Other(p)
<1>1. wire[q][1].type = ty /\ 1 \in 1..Len(wire[q]) /\ q \in Sides
  BY Hearing, TwoSides
<1>2. Ended
  BY <1>1 DEF IInv, HasReason, Enders
<1>3. m \in Seq(Message) /\ Only(m, Enders)
  BY LastWords, Nothing
<1> QED BY <1>2, <1>3, HearsTheEnd

(* "data": the chunk that is due, which may pause the peer.                *)
LEMMA HearsData ==
  ASSUME IInv, NEW p \in Sides, Hears(p, "data"),
         NEW m \in {<<>>, <<Msg("pause")>>},
         Step(p, Pushed(tun[p], Head(wire[Other(p)]).chunk), sock[p], Rest(p),
              m), UNCHANGED broken
  PROVE  IInv' /\ Advances(p)
<1> DEFINE q == Other(p)
           k == sock[p]
           n == wire[q][1].chunk
           t == Pushed(tun[p], n)
<1>1. /\ ~tun[p].closed /\ wire[q] # <<>> /\ wire[q][1].type = "data"
      /\ Head(wire[q]) = wire[q][1]
  BY Hearing
<1>2. /\ tun[p] \in Tunnel /\ k \in Socket
      /\ tun[q] \in Tunnel /\ sock[q] \in Socket
      /\ wire[p] \in Seq(Message) /\ wire[q] \in Seq(Message)
      /\ Link(tun[p], wire[p], tun[q], sock[q])
      /\ Link(tun[q], wire[q], tun[p], k)
  BY SideFacts
<1>3. /\ ~tun[p].eof /\ n \in Nat
      /\ \A t2 : t2.rbuf = Append(tun[p].rbuf, n) /\ t2.eof = tun[p].eof
                 /\ t2.closed = tun[p].closed =>
                   Link(tun[q], Tail(wire[q]), t2, k)
  BY <1>1, <1>2, LinkTakes
<1>4. Step(p, t, k, Rest(p), m)
  BY <1>1
<1> HIDE DEF n
<1>5. /\ Side(p, t, k) /\ Quietly(tun[p], t)
      /\ t.rbuf = Append(tun[p].rbuf, n) /\ t.eof = tun[p].eof /\ ~t.ended
  BY <1>1, <1>2, <1>3, LiveSide, PushesSide
<1> HIDE DEF t
<1>6. m \in Seq(Message) /\ Plain(m) /\ Only(m, Speech)
  <2>1. CASE m = <<>>
    BY <2>1, Nothing
  <2>2. CASE m = <<Msg("pause")>>
    <3>1. LET v == <<Msg("pause")>> IN
          v \in Seq(Message) /\ Plain(v) /\ Only(v, Speech)
      BY MessageTypes, OneMessage DEF Only, Speech, Types
    <3> QED BY <2>2, <3>1
  <2> QED BY <2>1, <2>2
<1>7. Link(t, wire[p] \o m, tun[q], sock[q])
  BY <1>2, <1>5, <1>6, LinkSaysMore DEF Side, Quietly
<1>8. t.closed = tun[p].closed
  BY <1>1, <1>2, <1>5 DEF Side, Tunnel
<1>9. Link(tun[q], Tail(wire[q]), t, k)
  BY <1>3, <1>5, <1>8
<1> QED BY <1>4, <1>5, <1>6, <1>7, <1>9, HearsAndGoesOn DEF Keeps

(* "fin": the end of the stream.                                           *)
LEMMA HearsFin ==
  ASSUME IInv, NEW p \in Sides, Hears(p, "fin"),
         Step(p, [tun[p] EXCEPT !.eof = TRUE], sock[p], Rest(p), <<>>),
         UNCHANGED broken
  PROVE  IInv' /\ Advances(p)
<1> DEFINE q == Other(p)
           k == sock[p]
           t == [tun[p] EXCEPT !.eof = TRUE]
<1>1. ~tun[p].closed /\ wire[q] # <<>> /\ wire[q][1].type = "fin"
  BY Hearing
<1>2. /\ tun[p] \in Tunnel /\ k \in Socket
      /\ tun[q] \in Tunnel /\ sock[q] \in Socket
      /\ wire[p] \in Seq(Message) /\ wire[q] \in Seq(Message)
      /\ Link(tun[p], wire[p], tun[q], sock[q])
      /\ Link(tun[q], wire[q], tun[p], k)
      /\ ~(tun[p].finished /\ tun[p].ended)
  BY <1>1, SideFacts
<1>3. /\ Side(p, t, k) /\ Quietly(tun[p], t) /\ t.rbuf = tun[p].rbuf
      /\ t.ended = tun[p].ended
  BY <1>1, <1>2, LiveSide, EofSide
<1>4. Step(p, t, k, Rest(p), <<>>)
  OBVIOUS
<1> HIDE DEF t
<1>5. Link(t, wire[p] \o <<>>, tun[q], sock[q])
  BY <1>2, <1>3, LinkSaysNothing DEF Side, Quietly
<1>6. t.closed = tun[p].closed
  BY <1>1, <1>2, <1>3 DEF Side, Tunnel
<1>7. Link(tun[q], Tail(wire[q]), t, k)
  BY <1>1, <1>2, <1>3, <1>6, LinkEnds
<1>8. ~(t.finished /\ t.ended)
  BY <1>2, <1>3 DEF Quietly
<1> QED BY <1>3, <1>4, <1>5, <1>7, <1>8, Nothing, HearsAndGoesOn DEF Keeps

(* "pause", and "resume" with no write held.                               *)
LEMMA HearsPauseOrResume ==
  ASSUME IInv, NEW p \in Sides, NEW ty \in {"pause", "resume"},
         Hears(p, ty), NEW b \in BOOLEAN,
         Step(p, [tun[p] EXCEPT !.remotePaused = b], sock[p], Rest(p), <<>>),
         UNCHANGED broken
  PROVE  IInv' /\ Advances(p)
<1> DEFINE k == sock[p]
           t == [tun[p] EXCEPT !.remotePaused = b]
<1>1. ~tun[p].closed
  BY Hearing
<1>2. tun[p] \in Tunnel /\ k \in Socket
  BY SideFacts
<1>3. /\ Side(p, t, k) /\ Rests(tun[p], t, k, k) /\ Quietly(tun[p], t)
      /\ t.ended = tun[p].ended
  BY <1>1, <1>2, LiveSide, PauseSide
<1>4. Step(p, t, k, Rest(p), <<>>)
  OBVIOUS
<1> HIDE DEF t
<1> QED BY <1>3, <1>4, HearsAndRests DEF Keeps

(* "resume" with a write held, which goes on.                              *)
LEMMA HearsResume ==
  ASSUME IInv, NEW p \in Sides, Hears(p, "resume"), tun[p].held,
         NEW d \in BOOLEAN, NEW t,
         t = [Sending(tun[p], d) EXCEPT !.remotePaused = FALSE],
         Step(p, t, sock[p], Rest(p), <<Data(t.sent)>>), UNCHANGED broken
  PROVE  IInv' /\ Advances(p)
<1> DEFINE q == Other(p)
           k == sock[p]
           m == <<Data(tun[p].sent + 1)>>
<1>1. ~tun[p].closed /\ wire[q] # <<>> /\ wire[q][1].type = "resume"
  BY Hearing
<1>2. /\ tun[p] \in Tunnel /\ k \in Socket
      /\ tun[q] \in Tunnel /\ sock[q] \in Socket
      /\ wire[p] \in Seq(Message) /\ wire[q] \in Seq(Message)
      /\ Link(tun[p], wire[p], tun[q], sock[q])
      /\ Link(tun[q], wire[q], tun[p], k)
      /\ Sender(p, tun[p], k)
  BY SideFacts
<1>3. /\ Side(p, t, k) /\ Rests(tun[p], t, k, k)
      /\ t.sent = tun[p].sent + 1 /\ ~tun[p].finished /\ ~t.finished
  <2>1. tun[p].queue > 0 /\ FALSE \in BOOLEAN
    BY <1>2 DEF Sender
  <2>2. Side(p, tun[p], k)
    BY <1>1, LiveSide
  <2> QED BY <1>2, <2>1, <2>2, SendsSide
<1>4. Step(p, t, k, Rest(p), m)
  BY <1>3
<1>5. m \in Seq(Message) /\ Only(m, Speech)
  <2>1. tun[p].sent + 1 \in Nat
    BY <1>2 DEF Tunnel
  <2> QED BY <2>1, MessageTypes, OneMessage DEF Only, Speech
<1>6. Link(t, wire[p] \o m, tun[q], sock[q])
  BY <1>2, <1>3, LinkSends DEF Side
<1> HIDE DEF m
<1>7. Link(tun[q], Tail(wire[q]), t, k)
  BY <1>1, <1>2, <1>3, LinkHears DEF Rests, Side
<1> QED BY <1>3, <1>4, <1>5, <1>6, <1>7, HearsAndGoesOn DEF Keeps

(* A message is received.                                                  *)
LEMMA ReceiveStep ==
  ASSUME IInv, NEW p \in Sides, Receive(p)
  PROVE  IInv' /\ Advances(p)
<1> DEFINE q == Other(p)
           k == sock[p]
           msg == Head(wire[q])
           w == Rest(p)
<1>1. wire[q] # <<>> /\ UNCHANGED broken
  BY DEF Receive
<1>2. \A ty : msg.type = ty => Hears(p, ty)
  BY <1>1 DEF Hears
<1>3. tun[p] \in Tunnel
  BY SideFacts
<1>4. CASE /\ msg.type = "open"
           /\ Step(p, tun[p], [k EXCEPT !.state = "connecting"], w, <<>>)
  BY <1>1, <1>2, <1>4, HearsOpen
<1>5. CASE /\ msg.type = "ok"
           /\ IF k.state = "dead" THEN Step(p, Dead(tun[p]), k, w, Closing)
              ELSE Step(p, [tun[p] EXCEPT !.ready = TRUE], k, w, <<>>)
  BY <1>1, <1>2, <1>5, HearsOk
<1>6. CASE /\ msg.type \in {"error", "reset"}
           /\ Step(p, Dead(tun[p]), k, w, Closing)
  <2>1. /\ msg.type \in Enders /\ Hears(p, msg.type)
        /\ Closing \in {<<>>, Closing}
    BY <1>2, <1>6 DEF Enders
  <2> HIDE DEF msg, w, k
  <2> QED BY <1>1, <1>6, <2>1, HearsAnEnder DEF w, k
<1>7. CASE /\ msg.type = "data"
           /\ LET t2 == Pushed(tun[p], msg.chunk) IN
              Step(p, t2, k, w, IF t2.localPaused /\ ~tun[p].localPaused
                                THEN <<Msg("pause")>> ELSE <<>>)
  <2>1. PICK m \in {<<>>, <<Msg("pause")>>} :
          Step(p, Pushed(tun[p], msg.chunk), k, w, m)
    BY <1>7
  <2>2. Hears(p, "data")
    BY <1>2, <1>7
  <2> QED BY <1>1, <2>1, <2>2, HearsData
<1>8. CASE /\ msg.type = "fin"
           /\ Step(p, [tun[p] EXCEPT !.eof = TRUE], k, w, <<>>)
  BY <1>1, <1>2, <1>8, HearsFin
<1>9. CASE /\ msg.type = "pause"
           /\ Step(p, [tun[p] EXCEPT !.remotePaused = TRUE], k, w, <<>>)
  BY <1>1, <1>2, <1>9, HearsPauseOrResume
<1>10. CASE /\ msg.type = "resume"
            /\ \E t2 \in AfterResume(tun[p]) :
                 Step(p, t2, k, w, IF t2.sent > tun[p].sent
                                   THEN <<Data(t2.sent)>> ELSE <<>>)
  <2>1. PICK t2 \in AfterResume(tun[p]) :
          Step(p, t2, k, w, IF t2.sent > tun[p].sent
                            THEN <<Data(t2.sent)>> ELSE <<>>)
    BY <1>10
  <2>2. Hears(p, "resume") /\ tun[p].sent \in Nat
    BY <1>2, <1>3, <1>10 DEF Tunnel
  <2>3. CASE tun[p].held
    <3>1. PICK d \in BOOLEAN :
            t2 = [Sending(tun[p], d) EXCEPT !.remotePaused = FALSE]
      BY <2>1, <2>3 DEF AfterResume
    <3>2. t2.sent = tun[p].sent + 1
      BY <1>3, <3>1 DEF Sending, Tunnel
    <3>3. Step(p, t2, k, w, <<Data(t2.sent)>>)
      BY <2>1, <2>2, <3>2
    <3> QED BY <1>1, <2>2, <2>3, <3>1, <3>3, HearsResume
  <2>4. CASE ~tun[p].held
    <3>1. t2 = [tun[p] EXCEPT !.remotePaused = FALSE]
      BY <2>1, <2>4 DEF AfterResume
    <3>2. t2.sent = tun[p].sent
      BY <1>3, <3>1 DEF Tunnel
    <3>3. Step(p, [tun[p] EXCEPT !.remotePaused = FALSE], k, w, <<>>)
      BY <2>1, <2>2, <3>1, <3>2
    <3> QED BY <1>1, <2>2, <3>3, HearsPauseOrResume
  <2> QED BY <2>3, <2>4
<1>11. CASE /\ msg.type = "close"
            /\ Step(p, Dead(tun[p]), k, w, <<>>)
  <2>1. /\ "close" \in Enders /\ Hears(p, "close")
        /\ <<>> \in {<<>>, Closing}
    BY <1>2, <1>11 DEF Enders
  <2> QED BY <1>1, <1>11, <2>1, HearsAnEnder
<1> QED BY <1>4, <1>5, <1>6, <1>7, <1>8, <1>9, <1>10, <1>11
           DEF Receive, Rest

-----------------------------------------------------------------------------
(* The outer stream is lost.                                               *)

Lost(t, k) == IF k.state = "open" /\ ~t.closed THEN Killed(k) ELSE k

\* Nothing is written, ended or given, and what goes on may be cut.
Loses ==
  /\ broken'
  /\ \A p \in Sides :
       /\ Keeps(sock[p], sock'[p])
       /\ \/ sock'[p].over = sock[p].over
          \/ sock[p].over = "no" /\ sock'[p].over = "cut"

(* What becomes of a side, and of what it has received.                    *)
LEMMA LostSide ==
  ASSUME NEW p \in Sides, NEW t \in Tunnel, NEW k \in Socket,
         Sender(p, t, k), Receiver(t, k), InOrder(k.got, k.out, t.rbuf)
  PROVE  /\ Lost(t, k) \in Socket /\ Keeps(k, Lost(t, k))
         /\ Sender(p, Dead(t), Lost(t, k)) /\ Receiver(Dead(t), Lost(t, k))
         /\ InOrder(Lost(t, k).got, Lost(t, k).out, Dead(t).rbuf)
         /\ \/ Lost(t, k).over = k.over
            \/ k.over = "no" /\ Lost(t, k).over = "cut"
         /\ Lost(t, k).state \in {k.state, "dead"}
         /\ (k.state = "none" => Lost(t, k) = k)
         /\ (k.state \in {"open", "dead"} =>
               Lost(t, k).state \in {"open", "dead"})
<1>1. k.got \in Seq(Nat) /\ k.out \in Seq(Nat) /\ t.rbuf \in Seq(Nat)
  BY DEF Tunnel, Socket
<1>2. InOrder(k.got, k.out, <<>>) /\ InOrder(k.got, <<>>, <<>>)
  BY <1>1, ShortInOrder
<1>3. Dead(t).rbuf = <<>>
  BY DeadTunnel
<1>4. CASE k.state = "open" /\ t.closed
  <2>1. Lost(t, k) = k
    BY <1>4 DEF Lost
  <2>2. Sender(p, Dead(t), k)
    <3>1. Sender(p, Dead(t), Shut(k))
      BY DeadSide
    <3>2. Shut(k).made = k.made /\ Shut(k).fin = k.fin
      BY ShutSocket
    <3> QED BY <3>1, <3>2 DEF Sender
  <2>3. Receiver(Dead(t), k)
    BY <1>4, DeadTunnel DEF Receiver
  <2> QED BY <1>2, <1>3, <1>4, <2>1, <2>2, <2>3 DEF Keeps
<1>5. CASE ~(k.state = "open" /\ t.closed)
  <2>1. Lost(t, k) = Shut(k)
    BY <1>5 DEF Lost, Shut
  <2>2. Sender(p, Dead(t), Shut(k)) /\ Receiver(Dead(t), Shut(k))
    BY DeadSide
  <2>3. CASE k.state = "open"
    <3>1. Shut(k) = Killed(k)
      BY <2>3, ShutSocket
    <3>2. /\ Shut(k) \in Socket /\ Keeps(k, Shut(k)) /\ Shut(k).out = <<>>
          /\ Shut(k).got = k.got /\ Shut(k).state = "dead"
          /\ Shut(k).over = IF k.over = "no" THEN "cut" ELSE k.over
      BY <3>1, KilledSocket DEF Keeps
    <3> QED BY <1>2, <1>3, <2>1, <2>2, <2>3, <3>2
  <2>4. CASE k.state # "open"
    <3>1. Shut(k) = k
      BY <2>4, ShutSocket
    <3> QED BY <1>2, <1>3, <2>1, <2>2, <3>1 DEF Keeps
  <2> QED BY <2>3, <2>4
<1> QED BY <1>4, <1>5

(* Both sides lose the stream.                                             *)
LEMMA OuterDiesStep ==
  ASSUME IInv, OuterDies
  PROVE  IInv' /\ Loses
<1>1. /\ tun' = [r \in Sides |-> Dead(tun[r])]
      /\ sock' = [r \in Sides |-> Lost(tun[r], sock[r])]
      /\ wire' = [r \in Sides |-> <<>>] /\ broken' = TRUE
  BY DEF OuterDies, Lost
<1>2. ASSUME NEW r \in Sides
      PROVE  /\ tun'[r] = Dead(tun[r]) /\ wire'[r] = <<>>
             /\ tun'[r] \in Tunnel /\ tun'[r].closed
             /\ sock'[r] \in Socket /\ Keeps(sock[r], sock'[r])
             /\ Sender(r, tun'[r], sock'[r]) /\ Receiver(tun'[r], sock'[r])
             /\ InOrder(sock'[r].got, sock'[r].out, tun'[r].rbuf)
             /\ \/ sock'[r].over = sock[r].over
                \/ sock[r].over = "no" /\ sock'[r].over = "cut"
             /\ (sock[r].state \in {"open", "dead"} =>
                   sock'[r].state \in {"open", "dead"})
  <2>1. /\ tun[r] \in Tunnel /\ sock[r] \in Socket
        /\ Sender(r, tun[r], sock[r]) /\ Receiver(tun[r], sock[r])
        /\ InOrder(sock[r].got, sock[r].out, tun[r].rbuf)
    BY SideFacts DEF Link
  <2>2. /\ tun'[r] = Dead(tun[r]) /\ wire'[r] = <<>>
        /\ sock'[r] = Lost(tun[r], sock[r])
    BY <1>1
  <2>3. Dead(tun[r]) \in Tunnel /\ Dead(tun[r]).closed
    BY <2>1, DeadTunnel
  <2> QED BY <2>1, <2>2, <2>3, LostSide
<1>3. Loses
  BY <1>1, <1>2 DEF Loses
<1>4. /\ tun' \in [Sides -> Tunnel] /\ sock' \in [Sides -> Socket]
      /\ wire' \in [Sides -> Seq(Message)]
  <2>1. <<>> \in Seq(Message)
    BY EmptySeq
  <2> QED BY <1>1, <1>2, <2>1
<1>5. Len(<<>>) = 0
  OBVIOUS
<1>6. Handshake'
  <2>1. sock["sub"].state \in {"open", "dead"}
    BY DEF IInv, Handshake
  <2> QED BY <1>2, <1>5, <2>1 DEF Handshake, Sides
<1>7. HasReason'
  BY <1>1, <1>2, <1>5 DEF HasReason, Ended
<1>8. PICK p \in Sides : TRUE
  BY DEF Sides
<1> DEFINE q == Other(p)
<1>9. q \in Sides
  BY TwoSides
<1>10. /\ Link(tun'[p], wire'[p], tun'[q], sock'[q])
       /\ Link(tun'[q], wire'[q], tun'[p], sock'[p])
  BY <1>2, <1>9 DEF Link
<1>11. IInv'
  BY <1>1, <1>2, <1>4, <1>6, <1>7, <1>9, <1>10, Assemble
<1> QED BY <1>3, <1>11

-----------------------------------------------------------------------------
(* The theorems.                                                           *)

(* The client has connected, nothing else has happened.                    *)
LEMMA InitInv == Init => IInv
<1> SUFFICES ASSUME Init PROVE IInv
  OBVIOUS
<1> DEFINE open == <<Msg("open")>>
<1>1. <<>> \in Seq(Nat) /\ <<>> \in Seq(Message) /\ Len(<<>>) = 0
  BY EmptySeq
<1>2. open \in Seq(Message) /\ Len(open) = 1 /\ open[1].type = "open"
  BY MessageTypes, OneMessage DEF Types
<1>3. NewTunnel \in Tunnel
  BY <1>1 DEF NewTunnel, Tunnel
<1>4. \A st \in {"open", "none"} : NewSocket(st) \in Socket
  BY <1>1 DEF NewSocket, Socket
<1>5. /\ ~NewTunnel.ready /\ ~NewTunnel.closed /\ NewTunnel.rbuf = <<>>
      /\ ~NewTunnel.eof /\ ~NewTunnel.ended /\ NewTunnel.queue = 0
      /\ NewTunnel.sent = 0 /\ ~NewTunnel.held /\ ~NewTunnel.drain
      /\ ~NewTunnel.ending /\ ~NewTunnel.finished
  BY DEF NewTunnel
<1>6. \A st : /\ NewSocket(st).state = st /\ NewSocket(st).out = <<>>
              /\ ~NewSocket(st).end /\ NewSocket(st).made = 0
              /\ ~NewSocket(st).fin /\ NewSocket(st).got = <<>>
              /\ NewSocket(st).over = "no"
  BY DEF NewSocket
<1>7. ASSUME NEW p \in Sides
      PROVE  /\ tun[p] = NewTunnel
             /\ sock[p] = NewSocket(IF p = "sub" THEN "open" ELSE "none")
             /\ wire[p] = IF p = "sub" THEN open ELSE <<>>
  BY DEF Init
<1> HIDE DEF open
<1>8. Shapes
  <2>1. \A p \in Sides : sock[p] \in Socket
    BY <1>4, <1>7
  <2>2. \A p \in Sides : wire[p] \in Seq(Message)
    BY <1>1, <1>2, <1>7
  <2>3. /\ sock = [p \in Sides |-> sock[p]] /\ wire = [p \in Sides |-> wire[p]]
        /\ tun = [p \in Sides |-> NewTunnel] /\ broken = FALSE
    BY <1>7 DEF Init
  <2> QED BY <1>3, <2>1, <2>2, <2>3 DEF Shapes
<1>9. ASSUME NEW p \in Sides
      PROVE  Sender(p, tun[p], sock[p]) /\ Receiver(tun[p], sock[p])
  <2>1. MaxChunks[p] \in Nat /\ QueueSize \in Nat /\ SocketBuffer \in Nat
    BY TunnelAssumption
  <2>2. Sender(p, tun[p], sock[p])
    BY <1>5, <1>6, <1>7, <2>1 DEF Sender
  <2>3. Receiver(tun[p], sock[p])
    BY <1>1, <1>5, <1>6, <1>7, <2>1 DEF Receiver
  <2> QED BY <2>2, <2>3
<1>10. ASSUME NEW p \in Sides
       PROVE  Link(tun[p], wire[p], tun[Other(p)], sock[Other(p)])
  <2> DEFINE t == tun[Other(p)]
             k == sock[Other(p)]
             w == wire[p]
  <2>1. /\ t.rbuf = <<>> /\ k.out = <<>> /\ k.got = <<>> /\ ~t.eof
        /\ tun[p].sent = 0
    BY <1>5, <1>6, <1>7, TwoSides
  <2>2. Len(w) \in {0, 1} /\ \A i \in 1..Len(w) : w[i].type = "open"
    BY <1>1, <1>2, <1>7
  <2> HIDE DEF t, k, w
  <2>3. InOrder(k.got, k.out, t.rbuf) /\ Held(t, k) = 0
    BY <1>1, <2>1 DEF InOrder, Held
  <2>4. Carries(w, 0, 0) /\ EndLast(w, tun[p].finished)
    BY <2>2 DEF Carries, EndLast
  <2>5. Link(tun[p], w, t, k)
    BY <2>1, <2>3, <2>4 DEF Link
  <2> QED BY <2>5 DEF t, k, w
<1>11. Closed
  BY <1>5, <1>7 DEF Closed
<1>12. Handshake
  <2>1. /\ sock["sub"].state = "open" /\ sock["pub"].state = "none"
        /\ wire["sub"] = open /\ wire["pub"] = <<>>
    BY <1>6, <1>7 DEF Sides
  <2>2. \A i \in 1..Len(wire["pub"]) : wire["pub"][i].type # "open"
    BY <1>1, <2>1
  <2>3. \A i \in 1..Len(wire["sub"]) : i = 1 /\ wire["sub"][i].type = "open"
    <3>1. \A i \in 1..Len(open) : i = 1
      BY <1>2
    <3>2. wire["sub"] = open
      BY <2>1
    <3> QED BY <1>2, <3>1, <3>2
  <2>4. \A i \in 1..Len(wire["sub"]) : wire["sub"][i].type # "ok"
    BY <2>3
  <2> QED BY <2>1, <2>2, <2>3, <2>4 DEF Handshake
<1>13. HasReason
  <2>1. \A p \in Sides : ~tun[p].closed /\ sock[p].state # "dead"
    BY <1>5, <1>6, <1>7
  <2>2. \A p \in Sides : \A i \in 1..Len(wire[p]) : wire[p][i].type = "open"
    BY <1>1, <1>2, <1>7
  <2> QED BY <2>1, <2>2 DEF HasReason
<1> QED BY <1>8, <1>9, <1>10, <1>11, <1>12, <1>13 DEF IInv

(* Every step keeps the invariant, and is a step of one side's streams or  *)
(* loses both.                                                             *)
LEMMA NextStep ==
  ASSUME IInv, Next
  PROVE  IInv' /\ (Loses \/ \E p \in Sides : Advances(p))
<1>1. "pub" \in Sides /\ "pub" # "sub"
  BY DEF Sides
<1>2. ASSUME NEW p \in Sides, Works(p)
      PROVE  IInv' /\ Advances(p)
  <2>1. CASE Write(p)
    BY <2>1, WriteStep
  <2>2. CASE Final(p)
    BY <2>2, FinalStep
  <2>3. CASE PipeEnds(p)
    BY <2>3, PipeEndsStep
  <2>4. CASE Drain(p)
    BY <2>4, DrainStep
  <2>5. CASE Pipe(p)
    BY <2>5, PipeStep
  <2>6. CASE SocketWrites(p)
    BY <2>6, SocketWritesStep
  <2>7. CASE SocketFinishes(p)
    BY <2>7, SocketFinishesStep
  <2>8. CASE SocketCloses(p)
    BY <2>8, SocketClosesStep
  <2>9. CASE Receive(p)
    BY <2>9, ReceiveStep
  <2> QED BY <1>2, <2>1, <2>2, <2>3, <2>4, <2>5, <2>6, <2>7, <2>8, <2>9
             DEF Works, Ticks, Events
<1>3. ASSUME NEW p \in Sides, Applications(p)
      PROVE  IInv' /\ Advances(p)
  BY <1>3, SocketReadsStep, SocketEndsStep, SocketDiesStep DEF Applications
<1>4. ASSUME Connects
      PROVE  IInv' /\ Advances("pub")
  BY <1>1, <1>4, TargetConnectsStep, TargetRefusesStep DEF Connects
<1> QED BY <1>1, <1>2, <1>3, <1>4, OuterDiesStep DEF Next

(* The invariant holds of every state.                                     *)
THEOREM TunnelSafe == Spec => []IInv
<1>1. IInv /\ UNCHANGED vars => IInv'
  BY DEF IInv, Shapes, Closed, Handshake, HasReason, Ended, vars
<1>2. IInv /\ [Next]_vars => IInv'
  BY <1>1, NextStep
<1> QED BY <1>2, InitInv, PTL DEF Spec

\* A step of the stream written by the application whose socket goes from s
\* to s2 and given to the one whose socket goes from k to k2.
StreamStep(s, s2, k, k2) ==
  LET written == s2.made = s.made /\ s2.fin = s.fin
      given == k2.got = k.got /\ k2.over = k.over
  IN
  \/ ~s.fin /\ s2.made = s.made + 1 /\ s2.fin = s.fin /\ given
  \/ ~s.fin /\ s2.fin = TRUE /\ s2.made = s.made /\ given
  \/ /\ k.over = "no" /\ Len(k.got) < s.made
     /\ k2.got = Append(k.got, Len(k.got) + 1)
     /\ written /\ k2.over = k.over
  \/ /\ k.over = "no" /\ s.fin /\ Len(k.got) = s.made
     /\ k2.over = "eof" /\ written /\ k2.got = k.got
  \/ k.over = "no" /\ k2.over = "cut" /\ written /\ k2.got = k.got
  \/ written /\ given

(* A step of either side is a step of each stream, or leaves it alone.     *)
LEMMA BothStreams ==
  ASSUME NEW p \in Sides, Loses \/ \E r \in Sides : Advances(r)
  PROVE  StreamStep(sock[p], sock'[p], sock[Other(p)], sock'[Other(p)])
<1> DEFINE q == Other(p)
<1>1. q \in Sides /\ Sides = {p, q} /\ Other(q) = p
  BY TwoSides
<1>2. CASE Loses
  BY <1>1, <1>2 DEF Loses, Keeps, StreamStep
<1>3. CASE Advances(p)
  BY <1>3 DEF Advances, Moves, Keeps, StreamStep
<1>4. CASE Advances(q)
  BY <1>1, <1>4 DEF Advances, Moves, Keeps, StreamStep
<1> QED BY <1>1, <1>2, <1>3, <1>4

(* A stream is cut by a failure, or when both applications have ended.     *)
LEMMA CutsForAReason ==
  ASSUME NEW p \in Sides, Loses \/ \E r \in Sides : Advances(r)
  PROVE  CutOnlyAtTheEnd(p)
<1> DEFINE q == Other(p)
<1>1. q \in Sides /\ Sides = {p, q} /\ Other(q) = p
  BY TwoSides
<1>2. CASE Loses
  BY <1>2 DEF Loses, CutOnlyAtTheEnd
<1>3. CASE Advances(p)
  BY <1>3 DEF Advances, Moves, CutOnlyAtTheEnd
<1>4. CASE Advances(q)
  BY <1>1, <1>4 DEF Advances, CutOnlyAtTheEnd
<1> QED BY <1>1, <1>2, <1>3, <1>4

(* What one side writes reaches the other as a byte stream, in both        *)
(* directions and for any number of chunks and size of the buffers: in     *)
(* order, whole, its end after all of it, and cut only by a failure or     *)
(* when both applications have ended (receive, receiveResume, _write,      *)
(* _final and _read of MuxTunnel).                                         *)
THEOREM TunnelCarriesTwoByteStreams == Spec => CarriesTwoByteStreams
<1>1. "sub" \in Sides /\ Other("sub") = "pub"
      /\ "pub" \in Sides /\ Other("pub") = "sub"
  BY DEF Sides, Other
<1>2. Init => Up!Init /\ Down!Init
  BY <1>1 DEF Init, NewSocket, Up!Init, Down!Init
<1>3. IInv /\ [Next]_vars => [Up!Next]_(Up!vars)
  <2> SUFFICES ASSUME IInv, [Next]_vars
               PROVE  [Up!Next]_(Up!vars)
    OBVIOUS
  <2>1. CASE Next
    <3>1. StreamStep(sock["sub"], sock'["sub"], sock["pub"], sock'["pub"])
      BY <1>1, <2>1, NextStep, BothStreams
    <3> QED BY <3>1 DEF StreamStep, Up!Next, Up!vars, Up!Write, Up!Finish,
                        Up!Deliver, Up!Eof, Up!Cut
  <2>2. CASE UNCHANGED vars
    BY <2>2 DEF vars, Up!vars
  <2> QED BY <2>1, <2>2
<1>4. IInv /\ [Next]_vars => [Down!Next]_(Down!vars)
  <2> SUFFICES ASSUME IInv, [Next]_vars
               PROVE  [Down!Next]_(Down!vars)
    OBVIOUS
  <2>1. CASE Next
    <3>1. StreamStep(sock["pub"], sock'["pub"], sock["sub"], sock'["sub"])
      BY <1>1, <2>1, NextStep, BothStreams
    <3> QED BY <3>1 DEF StreamStep, Down!Next, Down!vars, Down!Write,
                        Down!Finish, Down!Deliver, Down!Eof, Down!Cut
  <2>2. CASE UNCHANGED vars
    BY <2>2 DEF vars, Down!vars
  <2> QED BY <2>1, <2>2
<1>5. IInv /\ [Next]_vars => [\A p \in Sides : CutOnlyAtTheEnd(p)]_vars
  BY NextStep, CutsForAReason
<1>6. Spec => Up!Init /\ [][Up!Next]_(Up!vars)
  BY <1>2, <1>3, TunnelSafe, PTL DEF Spec
<1>7. Spec => Down!Init /\ [][Down!Next]_(Down!vars)
  BY <1>2, <1>4, TunnelSafe, PTL DEF Spec
<1>8. Spec => [][\A p \in Sides : CutOnlyAtTheEnd(p)]_vars
  BY <1>5, TunnelSafe, PTL DEF Spec
<1> QED BY <1>6, <1>7, <1>8 DEF CarriesTwoByteStreams, Up!Spec, Down!Spec
=============================================================================
