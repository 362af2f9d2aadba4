------------------------------- MODULE Gateway -------------------------------
(***************************************************************************)
(* The local side of a service open: HTTP clients of the gateway and TCP   *)
(* clients of a service listener wait, with a time limit and the right to  *)
(* hang up, for a tunnel over a publisher connection that dies and comes   *)
(* back under them.                                                        *)
(*                                                                         *)
(* src/home/gateway.ts (routeSocket); listenSubscriberService,             *)
(* openAndBridge and PublisherConnection.open with its cancellation in     *)
(* src/runtime/subscriber.ts.  How the connection is made is               *)
(* SubscriberConnection, what a bridged tunnel carries is MuxTunnel.       *)
(***************************************************************************)
EXTENDS Integers, FiniteSets

CONSTANTS
  Http, Tcp,  \* clients of the gateway, and of a service listener
  MaxMuxes    \* bound: connections to the publisher

ASSUME GatewayAssumption ==
  Http \cap Tcp = {} /\ MaxMuxes \in Nat

Clients == Http \cup Tcp
Muxes == 1..MaxMuxes
NoMux == 0

\* Why open() rejected.
Reasons == {"aborted", "refused", "stopped", "terminal", "lost"}

VARIABLES
  stopped,  \* the subscriber has been stopped
  muxes,    \* connections that were made
  current,  \* the current one
  looping,  \* reconnect() is under way
  at,       \* where a client's handler is
  over,     \* the connection it opens its tunnel on, or has it on
  socket,   \* the client's socket
  timer,    \* its acquisition timer
  aborted,  \* its abort signal
  answer,   \* the status it was answered with, and why
  late,     \* opens nobody waits for any more
  tunnels   \* tunnels that are open

connVars == <<stopped, muxes, current, looping>>
clientVars == <<at, over, socket, timer, aborted, answer, late, tunnels>>
gatewayVars == <<connVars, clientVars>>

Answers ==
  [status : {421, 431, 503}, why : {"none"}]
    \cup [status : {502}, why : Reasons]

GatewayTypeOK ==
  /\ stopped \in BOOLEAN /\ looping \in BOOLEAN
  /\ muxes \in [Muxes -> {"none", "up", "down"}]
  /\ current \in Muxes \cup {NoMux}
  /\ at \in [Clients -> {"header", "toolong", "loop", "joining", "opening",
                         "sleeping", "bridged", "done"} \cup Reasons]
  /\ over \in [Clients -> Muxes \cup {NoMux}]
  /\ socket \in [Clients -> {"absent", "open", "ended", "destroyed",
                             "closed"}]
  /\ timer \in [Clients -> {"off", "armed", "fired"}]
  /\ aborted \in [Clients -> BOOLEAN]
  /\ answer \in [Clients -> SUBSET Answers]
  /\ late \subseteq Clients \X Muxes /\ tunnels \subseteq Clients \X Muxes

GatewayInit ==
  /\ stopped = FALSE /\ muxes = [m \in Muxes |-> "none"]
  /\ current = NoMux /\ looping = TRUE
  /\ at = [c \in Clients |-> "header"] /\ over = [c \in Clients |-> NoMux]
  /\ socket = [c \in Clients |-> "absent"]
  /\ timer = [c \in Clients |-> "off"]
  /\ aborted = [c \in Clients |-> FALSE]
  /\ answer = [c \in Clients |-> {}] /\ late = {} /\ tunnels = {}

-----------------------------------------------------------------------------
(* Clients.                                                                *)

Accepts(c) ==
  /\ socket[c] = "absent" /\ ~stopped
  /\ socket' = [socket EXCEPT ![c] = "open"]
  /\ IF c \in Tcp
     THEN /\ at' = [at EXCEPT ![c] = "loop"]
          /\ timer' = [timer EXCEPT ![c] = "armed"]
     ELSE UNCHANGED <<at, timer>>
  /\ UNCHANGED <<connVars, over, aborted, answer, late, tunnels>>

\* replyAndClose.
Reply(c, status, why) ==
  IF socket[c] \in {"destroyed", "closed"} THEN UNCHANGED <<socket, answer>>
  ELSE /\ socket' = [socket EXCEPT ![c] = "ended"]
       /\ answer' = [answer EXCEPT ![c] =
            @ \cup {[status |-> status, why |-> why]}]

\* The terminator is found and names a service.
Asks(c) ==
  /\ c \in Http /\ socket[c] = "open" /\ at[c] = "header"
  /\ at' = [at EXCEPT ![c] = "loop"]
  /\ timer' = [timer EXCEPT ![c] = "armed"]
  /\ UNCHANGED <<connVars, over, socket, aborted, answer, late, tunnels>>

\* It names none.
Misdirected(c) ==
  /\ c \in Http /\ socket[c] = "open" /\ at[c] = "header"
  /\ at' = [at EXCEPT ![c] = "done"] /\ Reply(c, 421, "none")
  /\ UNCHANGED <<connVars, over, timer, aborted, late, tunnels>>

\* The handler stays attached: what the client sends after the answer is
\* answered again, and writing after the end destroys the socket.
TooLong(c) ==
  /\ c \in Http
  /\ \/ /\ socket[c] = "open" /\ at[c] = "header"
        /\ at' = [at EXCEPT ![c] = "toolong"] /\ Reply(c, 431, "none")
     \/ /\ socket[c] = "ended" /\ at[c] = "toolong"
        /\ at' = [at EXCEPT ![c] = "done"]
        /\ socket' = [socket EXCEPT ![c] = "destroyed"] /\ UNCHANGED answer
  /\ UNCHANGED <<connVars, over, timer, aborted, late, tunnels>>

\* socket.setTimeout, until the header is complete.
HeaderTimesOut(c) ==
  /\ c \in Http /\ socket[c] \in {"open", "ended"}
  /\ at[c] \in {"header", "toolong"}
  /\ socket' = [socket EXCEPT ![c] = "destroyed"]
  /\ at' = [at EXCEPT ![c] = "done"]
  /\ UNCHANGED <<connVars, over, timer, aborted, answer, late, tunnels>>

-----------------------------------------------------------------------------
(* The acquisition.                                                        *)

\* One turn of the loop in open().
Loop(c) ==
  /\ at[c] = "loop"
  /\ IF stopped \/ aborted[c]
     THEN /\ at' = [at EXCEPT ![c] = IF stopped THEN "stopped" ELSE "aborted"]
          /\ UNCHANGED <<over, looping>>
     ELSE /\ at' = [at EXCEPT ![c] = IF current = NoMux THEN "joining"
                                     ELSE "opening"]
          /\ over' = [over EXCEPT ![c] = current]
          /\ looping' = (looping \/ current = NoMux)
  /\ UNCHANGED <<stopped, muxes, current, socket, timer, aborted, answer,
                 late, tunnels>>

Wakes(c) ==
  /\ at[c] = "sleeping" /\ at' = [at EXCEPT ![c] = "loop"]
  /\ UNCHANGED <<connVars, over, socket, timer, aborted, answer, late,
                 tunnels>>

\* The publisher accepts the channel.
ClearsTheTimer(c) == timer' = [timer EXCEPT ![c] = "off"]
TunnelOpens(c) ==
  /\ at[c] = "opening" /\ muxes[over[c]] = "up"
  /\ IF socket[c] = "open"
     THEN /\ at' = [at EXCEPT ![c] = "bridged"]
          /\ tunnels' = tunnels \cup {<<c, over[c]>>}
     ELSE at' = [at EXCEPT ![c] = "done"] /\ UNCHANGED tunnels
  /\ ClearsTheTimer(c)
  /\ UNCHANGED <<connVars, over, socket, aborted, answer, late>>

\* It rejects the service over a connection that works.
Refused(c) ==
  /\ at[c] = "opening" /\ muxes[over[c]] = "up"
  /\ at' = [at EXCEPT ![c] = "refused"]
  /\ UNCHANGED <<connVars, over, socket, timer, aborted, answer, late,
                 tunnels>>

\* The promise of open() is rejected.
Always(c) == TRUE
MayAnswer(c) == timer[c] # "fired"
Rejected(c) ==
  /\ at[c] \in Reasons
  /\ at' = [at EXCEPT ![c] = "done"]
  /\ timer' = [timer EXCEPT ![c] = IF @ = "armed" THEN "off" ELSE @]
  /\ IF c \in Tcp
     THEN /\ UNCHANGED answer
          /\ socket' = [socket EXCEPT ![c] = IF @ = "closed" THEN @
                                             ELSE "destroyed"]
     ELSE IF MayAnswer(c) THEN Reply(c, 502, at[c])
          ELSE UNCHANGED <<socket, answer>>
  /\ UNCHANGED <<connVars, over, aborted, late, tunnels>>

\* waitWithAbort lets go of what it waits for; a sleep runs to its end.
OnlyTheOpen(c) == at[c] = "opening"
LetsGo(c) == at[c] \in {"joining", "opening"}
Outstanding(c) == at[c] = "opening"
Abort(c) ==
  /\ aborted' = [aborted EXCEPT ![c] = TRUE]
  /\ IF LetsGo(c) THEN at' = [at EXCEPT ![c] = "aborted"] ELSE UNCHANGED at
  /\ late' = IF Outstanding(c) THEN late \cup {<<c, over[c]>>} ELSE late

AcquisitionTimesOut(c) ==
  /\ timer[c] = "armed" /\ timer' = [timer EXCEPT ![c] = "fired"]
  /\ Abort(c)
  /\ IF c \in Http THEN Reply(c, 503, "none")
     ELSE /\ UNCHANGED answer
          /\ socket' = [socket EXCEPT ![c] = IF @ = "closed" THEN @
                                             ELSE "destroyed"]
  /\ UNCHANGED <<connVars, over, tunnels>>

\* openWithAbort: the open it let go of ends after all.
LeavesTheLate(t) == tunnels' = tunnels \cup {t}
DestroysTheLate(t) == UNCHANGED tunnels
LateAnswer ==
  \E t \in late :
    /\ late' = late \ {t} /\ DestroysTheLate(t)
    /\ UNCHANGED <<connVars, at, over, socket, timer, aborted, answer>>

-----------------------------------------------------------------------------
(* The end of a socket, a tunnel, a connection.                            *)

\* The client hangs up, or its socket breaks.
SocketBreaks(c) ==
  /\ socket[c] \in {"open", "ended"}
  /\ socket' = [socket EXCEPT ![c] = "destroyed"]
  /\ at' = [at EXCEPT ![c] = IF @ \in {"header", "toolong"} THEN "done" ELSE @]
  /\ UNCHANGED <<connVars, over, timer, aborted, answer, late, tunnels>>

\* The event "close".
SocketCloses(c) ==
  /\ socket[c] = "destroyed" /\ socket' = [socket EXCEPT ![c] = "closed"]
  /\ Abort(c)
  /\ tunnels' = {t \in tunnels : t[1] # c \/ at[c] # "bridged"}
  /\ UNCHANGED <<connVars, over, timer, answer>>

Without(t) ==
  /\ tunnels' = tunnels \ t
  /\ socket' = [c \in Clients |->
       IF socket[c] = "open" /\ \E x \in t : x[1] = c THEN "destroyed"
       ELSE socket[c]]

TunnelCloses ==
  /\ \E t \in tunnels : Without({t})
  /\ UNCHANGED <<connVars, at, over, timer, aborted, answer, late>>

Connects ==
  \E m \in Muxes :
    /\ looping /\ ~stopped /\ muxes[m] = "none"
    /\ \A n \in Muxes : n < m => muxes[n] # "none"
    /\ muxes' = [muxes EXCEPT ![m] = "up"]
    /\ current' = m /\ looping' = FALSE
    /\ at' = [c \in Clients |-> IF at[c] = "joining" THEN "opening"
                                ELSE at[c]]
    /\ over' = [c \in Clients |-> IF at[c] = "joining" THEN m ELSE over[c]]
    /\ UNCHANGED <<stopped, socket, timer, aborted, answer, late, tunnels>>

\* An invitation that was refused or has expired ends the loop.
ReconnectEnds ==
  /\ looping /\ ~stopped /\ looping' = FALSE
  /\ at' = [c \in Clients |-> IF at[c] = "joining" THEN "terminal"
                              ELSE at[c]]
  /\ UNCHANGED <<stopped, muxes, current, over, socket, timer, aborted, answer,
                 late, tunnels>>

\* An open that fails because the connection has died is tried again.
GivesUp == "lost"
TriesAgain == "sleeping"
Loses(m, joiners) ==
  /\ muxes' = [muxes EXCEPT ![m] = "down"] /\ current' = NoMux
  /\ at' = [c \in Clients |->
       CASE at[c] = "opening" /\ over[c] = m -> TriesAgain
         [] at[c] = "joining" -> joiners
         [] OTHER -> at[c]]
  /\ late' = {t \in late : t[2] # m}
  /\ Without({t \in tunnels : t[2] = m})

ConnectionDies ==
  /\ current # NoMux /\ Loses(current, "joining") /\ looping' = TRUE
  /\ UNCHANGED <<stopped, over, timer, aborted, answer>>

GatewayStops ==
  /\ ~stopped /\ stopped' = TRUE /\ looping' = FALSE
  /\ IF current # NoMux THEN Loses(current, "stopped")
     ELSE /\ at' = [c \in Clients |-> IF at[c] = "joining" THEN "stopped"
                                      ELSE at[c]]
          /\ UNCHANGED <<muxes, current, socket, late, tunnels>>
  /\ UNCHANGED <<over, timer, aborted, answer>>

-----------------------------------------------------------------------------
Local(c) ==
  \/ Loop(c) \/ Wakes(c) \/ Rejected(c) \/ SocketCloses(c)
  \/ HeaderTimesOut(c) \/ AcquisitionTimesOut(c)

GatewayNext ==
  \/ \E c \in Clients :
       \/ Local(c) \/ Accepts(c) \/ Asks(c) \/ Misdirected(c) \/ TooLong(c)
       \/ TunnelOpens(c) \/ Refused(c) \/ SocketBreaks(c)
  \/ LateAnswer \/ TunnelCloses
  \/ Connects \/ ReconnectEnds \/ ConnectionDies \/ GatewayStops

GatewaySpec == GatewayInit /\ [][GatewayNext]_gatewayVars

\* Timers fire and callbacks run; the publisher need not do anything.
GatewayFairSpec == GatewaySpec /\ \A c \in Clients : WF_gatewayVars(Local(c))

-----------------------------------------------------------------------------
(* Properties.                                                             *)

\* No tunnel is left open without its client: not the one that arrives after
\* the time-out or after the client has gone.
NoLeakedTunnel ==
  \A t \in tunnels :
    at[t[1]] = "bridged" /\ socket[t[1]] # "closed" /\ muxes[t[2]] = "up"

\* A client is answered once at the most, and never on a socket that has been
\* handed to a tunnel: 503 excludes 502 and both exclude the service's bytes.
OneAnswer ==
  \A c \in Clients :
    /\ Cardinality(answer[c]) <= 1
    /\ answer[c] # {} => at[c] # "bridged"

\* 502 tells the client of a refusal or of the end of the subscriber; the loss
\* of a connection is hidden from it.
BadGatewayIsReal ==
  \A c \in Clients : \A a \in answer[c] :
    a.status = 502 => a.why \in {"refused", "stopped", "terminal"}

\* Every client is served, answered or disconnected, whatever becomes of the
\* connection to the publisher.
EveryClientIsSettled ==
  \A c \in Clients :
    socket[c] = "open" ~> (at[c] \in {"bridged", "done"})
=============================================================================
