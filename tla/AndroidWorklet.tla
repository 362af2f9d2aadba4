--------------------------- MODULE AndroidWorklet ---------------------------
(***************************************************************************)
(* The Android worklet: control requests from the host, one at a time; the *)
(* subscriber runtime they replace; what the host is shown; the registry   *)
(* poll; and the publisher files of a process that is killed and restarted.*)
(*                                                                         *)
(* src/android/worklet/main.ts, src/android/services.ts,                   *)
(* packages/kepos-android-worklet/src/controller.ts; startSubscriber       *)
(* (src/runtime/subscriber.ts) and src/state/subscriber.ts as they use     *)
(* them.  Publishers, disk and sockets do what they are asked or fail.     *)
(***************************************************************************)
EXTENDS Integers, Sequences

CONSTANTS
  Publishers,   \* publisher keys
  None,         \* JavaScript's undefined
  MaxRequests,  \* bound: state-changing requests of the host
  MaxRestarts   \* bound: times the process is killed and started again

Ids == {1, 2}
Places == {"awaits", "stops", "stopped", "writes", "starts"}

ASSUME WorkletAssumption ==
  /\ None \notin Publishers /\ None \notin Ids /\ None \notin Places
  /\ MaxRequests \in Nat /\ MaxRestarts \in Nat

VARIABLES
  disk,      \* publisher.contact.json and publisher.pending.json
  requests,  \* receiveTask's queue
  handler,   \* the request being handled, and where it is
  state,     \* WorkletController.state
  view,      \* configured, connection, connectionError, pairingConnection
  starting,  \* the startSubscriber under way, for connect() or for a pairing
  runtimes,  \* subscriber runtimes
  running,   \* the variable running
  registry,  \* AndroidRegistryState.current: whose registry it is
  required,  \* AndroidRegistryState.refreshRequired
  generation,  \* registryGeneration
  reading,   \* registryTask: its generation, and who answers
  asked,     \* counts requests, for MaxRequests
  restarts   \* counts restarts, for MaxRestarts

hostVars == <<requests, handler, asked>>
viewVars == <<state, view>>
runVars == <<starting, runtimes, running>>
registryVars == <<registry, required, generation, reading>>
vars == <<disk, hostVars, viewVars, runVars, registryVars, restarts>>

Keys == Publishers \cup {None}
Requests == [does : {"configure", "pair"}, key : Publishers]
              \cup [does : {"status", "stop"}, key : {None}]
Idle == [does |-> None, key |-> None, at |-> None]
Gone == [conn |-> "stopped", peer |-> None, pairs |-> FALSE,
         pending |-> FALSE, promoting |-> FALSE, told |-> FALSE]

Handlers == [does : {"configure", "pair", "stop", None}, key : Keys,
             at : Places \cup {None}]
Views == [configured : BOOLEAN, connection : {"offline", "connecting"},
          error : BOOLEAN,
          pairing : {"pairing-connecting", "awaiting-approval", None}]
Starts == [by : {"connect", "pair"}, key : Keys, at : {"loads", "listens"},
           pending : BOOLEAN]
Runtimes == [conn : {"reconnecting", "connected", "over", "stopping",
                     "stopped"},
             peer : Keys, pairs : BOOLEAN, pending : BOOLEAN,
             promoting : BOOLEAN, told : BOOLEAN]

TypeOK ==
  /\ disk \in [active : Keys, pending : Keys]
  /\ requests \in Seq(Requests) /\ handler \in Handlers
  /\ state \in {"running", "stopping", "stopped"} /\ view \in Views
  /\ starting \in {None} \cup Starts
  /\ runtimes \in [Ids -> Runtimes] /\ running \in Ids \cup {None}
  /\ registry \in Keys /\ required \in BOOLEAN /\ generation \in Nat
  /\ reading \in {None} \cup [gen : Nat, from : Publishers]
  /\ asked \in 0..MaxRequests /\ restarts \in 0..MaxRestarts

OnDisk == {disk.active, disk.pending} \ {None}
Connecting(by, key) ==
  [by |-> by, key |-> key, at |-> "loads", pending |-> FALSE]

\* What a process finds; connect() is the last statement of its start.
FoundView ==
  [configured |-> OnDisk # {}, error |-> FALSE,
   connection |-> IF OnDisk # {} THEN "connecting" ELSE "offline",
   pairing |-> IF disk.pending # None THEN "awaiting-approval" ELSE None]
FoundTask == IF OnDisk # {} THEN Connecting("connect", None) ELSE None

Init ==
  /\ disk \in {[active |-> None, pending |-> None]}
                \cup [active : Publishers, pending : {None}]
                \cup [active : {None}, pending : Publishers]
  /\ requests = <<>> /\ handler = Idle /\ state = "running"
  /\ view = FoundView /\ starting = FoundTask
  /\ runtimes = [i \in Ids |-> Gone] /\ running = None
  /\ registry = None /\ required = TRUE /\ generation = 0 /\ reading = None
  /\ asked = 0 /\ restarts = 0

\* The host's process dies, or its stop times out and it closes the session.
Restart ==
  /\ restarts < MaxRestarts /\ restarts' = restarts + 1
  /\ requests' = <<>> /\ handler' = Idle /\ state' = "running"
  /\ view' = FoundView /\ starting' = FoundTask
  /\ runtimes' = [i \in Ids |-> Gone] /\ running' = None
  /\ registry' = None /\ required' = TRUE /\ generation' = 0
  /\ reading' = None /\ asked' = 0
  /\ UNCHANGED disk

-----------------------------------------------------------------------------
(* What the host is shown.                                                 *)

\* RunningSubscriber.status().connection
Status(i) ==
  CASE runtimes[i].conn = "over" -> "connecting"
    [] runtimes[i].conn = "stopping" -> "stopped"
    [] OTHER -> runtimes[i].conn

Link == IF running # None THEN Status(running) ELSE view.connection
Shown ==
  IF view.error THEN "offline"
  ELSE IF view.pairing # None THEN view.pairing ELSE Link

\* status() marks the registry for a refresh unless connected is shown.
Publish(before) == required' = (before \/ Shown' # "connected")
PublishStatus == IF state = "running" THEN Publish(required)
                 ELSE UNCHANGED required

-----------------------------------------------------------------------------
(* Requests.                                                               *)

Stopping == \E i \in DOMAIN requests : requests[i].does = "stop"

\* BareRuntime sends only while it is RUNNING: nothing after a stop.
HostAsks ==
  \E r \in Requests :
    /\ state = "running" /\ ~Stopping /\ handler.does # "stop"
    /\ IF r.does \in {"status", "stop"} THEN requests = <<>> /\ asked' = asked
       ELSE asked < MaxRequests /\ asked' = asked + 1
    /\ requests' = Append(requests, r)
    /\ UNCHANGED <<disk, handler, viewVars, runVars, registryVars, restarts>>

Takes(does) ==
  /\ handler = Idle /\ requests # <<>> /\ Head(requests).does = does
  /\ requests' = Tail(requests)

AnswersStatus ==
  /\ Takes("status")
  /\ UNCHANGED <<disk, handler, asked, viewVars, runVars, registry,
                 generation, reading, restarts>>
  /\ Publish(required)

Forgets ==
  generation' = generation + 1 /\ registry' = None /\ required' = TRUE

ConfigureBegins ==
  /\ Takes("configure")
  /\ handler' = [does |-> "configure", key |-> Head(requests).key,
                 at |-> "awaits"]
  /\ view' = [view EXCEPT !.error = FALSE, !.pairing = None]
  /\ Forgets
  /\ UNCHANGED <<disk, asked, state, runVars, reading, restarts>>

\* Only a subscriber that is still pending may be paired again.
PairBegins ==
  /\ Takes("pair")
  /\ IF view.configured /\ (disk.active # None \/ disk.pending = None)
     THEN UNCHANGED <<handler, view, registry, required, generation>>
     ELSE /\ handler' = [does |-> "pair", key |-> Head(requests).key,
                         at |-> "awaits"]
          /\ view' = [view EXCEPT !.error = FALSE,
                                  !.pairing = "pairing-connecting"]
          /\ Forgets
  /\ UNCHANGED <<disk, asked, state, runVars, reading, restarts>>

\* Also clears the status timer.
StopBegins ==
  /\ Takes("stop")
  /\ state' = "stopping" /\ generation' = generation + 1
  /\ handler' = [does |-> "stop", key |-> None, at |-> "awaits"]
  /\ UNCHANGED <<disk, asked, view, runVars, registry, required, reading,
                 restarts>>

Moves(at) == handler' = [handler EXCEPT !.at = at]

\* await connectTask; await running?.stop()
NeverWaits == handler.at = "awaits"
ConnectTaskEnded == handler.at = "awaits" /\ starting = None
StopsRuntime ==
  /\ ConnectTaskEnded
  /\ IF running = None \/ (running # None /\ runtimes[running] = Gone)
     THEN running' = None /\ Moves("stopped") /\ UNCHANGED runtimes
     ELSE /\ runtimes' = [runtimes EXCEPT ![running].conn = "stopping"]
          /\ Moves("stops") /\ UNCHANGED running
  /\ UNCHANGED <<disk, requests, asked, viewVars, starting, registryVars,
                 restarts>>

HasStopped == handler.at = "stops" /\ ~runtimes[running].promoting
RuntimeStopped ==
  /\ HasStopped
  /\ runtimes' = [runtimes EXCEPT ![running] = Gone] /\ running' = None
  /\ Moves("stopped")
  /\ UNCHANGED <<disk, requests, asked, viewVars, starting, registryVars,
                 restarts>>

\* One of its cleanups failed: the request is answered with that error, and
\* a stop is not answered at all.
RuntimeStopFails ==
  /\ HasStopped
  /\ runtimes' = [runtimes EXCEPT ![running] = Gone]
  /\ handler' = Idle
  /\ UNCHANGED <<disk, requests, asked, viewVars, starting, running,
                 registryVars, restarts>>

\* stopEcho's last statements, and the answer.
StopEnds ==
  /\ handler.does = "stop" /\ handler.at = "stopped"
  /\ state' = "stopped" /\ handler' = Idle
  /\ view' = [view EXCEPT !.connection = "offline", !.pairing = None]
  /\ UNCHANGED <<disk, requests, asked, runVars, registryVars, restarts>>

\* setSubscriberPublisher removes the pending contact before it writes.
RemovesPending == disk' = [disk EXCEPT !.pending = None]
PublisherRemoved ==
  /\ handler.does = "configure" /\ handler.at = "stopped"
  /\ RemovesPending /\ Moves("writes")
  /\ UNCHANGED <<requests, asked, viewVars, runVars, registryVars, restarts>>

PublisherWritten ==
  /\ handler.does = "configure" /\ handler.at = "writes"
  /\ disk' = [disk EXCEPT !.active = handler.key]
  /\ handler' = Idle
  /\ LET connects == running = None /\ starting = None IN
       /\ view' = [view EXCEPT !.configured = TRUE, !.connection =
                     IF connects THEN "connecting" ELSE @]
       /\ starting' = IF connects THEN Connecting("connect", None)
                      ELSE starting
  /\ UNCHANGED <<requests, asked, state, runtimes, running, registry,
                 generation, reading, restarts>>
  /\ Publish(required)

PublisherNotWritten ==
  /\ handler.does = "configure" /\ handler.at \in {"stopped", "writes"}
  /\ handler' = Idle
  /\ UNCHANGED <<disk, requests, asked, viewVars, runVars, registryVars,
                 restarts>>

PairStarts ==
  /\ handler.does = "pair" /\ handler.at = "stopped"
  /\ view' = [view EXCEPT !.configured = FALSE, !.connection = "connecting"]
  /\ starting' = Connecting("pair", handler.key) /\ Moves("starts")
  /\ UNCHANGED <<disk, requests, asked, state, runtimes, running,
                 registryVars, restarts>>

-----------------------------------------------------------------------------
(* startSubscriber.                                                        *)

\* A pairing first records the invited publisher, unless one is approved.
Loads ==
  /\ starting # None /\ starting.at = "loads"
  /\ IF starting.by = "pair"
     THEN disk.active = None /\ disk' = [disk EXCEPT !.pending = starting.key]
     ELSE UNCHANGED disk
  /\ (disk'.active = None) # (disk'.pending = None)
  /\ starting' = [starting EXCEPT !.at = "listens",
                    !.key = IF disk'.active # None THEN disk'.active
                            ELSE disk'.pending,
                    !.pending = disk'.pending # None]
  /\ UNCHANGED <<hostVars, viewVars, runtimes, running, registryVars,
                 restarts>>

Listens ==
  /\ starting # None /\ starting.at = "listens"
  /\ \E i \in Ids :
       /\ runtimes[i] = Gone /\ \A j \in Ids : j < i => runtimes[j] # Gone
       /\ runtimes' = [runtimes EXCEPT ![i] =
            [conn |-> "reconnecting", peer |-> starting.key,
             pairs |-> starting.by = "pair", pending |-> starting.pending,
             promoting |-> FALSE, told |-> FALSE]]
       /\ running' = i
  /\ starting' = None
  /\ IF starting.by = "pair"
     THEN /\ handler' = Idle /\ view' = [view EXCEPT !.configured = TRUE]
          /\ Publish(required)
     ELSE UNCHANGED <<handler, view, required>>
  /\ UNCHANGED <<disk, requests, asked, state, registry, generation, reading,
                 restarts>>

\* An invitation out of date, files, a port in use.
KeepsItsTask == /\ view' = [view EXCEPT !.connection = "offline"]
                /\ starting' = [starting EXCEPT !.at = None]
                /\ UNCHANGED handler
ConnectTaskFails == /\ view' = [view EXCEPT !.connection = "offline"]
                    /\ starting' = None /\ UNCHANGED handler
PairingFails ==
  /\ view' = [configured |-> OnDisk # {}, connection |-> "offline",
              error |-> TRUE, pairing |-> None]
  /\ starting' = None /\ handler' = Idle
StartFails ==
  /\ starting # None
  /\ IF starting.by = "pair" THEN PairingFails ELSE ConnectTaskFails
  /\ UNCHANGED <<disk, requests, asked, state, runtimes, running,
                 registryVars, restarts>>

-----------------------------------------------------------------------------
(* The runtime and its publisher.                                          *)

Set(i, field, value) ==
  runtimes' = [runtimes EXCEPT ![i] = [@ EXCEPT ![field] = value]]

\* pairing.onStatus("awaiting-approval")
RequestIsPending(i) ==
  /\ runtimes[i].conn = "reconnecting" /\ runtimes[i].pairs
  /\ runtimes[i].pending /\ ~runtimes[i].promoting
  /\ view' = [view EXCEPT !.pairing = "awaiting-approval"]
  /\ UNCHANGED <<disk, hostVars, state, runVars, registry, generation,
                 reading, restarts>>
  /\ PublishStatus

\* Approved in answer to a request, or authorised as a known device.
Approves(i) ==
  /\ runtimes[i].conn = "reconnecting" /\ runtimes[i].pending
  /\ ~runtimes[i].promoting /\ Set(i, "promoting", TRUE)
  /\ UNCHANGED <<disk, hostVars, viewVars, starting, running, registryVars,
                 restarts>>

\* promoteSubscriberPendingPublisher; only a pairing's callback tells.
Promoted(i) ==
  /\ runtimes[i].promoting /\ disk.pending # None
  /\ disk' = [active |-> disk.pending, pending |-> None]
  /\ runtimes' = [runtimes EXCEPT ![i].promoting = FALSE,
                                  ![i].pending = FALSE]
  /\ view' = IF runtimes[i].pairs THEN [view EXCEPT !.pairing = None]
             ELSE view
  /\ UNCHANGED <<hostVars, state, starting, running, registryVars, restarts>>

NotPromoted(i) ==
  /\ runtimes[i].promoting /\ Set(i, "promoting", FALSE)
  /\ UNCHANGED <<disk, hostVars, viewVars, starting, running, registryVars,
                 restarts>>

Connects(i) ==
  /\ runtimes[i].conn = "reconnecting" /\ ~runtimes[i].pending
  /\ Set(i, "conn", "connected")
  /\ UNCHANGED <<disk, hostVars, viewVars, starting, running, registryVars,
                 restarts>>

Drops(i) ==
  /\ runtimes[i].conn = "connected" /\ Set(i, "conn", "reconnecting")
  /\ UNCHANGED <<disk, hostVars, viewVars, starting, running, registryVars,
                 restarts>>

\* Denied or expired: onTerminalConnectionError, for the loop that
\* startInBackground began and no other.
PairingEnds(i) ==
  /\ runtimes[i].conn = "reconnecting" /\ runtimes[i].pairs
  /\ runtimes[i].pending /\ ~runtimes[i].promoting
  /\ runtimes' = [runtimes EXCEPT ![i].conn = "over", ![i].told = TRUE]
  /\ UNCHANGED <<disk, hostVars, state, starting, running, registry,
                 generation, reading, restarts>>
  /\ IF runtimes[i].told THEN UNCHANGED <<view, required>>
     ELSE /\ view' = [view EXCEPT !.connection = "offline", !.error = TRUE,
                                  !.pairing = None]
          /\ PublishStatus

\* A client of the gateway makes the connection try again.
Reopens(i) ==
  /\ runtimes[i].conn = "over" /\ Set(i, "conn", "reconnecting")
  /\ UNCHANGED <<disk, hostVars, viewVars, starting, running, registryVars,
                 restarts>>

-----------------------------------------------------------------------------
(* The status timer and the registry.                                      *)

MayRead(must) == Link = "connected" /\ must /\ reading = None

Tick ==
  /\ state = "running"
  /\ UNCHANGED <<disk, hostVars, viewVars, runVars, registry, generation,
                 restarts>>
  /\ LET must == required \/ Link # "connected" IN
       /\ reading' = IF MayRead(must)
                     THEN [gen |-> generation, from |-> runtimes[running].peer]
                     ELSE reading
       /\ Publish(must)

AnswerAlways == TRUE
AnswerInverted == reading.gen # generation
AnswerCounts == reading.gen = generation
RegistryAnswers ==
  /\ reading # None /\ reading' = None
  /\ UNCHANGED <<disk, hostVars, viewVars, runVars, generation, restarts>>
  /\ IF AnswerCounts
     THEN /\ registry' = reading.from
          /\ IF state = "running" THEN Publish(FALSE) ELSE required' = FALSE
     ELSE UNCHANGED <<registry, required>>

RegistryFails ==
  /\ reading # None /\ reading' = None
  /\ UNCHANGED <<disk, hostVars, viewVars, runVars, registry, required,
                 generation, restarts>>

-----------------------------------------------------------------------------
Handles ==
  \/ AnswersStatus \/ ConfigureBegins \/ PairBegins \/ StopBegins
  \/ StopsRuntime \/ RuntimeStopped \/ RuntimeStopFails \/ StopEnds
  \/ PublisherRemoved \/ PublisherWritten \/ PublisherNotWritten
  \/ PairStarts \/ Loads \/ Listens \/ StartFails
Promotes == \E i \in Ids : Promoted(i) \/ NotPromoted(i)

\* What follows a promise that has settled runs before any timer or socket.
Settled == handler.at = "awaits" => starting # None
Events ==
  \/ Tick \/ RegistryAnswers \/ RegistryFails \/ HostAsks \/ Restart
  \/ \E i \in Ids : \/ RequestIsPending(i) \/ Approves(i) \/ Connects(i)
                    \/ Drops(i) \/ PairingEnds(i) \/ Reopens(i)

Next == Handles \/ Promotes \/ (Settled /\ Events)

Spec == Init /\ [][Next]_vars

\* Promises settle, the timer fires, and a registry that is asked for again
\* and again is once answered.
FairSpec ==
  /\ Spec /\ WF_vars(Handles) /\ WF_vars(Promotes) /\ WF_vars(Tick)
  /\ WF_vars(RegistryAnswers \/ RegistryFails) /\ SF_vars(RegistryAnswers)

-----------------------------------------------------------------------------
(* Properties.                                                             *)

\* A contact and a pending contact are never both on disk, where no new process
\* would load them; at most one subscriber runtime exists, and it talks to the
\* publisher on disk: requests, the connection made at start-up, approvals that
\* arrive while a runtime is being stopped, and kills included.
RunsWhatIsOnDisk ==
  /\ disk.active = None \/ disk.pending = None
  /\ \A i \in Ids : runtimes[i] # Gone =>
       /\ runtimes[i].peer \in OnDisk
       /\ \A j \in Ids : runtimes[j] # Gone => i = j

\* The services shown are those of the publisher on disk, never those a read
\* fetched from the one that was replaced meanwhile.
RegistryIsThePublishers == registry # None => registry \in OnDisk

\* Every request is answered, or its failed stop has left nothing running.
RequestsAreAnswered ==
  (requests # <<>> \/ handler # Idle) ~> (requests = <<>> /\ handler = Idle)

\* A connection that lasts gets the services of its own publisher shown, for
\* good, however often reading them fails, whatever was shown before it; and
\* where the worklet has noticed that a connection was lost, they have been
\* read since, unless an error or a pairing hides the connection.
ConnectionLasts ==
  /\ state = "running" /\ handler = Idle /\ requests = <<>>
  /\ Link = "connected"
ShowsItsServices ==
  /\ running # None /\ registry = runtimes[running].peer
  /\ required => Shown # "connected"
RegistryArrives == <>[]ConnectionLasts => <>[]ShowsItsServices

\* A subscriber that is connected to its approved publisher is shown as
\* connected, or with the error of an earlier pairing.
ApprovalIsShown ==
  running # None =>
    (Status(running) = "connected" => Shown \in {"connected", "offline"})
=============================================================================
