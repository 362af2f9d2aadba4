--------------------------- MODULE DesktopRuntime ---------------------------
(***************************************************************************)
(* The desktop runtime: one DHT node, a publisher and a subscriber role    *)
(* with their runtime locks, reconfiguration while they run, stop, and the *)
(* poll that reads the publisher's registry over the current connection.   *)
(*                                                                         *)
(* apps/desktop/src/runtime.ts (startDesktopRuntime).  Its dependencies    *)
(* (locks, DHT node, role runtimes, the clock) either do what they are     *)
(* asked or fail.  An action ends where the code awaits one of them.       *)
(***************************************************************************)
EXTENDS Integers, FiniteSets

CONSTANTS
  Configs,        \* role configurations; each names its own state directory
  Publishers,     \* what the contact of a subscriber may name
  Boots,          \* bootstrap lists
  Launches,       \* what the process may be launched with: roles, boot
  Targets,        \* what it may be reconfigured to: roles, boot
  None,           \* JavaScript's undefined
  MaxRounds,      \* bound: the launch and the reconfigurations after it
  MaxGenerations  \* bound: connections of one subscriber

Roles == {"publisher", "subscriber"}
Readers == {"poll", "start"}

Settings == [roles : [Roles -> Configs \cup {None}], boot : Boots]

ASSUME DesktopAssumption ==
  /\ None \notin Configs \cup Publishers /\ MaxRounds \in Nat \ {0}
  /\ MaxGenerations \in Nat \ {0}
  /\ Launches \subseteq Settings /\ Targets \subseteq Settings
  /\ \A s \in Launches : \E r \in Roles : s.roles[r] # None

VARIABLES
  stopped,   \* stop() has been called
  mode,      \* what the running task is: "launch", "apply", "stop", "abandon"
  pc,        \* where it is
  round,     \* configurations applied so far; names DHT nodes and runtimes
  target, targetBoot,  \* applyConfiguration's argument
  changed,   \* the roles it changes
  moved,     \* transportChanged
  awaited,   \* it still awaits the poll that was in flight
  todo,      \* roles whose cleanup has not begun
  failure,   \* the first failure of the cleanups
  opt, boot, \* publisherOptions and subscriberOptions, bootstrap
  prep,      \* role preparation
  lock,      \* the lock variables: the configuration whose lock they hold
  held,      \* the lock files of this process
  refused,   \* history: locks whose last release failed
  stage,     \* where each role's own task is
  run,       \* runningPublisher and runningSubscriber, by round
  peer,      \* runningSubscriber.publisherKey
  ranOn,     \* history: the DHT node each role was started on
  dht,       \* the DHT node, by round
  phase,     \* the phase each role is shown in
  conn,      \* status() of the running subscriber
  read,      \* the registry reads in flight: of which publisher, and the
             \* connection generation they began with
  registry,  \* the registry: its publisher, and the generation of its read
  refreshed, observed, resetFor, \* the three ...Generation variables
  retryDue,  \* now() >= nextRegistryAttemptAt
  resetDue,  \* now() >= nextForcedResetAt
  shown      \* the services of the subscriber role shown last

taskVars == <<mode, pc, round, target, targetBoot, changed, moved, awaited,
              todo, failure>>
roleVars == <<opt, boot, prep, stage, run, peer, ranOn, dht>>
lockVars == <<lock, held, refused>>
genVars == <<registry, refreshed, observed, resetFor, retryDue, resetDue>>
viewVars == <<phase, shown>>
vars == <<stopped, taskVars, roleVars, lockVars, conn, read, genVars, viewVars>>

Rounds == 1..MaxRounds
Links == [up : BOOLEAN, gen : 0..MaxGenerations]
Reads == [key : Publishers, gen : 1..MaxGenerations]
NoLink == [up |-> FALSE, gen |-> 0]
NoServices == [available |-> FALSE, key |-> None, gen |-> 0]

TypeOK ==
  /\ stopped \in BOOLEAN /\ moved \in BOOLEAN /\ awaited \in BOOLEAN
  /\ failure \in BOOLEAN /\ retryDue \in BOOLEAN /\ resetDue \in BOOLEAN
  /\ mode \in {"launch", "apply", "stop", "abandon"}
  /\ pc \in {"prepare", "transport", "start", "idle", "drain", "cleanup",
             "done", "dead"}
  /\ round \in Rounds /\ boot \in Boots /\ targetBoot \in Boots
  /\ target \in [Roles -> Configs \cup {None}]
  /\ changed \subseteq Roles /\ todo \subseteq Roles
  /\ opt \in [Roles -> Configs \cup {None}]
  /\ lock \in [Roles -> Configs \cup {None}]
  /\ held \subseteq Roles \X Configs /\ refused \subseteq held
  /\ prep \in [Roles -> {"none", "busy", "ok", "failed"}]
  /\ stage \in [Roles -> {"idle", "starting", "reading", "closing",
                          "releasing"}]
  /\ run \in [Roles -> Rounds \cup {None}]
  /\ peer \in Publishers \cup {None}
  /\ ranOn \in [Roles -> Rounds \cup {None}] /\ dht \in Rounds \cup {None}
  /\ phase \in [Roles -> {"absent", "starting", "running", "stopping",
                          "failed", "stopped"}]
  /\ conn \in Links /\ read \in [Readers -> Reads \cup {None}]
  /\ registry \in Reads \cup {None}
  /\ refreshed \in 1..MaxGenerations \cup {None}
  /\ observed \in 1..MaxGenerations \cup {None}
  /\ resetFor \in 1..MaxGenerations \cup {None}
  /\ shown \in [available : BOOLEAN, key : Publishers \cup {None},
                gen : 0..MaxGenerations]

Configured(c) == {r \in Roles : c[r] # None}
InitialPhase(c) ==
  [r \in Roles |-> IF c[r] = None THEN "absent" ELSE "starting"]

\* The host has taken both locks.
Init ==
  /\ \E s \in Launches : opt = s.roles /\ boot = s.boot
  /\ target = opt /\ targetBoot = boot
  /\ lock = opt /\ held = {<<r, opt[r]>> : r \in Configured(opt)}
  /\ refused = {}
  /\ stopped = FALSE /\ mode = "launch" /\ pc = "prepare" /\ round = 1
  /\ changed = Configured(opt) /\ moved = TRUE /\ awaited = FALSE
  /\ todo = {} /\ failure = FALSE
  /\ prep = [r \in Roles |-> IF opt[r] = None THEN "none" ELSE "busy"]
  /\ stage = [r \in Roles |-> "idle"]
  /\ run = [r \in Roles |-> None] /\ ranOn = run /\ dht = None
  /\ peer = None
  /\ phase = InitialPhase(opt) /\ shown = NoServices
  /\ conn = NoLink /\ read = [x \in Readers |-> None]
  /\ registry = None /\ refreshed = None /\ observed = None
  /\ resetFor = None /\ retryDue = TRUE /\ resetDue = TRUE

-----------------------------------------------------------------------------
(* The registry, read over the subscriber's connection.                    *)

\* createSubscriberRole: what is shown for a status.
Show(link, reg, current) ==
  [available |-> link.up /\ reg # None /\ current, key |-> peer,
   gen |-> link.gen]

\* updateSubscriberRole up to its await.  A new connection forgets the error
\* and the retry of the one before.
Fresh(link) == link.up /\ link.gen # observed
ReadsNow(link) ==
  link.up /\ link.gen # refreshed /\ (Fresh(link) \/ retryDue)

UpdateSubscriber(reader, link, key) ==
  /\ IF Fresh(link)
       THEN observed' = link.gen /\ resetFor' = None /\ retryDue' = TRUE
       ELSE UNCHANGED <<observed, resetFor, retryDue>>
  /\ IF ReadsNow(link)
       THEN /\ read' = [read EXCEPT ![reader] = [key |-> key,
                                                  gen |-> link.gen]]
            /\ UNCHANGED shown
       ELSE /\ shown' = [Show(link, registry, refreshed = link.gen)
                           EXCEPT !.key = key]
            /\ UNCHANGED read
  /\ UNCHANGED <<registry, refreshed, resetDue>>

\* Does the answer of a read still concern the connection in use?  The
\* generations of each subscriber start at 1, so an answer to a subscriber that
\* was replaced meanwhile may pass.
AnswerCounts(x) ==
  /\ conn.up /\ conn.gen = read[x].gen /\ observed = read[x].gen

\* The registry must be of the publisher the subscriber is connected to; an
\* answer that is not is a failure.
FromAnyone(x) == TRUE
FromItsPublisher(x) == read[x].key = peer

Accept(x) ==
  /\ FromItsPublisher(x)
  /\ registry' = read[x] /\ refreshed' = read[x].gen
  /\ retryDue' = TRUE /\ resetDue' = TRUE
  /\ shown' = Show(conn, read[x], read[x].gen = conn.gen)
  /\ UNCHANGED <<observed, resetFor, conn>>

\* No answer in time is worth one new connection, unless one was forced
\* lately; any other failure is tried again later.
MayReset(x) == resetFor # read[x].gen /\ resetDue
Fail(x, timedOut) ==
  /\ retryDue' = FALSE
  /\ IF timedOut /\ MayReset(x)
       THEN /\ resetFor' = read[x].gen /\ resetDue' = FALSE
            /\ conn' = [conn EXCEPT !.up = conn.gen # read[x].gen]
       ELSE UNCHANGED <<resetFor, resetDue, conn>>
  /\ shown' = Show(conn', registry, refreshed = conn.gen)
  /\ UNCHANGED <<observed, registry, refreshed>>

ReadEnds(x) ==
  /\ read[x] # None
  /\ read' = [read EXCEPT ![x] = None]
  /\ IF x = "poll" THEN awaited' = FALSE /\ UNCHANGED stage
     ELSE stage' = [stage EXCEPT !["subscriber"] = "idle"] /\ UNCHANGED awaited
  /\ UNCHANGED <<stopped, mode, pc, round, target, targetBoot, changed, moved,
                 todo, failure, opt, boot, prep, run, peer, ranOn, dht,
                 lockVars>>

\* No subscriber runs at the moment: status() of undefined throws.
AnswerLost(x) ==
  /\ stopped \/ run["subscriber"] = None
  /\ ReadEnds(x)
  /\ UNCHANGED <<conn, genVars, viewVars>>

Answered(x) ==
  /\ ~stopped /\ run["subscriber"] # None
  /\ read[x] # None
  /\ IF AnswerCounts(x)
       THEN Accept(x) \/ Fail(x, FALSE) \/ Fail(x, TRUE)
       ELSE /\ shown' = Show(conn, registry, refreshed = conn.gen)
            /\ UNCHANGED <<conn, genVars>>
  /\ phase' = [phase EXCEPT !["subscriber"] = "running"]
  /\ ReadEnds(x)

\* The host's timer.  One poll at a time; updatePublisherRole and the start of
\* updateSubscriberRole run at once.
Poll ==
  /\ pc # "dead" /\ mode # "launch" /\ read["poll"] = None /\ ~stopped
  /\ IF run["subscriber"] # None
       THEN UpdateSubscriber("poll", conn, peer)
       ELSE UNCHANGED <<read, genVars, shown>>
  /\ phase' = [r \in Roles |->
                 IF run[r] # None /\ (r = "publisher" \/ read' = read)
                 THEN "running" ELSE phase[r]]
  /\ UNCHANGED <<stopped, taskVars, roleVars, lockVars, conn>>

RetryFallsDue ==
  /\ ~retryDue
  /\ retryDue' = TRUE
  /\ UNCHANGED <<stopped, taskVars, roleVars, lockVars, conn, read, registry,
                 refreshed, observed, resetFor, resetDue, viewVars>>

ResetFallsDue ==
  /\ ~resetDue
  /\ resetDue' = TRUE
  /\ UNCHANGED <<stopped, taskVars, roleVars, lockVars, conn, read, registry,
                 refreshed, observed, resetFor, retryDue, viewVars>>

\* install() counts a generation up for each connection of a subscriber.
SubscriberConnects ==
  /\ run["subscriber"] # None /\ ~conn.up /\ conn.gen < MaxGenerations
  /\ conn' = [up |-> TRUE, gen |-> conn.gen + 1]
  /\ UNCHANGED <<stopped, taskVars, roleVars, lockVars, read, genVars,
                 viewVars>>

SubscriberDisconnects ==
  /\ conn.up
  /\ conn' = [conn EXCEPT !.up = FALSE]
  /\ UNCHANGED <<stopped, taskVars, roleVars, lockVars, read, genVars,
                 viewVars>>

-----------------------------------------------------------------------------
(* Preparation: take the lock unless it is held, load the role's state.    *)

NotTaken(r) == lock

Prepare(r) ==
  /\ pc = "prepare" /\ prep[r] = "busy"
  /\ \/ lock[r] # None /\ UNCHANGED <<lock, held>>
        /\ prep' \in {[prep EXCEPT ![r] = p] : p \in {"ok", "failed"}}
     \/ /\ lock[r] = None /\ <<r, opt[r]>> \notin held
        /\ lock' = [lock EXCEPT ![r] = opt[r]]
        /\ held' = held \cup {<<r, opt[r]>>}
        /\ prep' \in {[prep EXCEPT ![r] = p] : p \in {"ok", "failed"}}
     \/ /\ lock[r] = None
        /\ prep' = [prep EXCEPT ![r] = "failed"]
        /\ lock' = NotTaken(r) /\ UNCHANGED held
  /\ UNCHANGED <<stopped, taskVars, opt, boot, stage, run, peer, ranOn, dht,
                 refused, conn, read, genVars, viewVars>>

\* The next task may begin.
Settle == mode' = "apply" /\ pc' = "idle"

\* A configuration that failed to apply does not stop the queue.
TailRejects == mode' = "apply" /\ pc' = "dead"
Rejected == Settle

StartRoles ==
  /\ pc' = "start" /\ UNCHANGED mode
  /\ stage' = [r \in Roles |-> IF r \in changed /\ opt[r] # None
                               THEN "starting" ELSE stage[r]]

\* markTransportFailure
TransportFailure ==
  /\ phase' = [r \in Roles |-> IF target[r] = None THEN "absent" ELSE "failed"]
  /\ UNCHANGED <<boot, stage>>

\* The node is replaced when it has to be, then the roles are started.  A
\* launch without a node gives up, a reconfiguration only fails.
Transport ==
  /\ pc = "prepare" /\ \A r \in Roles : prep[r] # "busy"
  /\ \/ /\ IF moved THEN dht' = round /\ boot' = targetBoot
                    ELSE UNCHANGED <<dht, boot>>
        /\ IF stopped THEN Settle /\ UNCHANGED stage ELSE StartRoles
        /\ UNCHANGED <<phase, todo>>
     \/ /\ mode = "launch" /\ TransportFailure
        /\ mode' = "abandon" /\ pc' = "cleanup" /\ todo' = Roles
        /\ UNCHANGED dht
     \/ /\ mode = "apply" /\ moved /\ TransportFailure /\ Rejected
        /\ dht' \in {None, dht}
        /\ UNCHANGED todo
  /\ UNCHANGED <<stopped, round, target, targetBoot, changed, moved, awaited,
                 failure, opt, prep, run, peer, ranOn, lockVars, conn, read,
                 genVars, shown>>

-----------------------------------------------------------------------------
(* Starting a role, and cleaning it up: stop the runtime, release the lock. *)

\* startPublisher or startSubscriber resolves; a new subscriber may already
\* have a connection, and then its registry is read before the start is over.
\* Its contact file may have changed since the last start, and a poll's read of
\* the subscriber before it may still be in flight.
RoleStarts(r) ==
  /\ stage[r] = "starting" /\ prep[r] = "ok"
  /\ run' = [run EXCEPT ![r] = round] /\ ranOn' = [ranOn EXCEPT ![r] = dht]
  /\ IF r = "publisher"
       THEN UNCHANGED <<peer, conn, read, genVars, shown>>
       ELSE /\ peer' \in Publishers
            /\ conn' \in {NoLink, [up |-> TRUE, gen |-> 1]}
            /\ UpdateSubscriber("start", conn', peer')
  /\ stage' = [stage EXCEPT ![r] = IF read' = read THEN "idle" ELSE "reading"]
  /\ phase' = IF read' = read THEN [phase EXCEPT ![r] = "running"] ELSE phase
  /\ UNCHANGED <<stopped, taskVars, opt, boot, prep, dht, lockVars>>

RoleFailsToStart(r) ==
  /\ stage[r] = "starting"
  /\ stage' = [stage EXCEPT ![r] = "releasing"]
  /\ phase' = [phase EXCEPT ![r] = "failed"]
  /\ shown' = IF r = "subscriber" THEN NoServices ELSE shown
  /\ UNCHANGED <<stopped, taskVars, opt, boot, prep, run, peer, ranOn, dht,
                 lockVars, conn, read, genVars>>

Started ==
  /\ pc = "start" /\ \A r \in Roles : stage[r] = "idle"
  /\ Settle
  /\ UNCHANGED <<stopped, round, target, targetBoot, changed, moved, awaited,
                 todo, failure, roleVars, lockVars, conn, read, genVars,
                 viewVars>>

\* Publisher first, each step whatever the ones before it did.
CleanRole(r) ==
  /\ pc = "cleanup" /\ r \in todo
  /\ r = "subscriber" =>
       "publisher" \notin todo /\ stage["publisher"] = "idle"
  /\ todo' = todo \ {r}
  /\ stage' = [stage EXCEPT ![r] = "closing"]
  /\ UNCHANGED <<stopped, mode, pc, round, target, targetBoot, changed, moved,
                 awaited, failure, opt, boot, prep, run, peer, ranOn, dht,
                 lockVars, conn, read, genVars, viewVars>>

\* The runtime's stop() settles; it has swept everything even if it rejects.
RoleStopped(r) ==
  /\ stage[r] = "closing"
  /\ stage' = [stage EXCEPT ![r] = "releasing"]
  /\ run' = [run EXCEPT ![r] = None]
  /\ IF r = "subscriber" THEN peer' = None /\ conn' = NoLink
                         ELSE UNCHANGED <<peer, conn>>
  /\ failure' \in IF run[r] = None THEN {failure} ELSE {failure, TRUE}
  /\ UNCHANGED <<stopped, mode, pc, round, target, targetBoot, changed, moved,
                 awaited, todo, opt, boot, prep, ranOn, dht, lockVars, read,
                 genVars, viewVars>>

\* releaseLock: the variable is cleared when the release has succeeded.
ForgetsTheLock(r) == [lock EXCEPT ![r] = None]
KeptLock(r) == lock

LockReleased(r) ==
  /\ stage[r] = "releasing"
  /\ stage' = [stage EXCEPT ![r] = "idle"]
  /\ \/ /\ lock' = [lock EXCEPT ![r] = None]
        /\ held' = held \ {<<r, lock[r]>>}
        /\ refused' = refused \ {<<r, lock[r]>>}
        /\ UNCHANGED failure
     \/ /\ lock[r] # None
        /\ lock' = KeptLock(r)
        /\ refused' = refused \cup {<<r, lock[r]>>}
        /\ failure' = TRUE /\ UNCHANGED held
  /\ UNCHANGED <<stopped, mode, pc, round, target, targetBoot, changed, moved,
                 awaited, todo, opt, boot, prep, run, peer, ranOn, dht, conn,
                 read, genVars, viewVars>>

Cleaned == pc = "cleanup" /\ todo = {} /\ \A r \in Roles : stage[r] = "idle"

-----------------------------------------------------------------------------
(* applyConfiguration and stop.                                            *)

TransportChanged(b) == dht = None \/ boot # b
RolesOnly(c, b) == {r \in Roles : opt[r] # c[r]}
ChangedRoles(c, b) ==
  IF TransportChanged(b) THEN Roles ELSE {r \in Roles : opt[r] # c[r]}

Reconfigure(c, b) ==
  /\ pc = "idle" /\ ~stopped /\ round < MaxRounds
  /\ TransportChanged(b) \/ ChangedRoles(c, b) # {}
  /\ round' = round + 1 /\ target' = c /\ targetBoot' = b
  /\ changed' = ChangedRoles(c, b) /\ moved' = TransportChanged(b)
  /\ awaited' = (read["poll"] # None)
  /\ failure' = FALSE /\ pc' = "drain"
  /\ UNCHANGED <<stopped, mode, todo, roleVars, lockVars, conn, read, genVars,
                 viewVars>>

Leaving(S) == [r \in Roles |-> IF r \in S /\ phase[r] = "running"
                               THEN "stopping" ELSE phase[r]]

\* The poll in flight is over; one that starts now is not waited for.
BeginCleanup ==
  /\ pc = "drain" /\ ~awaited
  /\ pc' = "cleanup" /\ todo' = changed /\ phase' = Leaving(changed)
  /\ UNCHANGED <<stopped, mode, round, target, targetBoot, changed, moved,
                 awaited, failure, roleVars, lockVars, conn, read, genVars,
                 shown>>

\* A failed cleanup leaves the old configuration and its locks in place.
GiveUp ==
  /\ Cleaned /\ mode = "apply" /\ failure
  /\ Rejected
  /\ phase' = [r \in Roles |-> IF r \in changed /\ opt[r] # None
                               THEN "failed" ELSE phase[r]]
  /\ UNCHANGED <<stopped, round, target, targetBoot, changed, moved, awaited,
                 todo, failure, roleVars, lockVars, conn, read, genVars, shown>>

Adopt ==
  /\ Cleaned /\ mode = "apply" /\ ~failure
  /\ pc' = "prepare"
  /\ opt' = target
  /\ lock' = [r \in Roles |-> IF r \in changed THEN None ELSE lock[r]]
  /\ prep' = [r \in Roles |-> IF r \notin changed THEN prep[r]
                              ELSE IF target[r] = None THEN "none" ELSE "busy"]
  /\ phase' = [r \in Roles |-> IF r \in changed THEN InitialPhase(target)[r]
                               ELSE phase[r]]
  /\ IF "subscriber" \in changed
       THEN /\ registry' = None /\ refreshed' = None /\ observed' = None
            /\ resetFor' = None /\ retryDue' = TRUE /\ resetDue' = TRUE
            /\ shown' = NoServices
       ELSE UNCHANGED <<genVars, shown>>
  /\ UNCHANGED <<stopped, mode, round, target, targetBoot, changed, moved,
                 awaited, todo, failure, boot, stage, run, peer, ranOn, dht,
                 held, refused, conn, read>>

\* stop() waits for the reconfiguration in progress.
RunningOnly == {r \in Roles : run[r] # None}
EveryRole == Roles

Stop ==
  /\ ~stopped /\ mode \notin {"launch", "abandon"}
  /\ stopped' = TRUE
  /\ UNCHANGED <<taskVars, roleVars, lockVars, conn, read, genVars, viewVars>>

BeginStop ==
  /\ stopped /\ pc = "idle"
  /\ mode' = "stop" /\ pc' = "cleanup" /\ todo' = EveryRole
  /\ phase' = Leaving(Roles)
  /\ UNCHANGED <<stopped, round, target, targetBoot, changed, moved, awaited,
                 failure, roleVars, lockVars, conn, read, genVars, shown>>

\* cleanupDht; the variable is kept when destroy() fails.
FinishStop ==
  /\ Cleaned /\ mode = "stop"
  /\ pc' = "done" /\ dht' \in {None, dht}
  /\ phase' = [r \in Roles |-> IF phase[r] = "absent" THEN "absent"
                               ELSE "stopped"]
  /\ shown' = [shown EXCEPT !.available = FALSE]
  /\ UNCHANGED <<stopped, mode, round, target, targetBoot, changed, moved,
                 awaited, todo, failure, opt, boot, prep, stage, run, peer,
                 ranOn, lockVars, conn, read, genVars>>

\* The launch failed; the host keeps its window with the failed snapshot.
Abandoned ==
  /\ Cleaned /\ mode = "abandon"
  /\ pc' = "dead"
  /\ UNCHANGED <<stopped, mode, round, target, targetBoot, changed, moved,
                 awaited, todo, failure, roleVars, lockVars, conn, read,
                 genVars, viewVars>>

-----------------------------------------------------------------------------
Dependencies ==
  \/ \E r \in Roles : \/ Prepare(r) \/ RoleStarts(r) \/ RoleFailsToStart(r)
                      \/ CleanRole(r) \/ RoleStopped(r) \/ LockReleased(r)
  \/ Transport \/ Started \/ BeginCleanup \/ GiveUp \/ Adopt
  \/ BeginStop \/ FinishStop \/ Abandoned
Answers == \E x \in Readers : Answered(x) \/ AnswerLost(x)

Next ==
  \/ Dependencies \/ Answers
  \/ Poll \/ RetryFallsDue \/ ResetFallsDue
  \/ SubscriberConnects \/ SubscriberDisconnects
  \/ \E s \in Targets : Reconfigure(s.roles, s.boot)
  \/ Stop

Spec == Init /\ [][Next]_vars

\* Every promise the runtime awaits settles, the registry read by its timeout.
FairSpec == Spec /\ WF_vars(Dependencies) /\ WF_vars(Answers)

-----------------------------------------------------------------------------
(* Properties.                                                             *)

\* A role runtime runs only under its runtime lock and on the node that is
\* current: cleanup stops before it releases, and a node is never replaced
\* under a role that a reconfiguration leaves alone.
RunsOnItsOwn ==
  \A r \in Roles : run[r] # None =>
    <<r, opt[r]>> \in held /\ lock[r] = opt[r] /\ ranOn[r] = dht

\* Every lock file of the process is one a lock variable still names, so some
\* later cleanup can release it, however many releases have failed.
NoOrphanLock == \A h \in held : lock[h[1]] = h[2]

\* Services are shown as available only with a registry of the publisher the
\* subscriber is shown connected to, read over the connection of that number:
\* never those of a publisher replaced since, nor of an earlier connection of
\* this subscriber, although a read may outlive its connection and subscriber.
FreshServices ==
  shown.available => registry = [key |-> shown.key, gen |-> shown.gen]

\* After stop, and after a launch that failed, nothing runs and only locks
\* whose release was refused are left.
NothingLeft ==
  pc \in {"done", "dead"} =>
    held = refused /\ \A r \in Roles : run[r] = None

\* stop() settles, also in the middle of a reconfiguration and of a poll.
StopCompletes == stopped ~> pc = "done"
=============================================================================
