------------------------------ MODULE CommandLine ------------------------------
(***************************************************************************)
(* The commands of src/cli/main.ts, each a process of its own, at work at  *)
(* the same time on one publisher and one subscriber state directory:      *)
(* setup, the policy and contact commands, and the three `run` commands    *)
(* that hold the runtime locks, share a DHT node (src/runtime/device.ts)   *)
(* and stop on a signal (src/cli/signals.ts).  The steps of the writers    *)
(* are those of src/state/files.ts.  Processes die anywhere.               *)
(*                                                                         *)
(* A process is also the name of what it makes: the seed or identity it    *)
(* generates, the contact it sets.  How a lock file is taken is            *)
(* RuntimeLock; what a started role does is PublisherRuntime and           *)
(* SubscriberConnection.                                                   *)
(***************************************************************************)
EXTENDS Naturals, FiniteSets

CONSTANTS
  Procs,     \* the processes, one command each
  Existing,  \* an earlier process: it made directories, it left locks
  None,
  MaxDeaths  \* bound: the processes that die

ASSUME CommandLineAssumption ==
  /\ Procs \cap {Existing, None} = {} /\ Existing # None
  /\ MaxDeaths \in Nat

Sides == {"publisher", "subscriber"}
Ids == Procs \cup {Existing}

Runs == {"publisher run", "subscriber run", "device run"}
Commands == Runs \cup
  {"setup publisher", "setup subscriber", "set-publisher", "set-allow",
   "set-services", "key"}

VARIABLES
  config,   \* the TOML file: no publisher table, one, or unreadable
  dir,      \* the two state directories
  staging,  \* the processes with a .write- directory in one of them
  locks,    \* the owners of the two runtime lock files
  cmd, pc,  \* a process's command and where it is
  failed,   \* it has caught an error that it will report
  saw,      \* what it learnt of the directory
  said,     \* the key it has printed
  keeps,    \* the locks it has to release
  role,     \* the roles of its device
  dht,      \* its DHT node
  promotes  \* its subscriber is about to promote the pending contact

vars == <<config, dir, staging, locks, cmd, pc, failed, saw, said, keeps,
          role, dht, promotes>>
files == <<dir, staging>>
device == <<keeps, role, dht, promotes>>

NoSight == [contact |-> FALSE, pending |-> FALSE, fits |-> FALSE]

TypeOK ==
  /\ config \in {"none", "publisher", "bad"}
  /\ dir \in [publisher : [id : Ids \cup {None}, allow : BOOLEAN,
                           manifest : BOOLEAN],
              subscriber : [id : Ids \cup {None},
                            contact : Procs \cup {"paired", None},
                            pending : {"paired", None}]]
  /\ staging \in [Sides -> SUBSET Procs]
  /\ locks \in [Sides -> Ids \cup {None}]
  /\ cmd \in [Procs -> Commands \cup {None}]
  /\ pc \in [Procs -> {"idle", "exists", "install", "load", "read", "probe",
                       "validate", "unpend", "write", "rename", "clean",
                       "check", "lock", "start", "starting", "waiting",
                       "stopping", "release", "ended", "dead"}]
  /\ failed \in [Procs -> BOOLEAN]
  /\ saw \in [Procs -> [contact : BOOLEAN, pending : BOOLEAN,
                        fits : BOOLEAN]]
  /\ said \in [Procs -> Ids \cup {None}]
  /\ keeps \in [Procs -> SUBSET Sides]
  /\ role \in [Procs -> [Sides -> {"off", "starting", "up", "failed"}]]
  /\ dht \in [Procs -> BOOLEAN] /\ promotes \in [Procs -> BOOLEAN]

NoDirectory == [id |-> None, allow |-> FALSE, manifest |-> FALSE]

Init ==
  /\ config \in {"none", "publisher", "bad"}
  /\ dir \in [publisher : {NoDirectory,
                  [id |-> Existing, allow |-> TRUE, manifest |-> TRUE]},
              subscriber : {[id |-> i, contact |-> None, pending |-> None] :
                               i \in {Existing, None}} \cup
                           {[id |-> Existing, contact |-> None,
                             pending |-> "paired"]}]
  /\ staging = [s \in Sides |-> {}]
  /\ locks \in [Sides -> {None, Existing}]
  /\ cmd = [p \in Procs |-> None] /\ pc = [p \in Procs |-> "idle"]
  /\ failed = [p \in Procs |-> FALSE] /\ saw = [p \in Procs |-> NoSight]
  /\ said = [p \in Procs |-> None] /\ keeps = [p \in Procs |-> {}]
  /\ role = [p \in Procs |-> [s \in Sides |-> "off"]]
  /\ dht = [p \in Procs |-> FALSE] /\ promotes = [p \in Procs |-> FALSE]

SideOf(c) ==
  IF c \in {"setup subscriber", "set-publisher"} THEN "subscriber"
  ELSE "publisher"

Roles(c) ==
  {s \in Sides : c \in {"device run", IF s = "publisher" THEN "publisher run"
                                      ELSE "subscriber run"}}

Goto(p, l) == pc' = [pc EXCEPT ![p] = l] /\ UNCHANGED failed
Throws(p, l) ==
  pc' = [pc EXCEPT ![p] = l] /\ failed' = [failed EXCEPT ![p] = TRUE]

-----------------------------------------------------------------------------
(* The commands: what each checks before it touches the state.             *)

Enter(p, c, l) ==
  /\ pc[p] = "idle" /\ cmd' = [cmd EXCEPT ![p] = c] /\ Goto(p, l)
  /\ UNCHANGED <<config, files, locks, saw, said, device>>

Refuse(p, c) ==
  /\ pc[p] = "idle" /\ cmd' = [cmd EXCEPT ![p] = c] /\ Throws(p, "ended")
  /\ UNCHANGED <<config, files, locks, saw, said, device>>

\* A missing default file is no config; anything unreadable is an error.
LoadKeposConfig(p, c, l) ==
  IF config = "bad" THEN Refuse(p, c) ELSE Enter(p, c, l)

\* With a TOML policy only a setup without policy options goes on.
SetupPublisherCommand(p) ==
  \/ LoadKeposConfig(p, "setup publisher", "exists")
  \/ config \in {"publisher", "bad"} /\ Refuse(p, "setup publisher")

SetupSubscriberCommand(p) == Enter(p, "setup subscriber", "exists")

SetSubscriberPublisherCommand(p) == Enter(p, "set-publisher", "probe")

RejectTomlPublisherPolicy(p, c) ==
  IF config = "publisher" THEN Refuse(p, c) ELSE LoadKeposConfig(p, c, "load")

SetPublisherAllowlistCommand(p) == RejectTomlPublisherPolicy(p, "set-allow")

SetPublisherServicesCommand(p) == RejectTomlPublisherPolicy(p, "set-services")

GetPublisherPublicKeyCommand(p) == Enter(p, "key", "load")

RunPublisherCommand(p) == LoadKeposConfig(p, "publisher run", "lock")

RunSubscriberCommand(p) == LoadKeposConfig(p, "subscriber run", "lock")

RunDeviceCommand(p) == LoadKeposConfig(p, "device run", "lock")

\* An option that is unknown, missing, repeated or does not fit the others.
BadOptions(p) == \E c \in Commands : Refuse(p, c)

RunCli(p) ==
  \/ SetupPublisherCommand(p) \/ SetupSubscriberCommand(p)
  \/ SetSubscriberPublisherCommand(p) \/ SetPublisherAllowlistCommand(p)
  \/ SetPublisherServicesCommand(p) \/ GetPublisherPublicKeyCommand(p)
  \/ RunPublisherCommand(p) \/ RunSubscriberCommand(p) \/ RunDeviceCommand(p)
  \/ BadOptions(p)

-----------------------------------------------------------------------------
(* Setup.                                                                  *)

ToReader(c) == IF c = "setup publisher" THEN "load" ELSE "probe"

\* pathExists(stateDir).
Exists(p) ==
  /\ pc[p] = "exists"
  /\ Goto(p, IF dir[SideOf(cmd[p])].id = None THEN "install"
             ELSE ToReader(cmd[p]))
  /\ UNCHANGED <<config, files, locks, cmd, saw, said, device>>

\* As if the rename replaced a directory that is there.
Overwrites(s) == TRUE

\* rename() of the staged directory: not onto one that holds files.
CanInstall(s) == dir[s].id = None

Fresh(s, p) ==
  IF s = "publisher" THEN [id |-> p, allow |-> TRUE, manifest |-> TRUE]
  ELSE [id |-> p, contact |-> None, pending |-> None]

\* writeStateDirectoryAtomically.  A publisher's key is read back, a
\* subscriber's is printed from memory.
Install(p) ==
  LET s == SideOf(cmd[p]) IN
  /\ pc[p] = "install"
  /\ \/ /\ CanInstall(s)
        /\ dir' = [dir EXCEPT ![s] = Fresh(s, p)]
        /\ IF s = "publisher" THEN Goto(p, "load") /\ UNCHANGED said
           ELSE Goto(p, "ended") /\ said' = [said EXCEPT ![p] = p]
     \/ Throws(p, "ended") /\ UNCHANGED <<dir, said>>
  /\ UNCHANGED <<config, staging, locks, cmd, saw, device>>

-----------------------------------------------------------------------------
(* Reading.                                                                *)

\* validateStateDirectory: the names it expects and no other.
OnlyItsFiles(s) == dir[s].id # None /\ staging[s] = {}

ExactlyThese(contact, pending) ==
  /\ OnlyItsFiles("subscriber")
  /\ contact = (dir.subscriber.contact # None)
  /\ pending = (dir.subscriber.pending # None)

\* loadPublisherState: the manifest, then the check of the directory ...
LoadPublisherState(p) ==
  /\ pc[p] = "load"
  /\ IF OnlyItsFiles("publisher")
     THEN /\ saw' = [saw EXCEPT ![p].fits = dir.publisher.manifest]
          /\ Goto(p, "read")
     ELSE Throws(p, "ended") /\ UNCHANGED saw
  /\ UNCHANGED <<config, files, locks, cmd, said, device>>

\* ... then the config.  A setup compares both with what it was asked for.
ReadConfig(p) ==
  /\ pc[p] = "read"
  /\ IF cmd[p] = "setup publisher" /\ ~(saw[p].fits /\ dir.publisher.allow)
     THEN Throws(p, "ended") /\ UNCHANGED said
     ELSE IF cmd[p] \in {"setup publisher", "key"}
     THEN /\ said' = [said EXCEPT ![p] = dir.publisher.id]
          /\ Goto(p, "ended")
     ELSE Goto(p, "write") /\ UNCHANGED said
  /\ saw' = [saw EXCEPT ![p] = NoSight]
  /\ UNCHANGED <<config, files, locks, cmd, device>>

\* readSubscriberIdentity: which contact is there ...
Probe(p) ==
  /\ pc[p] = "probe"
  /\ saw' = [saw EXCEPT ![p] =
       [contact |-> dir.subscriber.contact # None,
        pending |-> dir.subscriber.pending # None, fits |-> FALSE]]
  /\ Goto(p, "validate")
  /\ UNCHANGED <<config, files, locks, cmd, said, device>>

\* ... and whether that is all.
ReadSubscriberIdentity(p) ==
  /\ pc[p] = "validate"
  /\ IF ExactlyThese(saw[p].contact, saw[p].pending /\ ~saw[p].contact)
     THEN IF cmd[p] = "setup subscriber"
          THEN /\ said' = [said EXCEPT ![p] = dir.subscriber.id]
               /\ Goto(p, "ended")
          ELSE Goto(p, "unpend") /\ UNCHANGED said
     ELSE Throws(p, "ended") /\ UNCHANGED said
  /\ saw' = [saw EXCEPT ![p] = NoSight]
  /\ UNCHANGED <<config, files, locks, cmd, device>>

-----------------------------------------------------------------------------
(* Writing a file of a state directory.                                    *)

\* As if the new contact simply took the place of the pending one later.
KeepsThePending(p) ==
  /\ pc[p] = "unpend" /\ Goto(p, "write")
  /\ UNCHANGED <<config, files, locks, cmd, saw, said, device>>

\* setSubscriberPublisher: rm(pending, { force: true }), before the write.
ForgetPending(p) ==
  /\ pc[p] = "unpend"
  /\ \/ Goto(p, "write")
        /\ dir' = [dir EXCEPT !.subscriber.pending = None]
     \/ Throws(p, "ended") /\ UNCHANGED dir
  /\ UNCHANGED <<config, staging, locks, cmd, saw, said, device>>

Written(c, p) ==
  CASE c = "set-allow" -> [dir EXCEPT !.publisher.allow = FALSE]
    [] c = "set-services" -> [dir EXCEPT !.publisher.manifest = FALSE]
    [] c = "set-publisher" -> [dir EXCEPT !.subscriber.contact = p]

\* writeStateFileAtomically: mkdtemp in the directory itself ...
Mkdtemp(p) ==
  LET s == SideOf(cmd[p]) IN
  /\ pc[p] = "write"
  /\ \/ Goto(p, "rename") /\ staging' = [staging EXCEPT ![s] = @ \cup {p}]
     \/ Throws(p, "ended") /\ UNCHANGED staging
  /\ UNCHANGED <<config, dir, locks, cmd, saw, said, device>>

\* ... the file, written there and renamed, unless either fails ...
Rename(p) ==
  /\ pc[p] = "rename"
  /\ \/ Goto(p, "clean") /\ dir' = Written(cmd[p], p)
     \/ Throws(p, "clean") /\ UNCHANGED dir
  /\ UNCHANGED <<config, staging, locks, cmd, saw, said, device>>

\* finally: rm(temporaryDir), which may fail and leave the directory.
Clean(p) ==
  LET s == SideOf(cmd[p]) IN
  /\ pc[p] = "clean"
  /\ \/ /\ staging' = [staging EXCEPT ![s] = @ \ {p}]
        /\ Goto(p, IF failed[p] THEN "ended" ELSE "check")
     \/ Throws(p, "ended") /\ UNCHANGED staging
  /\ UNCHANGED <<config, dir, locks, cmd, saw, said, device>>

\* The directory is checked again, after the change.
Check(p) ==
  /\ pc[p] = "check"
  /\ IF IF cmd[p] = "set-publisher" THEN ExactlyThese(TRUE, FALSE)
        ELSE OnlyItsFiles("publisher")
     THEN Goto(p, "ended") ELSE Throws(p, "ended")
  /\ UNCHANGED <<config, files, locks, cmd, saw, said, device>>

-----------------------------------------------------------------------------
(* Running.                                                                *)

First(roles) ==
  IF "publisher" \in roles THEN "publisher" ELSE "subscriber"

Last(roles) ==
  IF "subscriber" \in roles THEN "subscriber" ELSE "publisher"

\* The owner of a lock may be gone.
Alive(p) == p \in Procs /\ pc[p] \notin {"ended", "dead"}

\* The publisher's lock before the subscriber's.
AcquireLock(p) ==
  LET s == First(Roles(cmd[p]) \ keeps[p]) IN
  /\ pc[p] = "lock"
  /\ \/ /\ ~Alive(locks[s])
        /\ locks' = [locks EXCEPT ![s] = p]
        /\ keeps' = [keeps EXCEPT ![p] = @ \cup {s}]
        /\ Goto(p, IF keeps[p] \cup {s} = Roles(cmd[p]) THEN "start"
                   ELSE "lock")
     \/ Throws(p, "release") /\ UNCHANGED <<locks, keeps>>
  /\ UNCHANGED <<config, files, cmd, saw, said, role, dht, promotes>>

\* startDevice: both roles at once, over one node.  Some options are parsed
\* only here, with the locks held.
StartDevice(p) ==
  /\ pc[p] = "start"
  /\ \/ /\ Goto(p, "starting")
        /\ dht' = [dht EXCEPT ![p] = TRUE]
        /\ role' = [role EXCEPT ![p] = [s \in Sides |->
             IF s \in Roles(cmd[p]) THEN "starting" ELSE "off"]]
     \/ Throws(p, "release") /\ UNCHANGED <<dht, role>>
  /\ UNCHANGED <<config, files, locks, cmd, saw, said, keeps, promotes>>

CanStart(s) ==
  /\ OnlyItsFiles(s)
  /\ s = "subscriber" =>
       (dir.subscriber.contact # None) # (dir.subscriber.pending # None)

StartRole(p, s) ==
  /\ pc[p] # "dead" /\ role[p][s] = "starting"
  /\ \/ CanStart(s) /\ role' = [role EXCEPT ![p][s] = "up"]
     \/ role' = [role EXCEPT ![p][s] = "failed"]
  /\ UNCHANGED <<config, files, locks, cmd, pc, failed, saw, said, keeps, dht,
                 promotes>>

In(p, state) == \E s \in Sides : role[p][s] = state

\* As with Promise.all.
AtTheFirstFailure(p) == ~In(p, "starting") \/ In(p, "failed")

\* Promise.allSettled.
AllSettled(p) == ~In(p, "starting")

\* The startup fails with either role, or waitForSignal is reached.
Started(p) ==
  /\ pc[p] = "starting" /\ AllSettled(p)
  /\ IF In(p, "failed") THEN Throws(p, "stopping") ELSE Goto(p, "waiting")
  /\ UNCHANGED <<config, files, locks, cmd, saw, said, device>>

\* SIGINT or SIGTERM.  One more of the other kind waits for the same stop,
\* one more of the same kind is a death.
Signal(p) ==
  /\ pc[p] = "waiting" /\ Goto(p, "stopping")
  /\ UNCHANGED <<config, files, locks, cmd, saw, said, device>>

\* The subscriber's promotion of a contact left pending by an app.
PromotionChecks(p) ==
  /\ pc[p] # "dead" /\ role[p]["subscriber"] = "up" /\ ~promotes[p]
  /\ dir.subscriber.pending # None /\ ExactlyThese(FALSE, TRUE)
  /\ promotes' = [promotes EXCEPT ![p] = TRUE]
  /\ UNCHANGED <<config, files, locks, cmd, pc, failed, saw, said, keeps,
                 role, dht>>

\* rename(pending, contact), which fails when there is none any more.
Promotes(p) ==
  /\ pc[p] # "dead" /\ promotes[p]
  /\ promotes' = [promotes EXCEPT ![p] = FALSE]
  /\ dir' = IF dir.subscriber.pending = None THEN dir
            ELSE [dir EXCEPT !.subscriber.contact = dir.subscriber.pending,
                             !.subscriber.pending = None]
  /\ UNCHANGED <<config, staging, locks, cmd, pc, failed, saw, said, keeps,
                 role, dht>>

\* As if the first failure to stop ended the loop.
StopsAtTheFailure(p) == {"release"}

\* stopResources goes on after a failure.
GoesOn(p) == {"stopping"}

\* The publisher, then the subscriber ...
StopRole(p) ==
  LET s == First({t \in Sides : role[p][t] = "up"}) IN
  /\ pc[p] = "stopping" /\ In(p, "up")
  /\ role' = [role EXCEPT ![p][s] = "off"]
  /\ \/ Goto(p, "stopping")
     \/ \E l \in GoesOn(p) : Throws(p, l)
  /\ UNCHANGED <<config, files, locks, cmd, saw, said, keeps, dht, promotes>>

\* ... then the node.
DestroyDht(p) ==
  /\ pc[p] = "stopping" /\ ~In(p, "up")
  /\ dht' = [dht EXCEPT ![p] = FALSE]
  /\ Goto(p, "release") \/ Throws(p, "release")
  /\ UNCHANGED <<config, files, locks, cmd, saw, said, keeps, role, promotes>>

\* finally: the subscriber's lock, then the publisher's, either of which
\* may fail and stay behind.
ReleaseRuntimeLocks(p) ==
  LET s == Last(keeps[p]) IN
  /\ pc[p] = "release"
  /\ IF keeps[p] = {} THEN Goto(p, "ended") /\ UNCHANGED <<locks, keeps>>
     ELSE /\ keeps' = [keeps EXCEPT ![p] = @ \ {s}]
          /\ \/ Goto(p, "release") /\ locks' = [locks EXCEPT ![s] = None]
             \/ Throws(p, "release") /\ UNCHANGED locks
  /\ UNCHANGED <<config, files, cmd, saw, said, role, dht, promotes>>

\* The process dies: what it staged and its locks stay.
Dies(p) ==
  /\ pc[p] \notin {"idle", "ended", "dead"}
  /\ Cardinality({q \in Procs : pc[q] = "dead"}) < MaxDeaths
  /\ pc' = [pc EXCEPT ![p] = "dead"]
  /\ role' = [role EXCEPT ![p] = [s \in Sides |-> "off"]]
  /\ dht' = [dht EXCEPT ![p] = FALSE]
  /\ promotes' = [promotes EXCEPT ![p] = FALSE]
  /\ UNCHANGED <<config, files, locks, cmd, failed, saw, said, keeps>>

Next == \E p \in Procs :
  \/ RunCli(p)
  \/ Exists(p) \/ Install(p) \/ LoadPublisherState(p) \/ ReadConfig(p)
  \/ Probe(p) \/ ReadSubscriberIdentity(p) \/ ForgetPending(p)
  \/ Mkdtemp(p) \/ Rename(p) \/ Clean(p) \/ Check(p)
  \/ AcquireLock(p) \/ StartDevice(p)
  \/ \E s \in Sides : StartRole(p, s)
  \/ Started(p) \/ Signal(p) \/ PromotionChecks(p) \/ Promotes(p)
  \/ StopRole(p) \/ DestroyDht(p) \/ ReleaseRuntimeLocks(p) \/ Dies(p)

Spec == Init /\ [][Next]_vars

-----------------------------------------------------------------------------
(* Properties.                                                             *)

\* A key that was printed, by a setup that won or lost against another or
\* by `publisher key`, is the key of the directory for good: subscribers
\* pin it.
KeyIsForever ==
  \A p \in Procs : said[p] # None => said[p] = dir[SideOf(cmd[p])].id

\* A role at work holds its runtime lock, so that no two processes ever run
\* one role, whatever fails or dies in what order.
OneRunnerPerRole ==
  \A p \in Procs, s \in Sides :
    role[p][s] \in {"starting", "up"} => locks[s] = p

\* A command that has ended, well or not, has no role running and has given
\* up its DHT node.  What it leaves on disk, a lock or a .write- directory
\* (with which no command loads the state directory any more), it leaves only
\* when it reports an error: whatever it says went well has left nothing.
NothingLeftBehind ==
  \A p \in Procs : pc[p] = "ended" =>
    /\ ~In(p, "up") /\ ~In(p, "starting") /\ ~dht[p]
    /\ \A s \in Sides : p \in staging[s] \/ locks[s] = p => failed[p]

\* Once set-publisher has written its contact, no promotion of an earlier
\* pairing by a running subscriber takes its place.
SetPublisherSticks ==
  [][dir.subscriber.contact \in Procs => dir'.subscriber.contact \in Procs]_vars

=============================================================================
