# TLA+ models of Kepos

Kepos connects a *publisher* (a machine that shares local services) to its
*subscribers* over HyperDHT. This directory models the parts of it whose
correctness depends on the order of events: TLA+ modules, TLC configurations
and TLAPS proofs. The repository is the reference; paths below are relative to
its root. `PROJECT.json` maps every definition to the lines it models.

## 1. Inventory

| component (source) | state it keeps | operations | what makes it correct |
|---|---|---|---|
| publisher runtime (`src/runtime/publisher.ts`) | live allowlist, streams, muxes, candidates and admissions, active stream per subscriber | firewall, connect, control-ready, activate, approve, deny, cancel, expire, stop | only allowed keys get authority; one current connection per subscriber; authority never outruns the disk |
| publisher pairing (`src/pairing/publisher.ts`) | invitation, pending request, approval in flight | create, receive, approve, deny, cancel, snapshot | one request per invitation, decided by the owner, exactly once |
| runtime lock (`src/runtime/runtime-lock.ts`) | lock, candidate and claim files | acquire, reclaim a stale lock, sweep orphans, release | exclusion, no lock-out after a crash |
| subscriber connection (`src/runtime/subscriber.ts`) | current connection, reconnect loop, connecting stream, pairing progress | start, connect, pair, confirm, install, open, invalidate, stop | no lost wakeup, no leaked stream, a healthy connection stays, stop returns |
| contact files (`src/state/subscriber.ts`) | contact, pending contact | set, set pending, promote, load | never both; promoted only with the publisher's grant |
| mux transport (`src/mux/transport.ts`) | pairing, control and service channels; heartbeat; tunnel windows | open, pair, ping, pause, resume, fin, close | channel authority, liveness detection, lossless tunnels |
| state files (`src/state/files.ts`, `publisher.ts`) | files and temporary directories | atomic write, validation | old or new content after a crash |
| gateway (`src/home/gateway.ts`) | header buffer, acquisition timer | parse, open, time out, bridge | one answer, no leaked tunnel |
| device and desktop runtime (`src/runtime/device.ts`, `apps/desktop/src/runtime.ts`) | roles, locks, poll, reconfigure, registry refresh | prepare, poll, reconfigure, pairing commands, stop | locks cover roles; no stale registry; stop leaves nothing |
| desktop host (`apps/desktop/src/host.ts`, `controller.ts`, `singleton.ts`) | command queue, window, singleton | commands, quit | ordered commands and shutdown |
| Bare runtime host (`android/barekit-host`) and worklet (`src/android/worklet`) | runtime state, IPC requests, session | start, stop, configure, pair, events, failure | state machine total on what the worklet sends; restart after failure |
| command line (`src/cli/main.ts`) | config, both state directories, runtime locks, device | setup, set, key, run, signal | keys are for ever; one runner of a role; nothing left behind |
| Android service and UI, web, packaging | presentation and entry points | - | - |

Interactions. The CLI, the desktop and the worklet take a runtime lock, then
start a publisher and a subscriber. Publisher and subscriber meet on one *outer*
stream; a Protomux on it carries the pairing channel (until approval), the
control channel and one channel per service connection. Listeners and gateway
call `open(serviceId)` of the subscriber connection. JavaScript runs one
callback at a time, so the hard behaviour is what happens between two awaits:
stream close events, timers, expiry, commands of the owner, stop, crashes, and
between processes the interleaving of file system calls. `PROJECT.json` lists
each hazard at its line.

## 2. Modules

Each module models the whole of its handlers: an action ends where the code
awaits something, and contains everything up to there. The environment (peers,
disk, processes, clocks) does what it is asked, fails, or dies.

### PublisherRuntime

The publisher with its pairing and the publisher half of the pairing, control
and service channels. A stream goes `new -> admitted -> open -> closing ->
closed`; `admitted` is the time between the firewall and the connection
callback, `closing` the time between `destroy()` and the close event. Callbacks
of peers are `PeerStep`, commands `OwnerStep`, timers and I/O `SystemStep`.
An approval takes three steps: `ApproveBegin`, the end of the write
(`AllowlistWritten`, or `ApproveFailed` before or after the rename),
and `ApproveDone`, which adds the key to the live allowlist, promotes the stream
and answers. Between them streams close, other streams of the key connect and
stop runs. `stop()` is `StopBegin`, the wait for the approval, `StopDone`.
`CrashOrStart` keeps only the allowlist on disk.

### RuntimeLock

Processes on one machine. Each action is one system call of
`acquireRuntimeLock` or `release` with the code that runs on its result; a
process can die between any two. `Ghosts` are processes that died before the
model begins and may have left the lock and its candidate link. The claim check
calls `Promise.all([stat(claim), stat(lock)])`; the thread pool may serve the two
in either order. Two history variables remember the dangerous one: `early` are the
processes whose stat of the canonical path came first, while another claim was on
the file, and `raced` says that one of them has passed the check.

### SubscriberConnection

The reconnect loop (`loop`: none, due, trying, sleeping), the attempt in
progress (`trying`, `step`, `kind`, `control`), the installed connection
(`cur`, `invalid`), service opens that wait for the loop (`op`), the contact
files, and as much of the publisher as the subscriber can tell apart: its
invitation, the request the owner sees, and whether the key is durably allowed.
Responses travel in order on their stream and are lost with it. A destroyed
stream is `dying` until its close event, and the code that checks `destroyed`
may or may not see it. A closed stream stands for a fresh one, so two streams
model any number of reconnects. A crash loses everything but the contact files;
`Configure` may be cut between removing the pending contact and writing the
contact.

Left out: the failures and restarts of the publisher, which `PublisherRuntime`
has; the foreground `start()`, which only tests use (the hosts pass
`waitForPublisher: false`), the retry delays, and the temporary directory a
crash leaves in the state directory.

### DesktopRuntime

`startDesktopRuntime`: one task at a time (`mode`: launch, apply, stop,
abandon) walks through `pc`, and each of its awaits (lock, DHT node, role start,
role stop, node destruction) is a step that succeeds or fails. Registry reads
run beside it: the registry is read over one connection (a generation of the
subscriber) by the poll or by a fresh start, and what makes an answer count is
`AnswerCounts` and `FromItsPublisher`. A read may outlive its connection and its
subscriber: nothing waits for a poll that begins while a clean-up is under way.
`peer` is the publisher of the running subscriber, whose contact file may name
another one at each start. `stopped` interrupts at the places where
the code looks at it. Nothing is assumed of *when* a failure happens, so every
combination of half-finished preparation, half-finished clean-up and stop
occurs.

### ByteStream and MuxTunnel

`ByteStream` is what one direction of a tunnel promises: chunks in order, none lost
or doubled, the end only after all of them, and a cut that is seen as a cut.
`MuxTunnel` is one tunnel with the Duplex at each end, Protomux between
them, and the bridged sockets: pause at the high-water mark, resume on read,
held writes, `fin` after the last write, reset, close. It implements two byte
streams,

    Up   == INSTANCE ByteStream WITH sent <- sock["sub"].made, ...
    Down == INSTANCE ByteStream WITH sent <- sock["pub"].made, ...

and a stream is cut only by a failure (`broken`) or once both applications have
ended; section 4 says what is lost then. `over = "cut"` is the receiver's
socket being destroyed, whatever its application makes of that. The safety of
the two refinements and the cut are `CarriesTwoByteStreams`, which is proved; the
fairness of the abstract streams is `GetsThroughBothWays`.

### ControlChannel

Negotiation and heartbeat of one outer connection, with the timers of the subscriber
(establishment, pong, interval), the microtask its `onclose` queues, and a
publisher that either speaks the protocol or is a legacy one whose Protomux
rejects the channel. The network may stop delivering (`cut`), an answer may
come after its deadline, and either end may close. The module opens up what
`SubscriberConnection` takes as one step (`control`: opening, ready, failed).

### AndroidWorklet

The worklet process: the queue of the host's requests, one `handler`, the
`startSubscriber` it or the start-up has under way, the runtimes that exist, the
registry poll with its generation, and the two contact files, which survive a
kill. What the host is shown is `state` and `view`.

### Gateway

HTTP clients of the gateway and TCP clients of a service listener wait for a
tunnel: acquisition timer, abort signal, late answers, connection loss and stop. A
client's handler is `at`, its open on a connection `over`; an open that nobody
waits for any more stays in `late` until its tunnel is destroyed. The
connection itself appears and dies freely.

### CommandLine

The commands of `src/cli/main.ts`, each a process, on one publisher and one
subscriber state directory: checks, staged writes, renames and clean-up one
system call at a time, locks, the shared DHT node, start, signal and release.
A process may die between any two steps and leave what it made.

### Composition

The modules meet where the code does. `SubscriberConnection` contains the part
of the publisher a subscriber can tell apart, `PublisherRuntime` the part of the
subscriber. `ControlChannel` opens up one step of both, `Gateway` and `MuxTunnel`
the service open and what follows it. `RuntimeLock` opens up the step that
takes a lock in `DesktopRuntime` and `CommandLine`. `AndroidWorklet`,
`DesktopRuntime` and `CommandLine` are the three programs that start the
runtimes.

### Proof and MC modules

`PublisherRuntimeProofs`, `RuntimeLockProofs`, `ControlChannelProofs`,
`CommandLineProofs`, `DesktopRuntimeProofs`, `SubscriberProofs`,
`AndroidWorkletProofs` and `MuxTunnelProofs` hold the theorems, one module per
component; `SubscriberProofs` has those of `SubscriberConnection` and of `Gateway`,
which it extends both (the names of `Gateway` are its own, `GatewaySpec` among
them). The `MC...` modules hold the constants of the runs. Some modules define,
next to an operator, a plausible mistake in it (`LegacyAtOnce` next to
`LegacyInAMicrotask`). `Next` does not use these: put in the operator's place
they show which property notices (`mutants` in `PROJECT.json`).

## 3. Runs

| run | checks | bounds |
|---|---|---|
| `publisher` | `Authority`, `OneCurrent`, `ApprovalIsDurable`, `StopSweeps`, `ActiveHandover`, `StopCompletes`, `SilenceEnds` | a key that comes on 2 streams, another on 1; limit 2, 1 invitation, 1 restart |
| `lock` | `OnlyTheRaceBreaksExclusion`, `LoneStarterWins`, `AcquireSettles` | 2 live processes and a dead one, 3 attempts, stats in either order |
| `subscriber` | `NoLostWakeup`, `NoLeakedOuter`, `PromotionImpliesGrant`, `CurrentIsKept`, `Reconnects`, `RestartConfirms` | 2 streams, 1 service open |
| `desktop_runtime` | `RunsOnItsOwn`, `NoOrphanLock`, `FreshServices`, `NothingLeft`, `StopCompletes` | 2 configurations, 2 bootstrap lists, 2 publishers, the launch and 2 reconfigurations, 2 connections of each subscriber |
| `tunnel_stream` | `CarriesTwoByteStreams`, `GetsThroughBothWays`, `ClosesBothEnds` | 2 chunks each way, buffers of 1 chunk |
| `control_channel` | `LegacyIsReal`, `NoFalseAlarm`, `SilenceIsNoticed`, `NegotiationEnds` | 3 missed pongs (2 by default in the code; the proofs are for any number), sequence numbers modulo 8 |
| `android_worklet` | `RunsWhatIsOnDisk`, `RegistryIsThePublishers`, `RequestsAreAnswered`, `RegistryArrives` | 2 publishers, 3 requests, 1 kill |
| `gateway` | `NoLeakedTunnel`, `OneAnswer`, `BadGatewayIsReal`, `EveryClientIsSettled` | 1 HTTP and 1 TCP client, 3 connections |
| `command_line` | `KeyIsForever`, `OneRunnerPerRole`, `NothingLeftBehind`, `SetPublisherSticks` | 2 processes, any commands, 2 deaths, locks and directories of an earlier process; the processes are symmetric |

Each module also states a `TypeOK`. It is part of the invariant proved in section
5, except for the tunnel, whose invariant has `Shapes` instead (the same without the
bounds of a run).

Why the bounds are enough.

- *Publisher.* Its races are between two streams (an older and a newer of one
  key, or two candidates) and one approval. A second invitation lets stale
  admissions occur; `publisher_candidate_limit` has one, and the theorems hold
  for any number.
- *Lock.* A race needs a stale lock, a slow claimant and one that
  overtakes it. A third live process is covered by the theorems, which hold for
  any number.
- *Subscriber.* It has at most one installed and one tried stream; a closed stream
  stands for a fresh one, so two model any number of reconnects. Opens do not
  interact with each other.
- *Desktop.* Two configurations per role give every kind of change (added,
  removed, changed, left alone); the second reconfiguration meets what a failed
  first one left behind. With two publishers a read of one can end under a
  subscriber of the other, with connections of the same number.
- *Tunnel.* One chunk fills a buffer and pauses the sender, the second is the one
  held, resumed or drained; the two directions meet in destroy and close.
- *Control.* A stale pong is at most as old as the missed pongs; `ASSUME` demands
  more sequence numbers than that.
- *Worklet.* Three requests are enough for one to replace the runtime another
  one has under way while a third waits; a kill between any two gives the restart.
- *Gateway.* Clients share only the connection. Three connections let a late
  tunnel of the first answer when the second has died.
- *Command line.* Every hazard listed is between two commands. The remains of an
  earlier process (its locks, its directories) stand for a third, and either of
  the two may die and leave more.

`CHECK_DEADLOCK FALSE` is set where the system may stop: a stopped runtime, a closed
tunnel, all processes ended.

Fairness. What follows is what the event loop or the kernel does with work it has
accepted. Nothing is asked of a user or of a process that may die. Of others two
things are asked, each for the properties named: the network of the subscriber
(`Reconnects`, `RestartConfirms`) and the registry of the worklet
(`RegistryArrives`) work again and again; and `stop()` of a running subscriber
settles (the desktop's `StopCompletes`, the worklet's `RequestsAreAnswered`).
The latter is not the program's own doing: `stop()` closes the gateway, which
waits for its clients' sockets, so a client that was refused and neither sends nor
closes can hold it up (section 4, Gateway). These two properties assume that
clients go away.

- *Publisher, lock*: close events, timers and the end of I/O are delivered; a system
  call returns.
- *Subscriber*: `LocalFairness` is the same. `NetworkFairness` says that a connect,
  a control handshake and a rename that can succeed again and again do so in
  the end, and that a response on a stream that stays open arrives. The
  retry loop is written for such a network; it has no limit.
- *Desktop*: every promise the runtime awaits settles, a registry read by its
  timeout, `stop()` of a role as said above. Success is never assumed.
- *Tunnel*: each side's event loop and the mux work, the applications read, and a
  connection to a local port is made or refused.
- *Control*: timers fire, a destroyed stream closes, messages are delivered
  until the network is cut.
- *Worklet*: promises settle and the poll's timer fires; for `RegistryArrives`
  alone a registry that is asked for again and again is once answered (SF).
- *Gateway*: timers and callbacks of the local side; the publisher may be silent for
  ever.
- *Command line*: none, it states no liveness.

## 4. Where code and documents disagree

Three runs are expected to end in a violation.

| run | what it shows |
|---|---|
| `publisher_candidate_limit` | `closePairingCandidates` forgets admissions still in their handshake; more candidates than the limit get in (ADR 0007, "At most three") |
| `lock_stat_race` | a claimant stats the canonical path while it is still stale and the links of its claim after a rival has unlinked that path (3 links became 2); it unlinks the rival's new lock, and both hold one (`runtime-lock.ts:139`) |
| `worklet_approval` | after a restart with a pending contact the worklet reports `awaiting-approval` although it is connected (ADR 0007, "completes the rename") |

While modelling, these were met too. No run is kept for them; where the models
contain the step, the action is named.

*Publisher and subscriber.*

- A late request clears the expired invitation; the expiry timer then closes
  nobody (ADR 0007:76-78).
- A candidate admitted before its invitation is cancelled connects after it and
  stays (`ConnectCandidate` after `EndPairing`); an approval begun while stop
  closes the server is still being written when stop returns.
- A service open before `startInBackground` takes the terminal error away from
  the host; one after a denial restarts the loop (`OpenBegins`).
- When the response "pending" is lost too, a reconnect asks to pair again where
  it is already approved (ADR 0007:48-50); a refused request whose error is
  lost is waited for past the invitation's expiry.

*Desktop runtime.*

- Reconfiguring to the same configuration after a failed start, clean-up or
  transport change is a silent no-op (`runtime.ts:552-568`), and a failed
  reconfiguration keeps the role locks preparation took (640-656). `NoOrphanLock`
  therefore says that somebody still knows of each lock.
- After a rejected `dht.destroy()` the old node may be used again; a failed
  clean-up leaves services shown as available (596-602); a poll during clean-up
  may throw (374, 401).
- The generations of a subscriber start at 1 and a read is judged by them alone, so
  what a read of a replaced subscriber brings may count for its successor (375-378,
  402-405). Another publisher's registry is then refused (389) and only delays the
  right one; an older registry of the same publisher is shown, and a late timeout
  resets a connection that is fine. `FreshServices` therefore speaks of the
  publisher and the connection's number.

*Tunnel and control.*

- A channel close or a `destroy` discards data that arrived and was not read yet
  (`transport.ts:570-578`, 624-652, 1111-1118), where
  `docs/network-transport-and-compatibility.md:355` promises that it is delivered.
  It happens when both applications have ended, at the latest; a half-closed
  tunnel delivers everything (`CutOnlyAtTheEnd`).
- A target socket that connects after its tunnel has closed has no owner
  (`transport.ts:895`).
- `createMuxPublisher` hands out a copy of an empty set of control channels
  (928-935), so its `close()` closes none of them; the outer stream does.

*Worklet.*

- A configure whose write fails after the stop leaves nothing running and
  `configured` true. A pairing approved while a second one waits leaves an
  error until the restart. A failing `startSubscriber` at start-up is never
  tried again. `connectionError` is sticky.
- A drop shorter than the one-second poll does not refresh the registry.

*Gateway.*

- After 421, 502 or 503 the paused socket may never emit `end`, so closing the
  server can wait for the client; a second chunk after 431 writes to an ended
  socket; a TCP client's socket has no error handler until it is bridged.

*Command line.*

- `set-allow`, `set-services` and `set-publisher` take no runtime lock
  (`docs/cli.md` asks for a stopped publisher), so a later approval of a running
  publisher undoes a `set-allow`, and `set-publisher` racing an application's
  new pairing can leave both contact files, which no process loads.
- A death between `mkdtemp` and `rm`, or an `rm` that fails in the `finally`
  (`files.ts:105-107`), makes the directory unloadable for every command; the
  latter is at least reported (`NothingLeftBehind`). A command may report an error after its change took effect.

## 5. Proofs

*Publisher.* `IInv` is `TypeOK`, the safety properties of the run,
`CandidatesAreIsolated` (a candidate has no protocol but pairing),
`PendingIsHeld` and `ActiveIsHeld` (the pending and active streams are live ones
of their keys), and `LifeCycle`: a stream that has not connected has no protocol
and no pairing channel; an approved channel has a live key; an approval in flight
has the owner's consent. The properties support each other: activation of a
newcomer keeps `OneCurrent` only because ready streams have protocols
(`Authority`) and the displaced one is destroyed; `ApproveDone` keeps `Authority`
only because the pending stream is the one the write was for (`PendingIsHeld`).
One lemma per action group proves `IInv /\ [Next]_vars => IInv'`, for any sets
of keys, streams and services and any limits, under `PublisherAssumption` only.
Theorems: `PublisherTypes`, `PublisherAuthority`, `PublisherOneCurrent`,
`PublisherDurability`, `PublisherStopSweeps`, and the action property
`PublisherHandover`.

*Lock.* `LockInv` adds to `OwnerKeepsLock` that a dead owner stays dead
(`ProgressInv`), that a claimant works against a dead owner's file (`ClaimInv`),
and that of the claims on the current lock at most one has been seen alone, and
what was seen is still so (`SoleInv`): alone is a claim that counted two links,
or whose canonical path was looked at first while the file had two, since every
later claim counts more. That is all of the invariant unless `raced`. So the
exclusion, which is false of the code as `lock_stat_race` shows, is proved to fail
in that one way and no other, for any finite set of processes, any number of
attempts and any order of the stat calls, with no assumption on it.
Theorems: `LockExclusion` (`OnlyTheRaceBreaksExclusion`), `LockStays`
(`OwnerKeepsLock`) and `LockReclaimsStale` (`OnlyStaleIsUnlinked`) unless `raced`.

*Control channel.* `IInv` is `TypeOK` with three parts: a channel that closes
before it opened was closed by a legacy publisher or with its connection
(`NegotiationInv`, which needs the FIFO channel: a heartbeat publisher's close
comes after its answer), no more pongs are counted missed than were really late
(`HeartbeatInv`), and a candidate has no channel yet (`CandidateInv`). Proved for
any number of tolerated pongs and any modulus. Theorems: `ControlLegacyIsReal`,
`ControlNoFalseAlarm`.

*Gateway* (the second half of `SubscriberProofs`). `AcquisitionInv` ties a client's
place to its timer and its abort signal: the timer is armed only while the acquisition lasts, a fired timer or a
closed socket has aborted the signal, and an aborted open waits for nothing.
With it `AnswerInv` (who can still be served has no answer yet) is inductive,
and both give the three properties, for any clients and any number of
connections. Theorems: `GatewayNoLeakedTunnel`, `GatewayOneAnswer`,
`GatewayBadGatewayIsReal`.

*Command line.* `IInv` says which commands get where (`PathInv`), that a key is
printed last and is the directory's (`KeyInv`), that a contact is set only where
nothing is pending (`ContactInv`), that the locks a live process keeps are its own
and cover what it runs (`LockInv`), that roles and node are those of a device
that is started and not yet stopped (`DeviceInv`), and that only the writer at
work, or one that could not remove it and has reported that, has something staged
(`StagingInv`). `KeyIsForever` needs that an `id` is installed by one rename, only
where there is none; `NothingLeftBehind` that every way out of a command gives up
its node, and removes what it staged or reports an error. Proved for any number
of processes and deaths. Theorems: `CommandLineKeyIsForever`,
`CommandLineOneRunnerPerRole`, `CommandLineNothingLeftBehind`, and the action
property `CommandLineSetPublisherSticks`.

*Desktop.* The tasks interleave, so `IInv` follows each of them: which place of
`pc` a task can be at (`TaskInv`), which lock a lock variable names (`LockInv`), where
a role's own task can be (`StageInv`), what preparation and clean-up have done so far
(`PrepareInv`, `CleanupInv`: what the clean-up has been through does not run, and
has no lock but one whose release was refused), and whose registry is kept
(`RegistryInv`: of the connected publisher, read over the connection whose number
`refreshed` holds; of a read in flight it demands nothing). Proved for any
configurations, bootstrap lists, publishers, rounds and connections; the assumption that there is at least one connection was found by the
proof. Theorems: `DesktopRunsOnItsOwn`, `DesktopNoOrphanLock`,
`DesktopFreshServices`, `DesktopNothingLeft`.

*Subscriber.* `AttemptInv` ties the loop to its stream and step. `CurrentInv` says
that nothing is tried beside a connection in use unless it is being destroyed,
so the loop that ends with its connection installed leaves no open waiting for one
(`NoLostWakeup`), and an attempt installs its stream without leaking another
(`NoLeakedOuter`).
`StreamInv` is what the publisher knows of each stream, with at most one answer on
its way before a decision, and `GrantInv` that nothing - no answer, no control
channel, no step of the attempt - says "approved" before the grant is durable.
Proved for any streams and service opens. Theorems: `SubscriberNoLostWakeup`,
`SubscriberNoLeakedOuter`, `SubscriberPromotionImpliesGrant`, and the action
property `SubscriberCurrentIsKept`.

*Worklet.* `RuntimeInv`: the runtime there is, is the one `running` names and of the
publisher on disk, and none is there while one starts. `HandlerInv` is what the
request being handled has reached: the files are touched only when `connectTask`
has ended and the runtime is gone. `RegistryInv` is why a late read cannot show a
replaced publisher's services: a request that replaces it counts `generation` up
first, and no read begins before it has ended, since its steps wait for nothing but
a start or a stop. Proved for any publishers, requests and restarts; the proof found
that the places of a handler must differ from `None`. Theorems: `WorkletSafe`
(`TypeOK` is part of `IInv`), `WorkletRunsWhatIsOnDisk`,
`WorkletRegistryIsThePublishers`.

*Lock, one process alone.* `LoneStarterWins` has an invariant of its own, `LoneInv`:
`FilesInv` says whose files can be there at all, and `Lone` follows a process that
runs alone from its sweep, which takes every name an earlier process left before
the first link is tried, to the lock, which is then free, its own or stale, with its
claim the only one. It needs nothing of the order of the stat calls. Theorem:
`LockLoneStarterWins`.

*Tunnel.* `IInv` follows the chunks of each direction. What the receiving
application was given, what its socket holds, what its tunnel's buffer holds and what
is on the wire are the numbers 1 to `sent`, in this order (`InOrder`, `Carries`); what
is sent and what is queued is what was written (`Sender`). The end follows the same
way: `ending`, `finished`, "fin" behind every chunk (`EndLast`), `eof`, `ended`, `end`
(`Receiver`). `Handshake` says that "open" and "ok" are each
said by one side only, "open" first and each once, and
`HasReason` says that tunnels are closed, and sockets die, only after a failure or
when both applications have ended, which the message that closes a peer needs:
it comes from a tunnel that is closed. Every action goes through `Step`, so two
lemmas (`StepKeeps`, `StepDies`) say what it does to the invariant, lemmas about
one direction (`LinkSends`, `LinkTakes`, ...) and one side (`PushesSide`, ...) what
each action does to its records, and one lemma per action and message puts them
together. `Advances` and `Loses` say what a step is to the two streams; the
refinement follows: initial states map to initial states, every step to a step or a
stutter of each stream. Proved for any number of chunks and any sizes of the
buffers. Theorems: `TunnelSafe`, `TunnelCarriesTwoByteStreams`.

Model-checked only:

- every liveness property, `GetsThroughBothWays` (the fairness of the abstract
  streams) among them, since the prover has neither fairness nor ENABLED.

## 6. Assumptions about code outside the repository

HyperDHT proves the remote key of a stream, calls the firewall before the
connection callback, emits one close event per stream, and accepts no connection
once `server.close` has begun to close the streams. Protomux delivers the
messages of a channel in order, rejects a protocol nobody paired, and closes
its channels when the stream closes. A Node Duplex with `allowHalfOpen` is
destroyed when both halves have ended, and `write` returns false from its
high-water mark to `drain`. `link`, `rename` and `unlink` are atomic; process
ids are not reused.

## 7. Not modelled

- Encodings and parsing (invitations, config, TOML, frames, HTTP headers),
  cryptography, logging, presentation (desktop UI, tray, Android UI, web) and
  packaging: no state another component races with.
- The pairing commands of the desktop runtime (`runtime.ts:717-762`): thin calls of
  what `PublisherRuntime` models, and a QR code.
- The desktop host's command queue (one promise chain) and its singleton (a
  `RuntimeLock`).
- The Kotlin host of the worklet and its restart controller: `AndroidWorklet` takes
  their requests and kills from a free environment, which includes theirs.
- `saveKeposConfig`, and the allowlist a running publisher writes, in `CommandLine`
  (the latter is in `PublisherRuntime`).
- The foreground `start()` of the subscriber, which only tests use.

## 8. Plan

Done: the modules above, and the theorems of section 5: every safety invariant and
action property of the passing runs.
Next, in this order:

1. `Pairing`: `PublisherRuntime` and `SubscriberConnection` composed, refining an
   abstract consent protocol.
2. `DesktopHost` (command queue, shutdown order) and `BareRuntime` (the Kotlin
   state machine and restart controller).
