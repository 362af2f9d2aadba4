-------------------------- MODULE PublisherRuntime --------------------------
(***************************************************************************)
(* The publisher: which outer streams are admitted, which of them carries  *)
(* a subscriber's services, and how a pairing request becomes a durable    *)
(* authorisation.                                                          *)
(*                                                                         *)
(* src/runtime/publisher.ts (firewall, connection handler, activation,     *)
(* pairing commands, stop), src/pairing/publisher.ts (invitation, pending  *)
(* request, approval) and the publisher half of src/mux/transport.ts       *)
(* (pairing channel, installation of the authorised protocols, service     *)
(* channels).                                                              *)
(*                                                                         *)
(* JavaScript runs one callback at a time: an action is a callback with    *)
(* the microtasks it queues.  An await on I/O ends an action: the DHT      *)
(* handshake between the firewall and the connection callback, the write   *)
(* of the allowlist, the connection to a loopback service.                 *)
(***************************************************************************)
EXTENDS Integers, FiniteSets

CONSTANTS
  Keys,                     \* authenticated subscriber public keys
  Streams,                  \* outer DHT streams, each used for one connection
  KeyOf,                    \* the key a stream's Noise handshake proves
  NoStream,                 \* JavaScript's undefined
  Services,                 \* service identifiers, "home" among them
  ServiceAllows,            \* the subscribers each service accepts
  InitialAllow,             \* the allowlist on disk when the model begins
  MaximumPairingCandidates, \* maximumPairingCandidates (3 in the code)
  MaxInvitations,           \* bound: invitations issued in one behaviour
  MaxStarts                 \* bound: times the publisher is started

ASSUME PublisherAssumption ==
  /\ NoStream \notin Streams
  /\ KeyOf \in [Streams -> Keys]
  /\ ServiceAllows \in [Services -> SUBSET Keys]
  /\ InitialAllow \subseteq Keys
  /\ MaximumPairingCandidates \in Nat
  /\ MaxInvitations \in Nat
  /\ MaxStarts \in Nat

VARIABLES
  up,          \* "running", "waiting" and "swept" (inside stop), "stopped"
  starts,      \* how often startPublisher has run
  allow,       \* the live allowlist
  durable,     \* the allowlist in publisher.json
  consented,   \* history: keys for which the owner pressed Allow
  phase,       \* the life of each stream
  candidates,  \* pairingCandidates
  admissions,  \* pendingCandidateAdmissions
  protocols,   \* streams with control and service protocols installed
  ready,       \* streams whose control channel has opened
  active,      \* activeBySubscriberKey
  pair,        \* the pairing channel of each stream
  issued,      \* number of the newest invitation; its token is that number
  invitation,  \* number of the invitation held, 0 when there is none
  expired,     \* whether that invitation's expiresAt has passed
  timer,       \* number of the invitation the expiry timer is armed for, or 0
  pending,     \* the stream whose request waits for the owner
  approving,   \* the allowlist write: "no", "writing" or "written"
  connecting,  \* services whose loopback connection is being made, by stream
  bridged      \* services with an open loopback socket, by stream

peerVars  == <<phase, candidates, admissions, protocols, ready, active>>
inviteVars == <<issued, invitation, expired, timer>>
allowVars == <<allow, durable, consented>>
serviceVars == <<connecting, bridged>>
vars == <<up, starts, allowVars, peerVars, pair, inviteVars, pending,
          approving, serviceVars>>

Phases == {"new", "admitted", "open", "closing", "closed"}
PairPhases == {"none", "idle", "opened", "left", "pending", "approved",
               "denied", "failed"}

TypeOK ==
  /\ up \in {"running", "waiting", "swept", "stopped"}
  /\ starts \in 1 .. (MaxStarts + 1)
  /\ allow \in SUBSET Keys /\ durable \in SUBSET Keys
  /\ consented \in SUBSET Keys
  /\ phase \in [Streams -> Phases]
  /\ candidates \in SUBSET Streams
  /\ admissions \in Nat
  /\ protocols \in SUBSET Streams /\ ready \in SUBSET Streams
  /\ active \in [Keys -> Streams \cup {NoStream}]
  /\ pair \in [Streams -> PairPhases]
  /\ issued \in 0 .. MaxInvitations /\ invitation \in 0 .. MaxInvitations
  /\ timer \in 0 .. MaxInvitations /\ expired \in BOOLEAN
  /\ pending \in Streams \cup {NoStream}
  /\ approving \in {"no", "writing", "written"}
  /\ connecting \in [Streams -> SUBSET Services]
  /\ bridged \in [Streams -> SUBSET Services]

Init ==
  /\ up = "running" /\ starts = 1
  /\ allow = InitialAllow /\ durable = InitialAllow /\ consented = {}
  /\ phase = [s \in Streams |-> "new"]
  /\ candidates = {} /\ admissions = 0
  /\ protocols = {} /\ ready = {}
  /\ active = [k \in Keys |-> NoStream]
  /\ pair = [s \in Streams |-> "none"]
  /\ issued = 0 /\ invitation = 0 /\ expired = FALSE /\ timer = 0
  /\ pending = NoStream /\ approving = "no"
  /\ connecting = [s \in Streams |-> {}]
  /\ bridged = [s \in Streams |-> {}]

-----------------------------------------------------------------------------
(* Helpers.                                                                *)

Listening == up \in {"running", "waiting"}

AcceptsCandidates == pending = NoStream /\ invitation # 0 /\ ~expired

\* outer.destroy on every stream of S: the close event comes later.
Destroying(S) ==
  [t \in Streams |-> IF t \in S /\ phase[t] = "open" THEN "closing"
                                                     ELSE phase[t]]

\* activate(s): s becomes its key's active stream and leaves the candidates;
\* the stream it replaces, if it is another one, is closed.
Activated(s) == [active EXCEPT ![KeyOf[s]] = s]

Promoted(s) == candidates \ {s}

SupersedesNothing(s) == {}
Superseded(s) == {active[KeyOf[s]]} \ {NoStream, s}

\* closePairingCandidates, which also forgets the admissions in flight.
ClosePairingCandidates ==
  /\ phase' = Destroying(candidates)
  /\ candidates' = {}
  /\ admissions' = 0

-----------------------------------------------------------------------------
(* The DHT server: the firewall sees a key when the Noise handshake ends,  *)
(* the connection callback runs later, when a path is open, or never.      *)

Firewall(s) ==
  LET known == KeyOf[s] \in allow IN
  /\ Listening /\ phase[s] = "new"
  /\ \/ known
     \/ /\ AcceptsCandidates
        /\ Cardinality(candidates) + admissions < MaximumPairingCandidates
  /\ phase' = [phase EXCEPT ![s] = "admitted"]
  /\ admissions' = IF known THEN admissions ELSE admissions + 1
  /\ UNCHANGED <<up, starts, allowVars, candidates, protocols, ready, active,
                 pair, inviteVars, pending, approving, serviceVars>>

HandshakeLost(s) ==
  /\ phase[s] = "admitted"
  /\ phase' = [phase EXCEPT ![s] = "closed"]
  /\ UNCHANGED <<up, starts, allowVars, candidates, admissions, protocols,
                 ready, active, pair, inviteVars, pending, approving,
                 serviceVars>>

\* Only the first stream of a key is active before its control channel opens.
ActiveOnEveryConnect(s) == Activated(s)
ActiveOnConnect(s) ==
  IF active[KeyOf[s]] = NoStream THEN Activated(s) ELSE active

ConnectKnown(s) ==
  /\ Listening /\ phase[s] = "admitted" /\ KeyOf[s] \in allow
  /\ phase' = [phase EXCEPT ![s] = "open"]
  /\ protocols' = protocols \cup {s}
  /\ active' = ActiveOnConnect(s)
  /\ UNCHANGED <<up, starts, allowVars, candidates, admissions, ready, pair,
                 inviteVars, pending, approving, serviceVars>>

AdmissionUsed == IF admissions > 0 THEN admissions - 1 ELSE admissions

ConnectCandidate(s) ==
  /\ Listening /\ phase[s] = "admitted" /\ KeyOf[s] \notin allow
  /\ phase' = [phase EXCEPT ![s] = "open"]
  /\ admissions' = AdmissionUsed
  /\ candidates' = candidates \cup {s}
  /\ pair' = [pair EXCEPT ![s] = "idle"]
  /\ UNCHANGED <<up, starts, allowVars, protocols, ready, active, inviteVars,
                 pending, approving, serviceVars>>

\* The peer or the network ends the stream.
StreamEnd(s) ==
  /\ phase[s] = "open"
  /\ phase' = Destroying({s})
  /\ UNCHANGED <<up, starts, allowVars, candidates, admissions, protocols,
                 ready, active, pair, inviteVars, pending, approving,
                 serviceVars>>

ActiveWithout(s) ==
  [active EXCEPT ![KeyOf[s]] = IF @ = s THEN NoStream ELSE @]

\* stream.once("close"): the only place where a stream leaves the maps.  Each
\* tunnel of the stream closes and destroys the socket bridged to it.
StreamClosed(s) ==
  /\ phase[s] = "closing"
  /\ phase' = [phase EXCEPT ![s] = "closed"]
  /\ candidates' = candidates \ {s}
  /\ active' = ActiveWithout(s)
  /\ bridged' = [bridged EXCEPT ![s] = {}]
  /\ UNCHANGED <<up, starts, allowVars, admissions, protocols, ready, pair,
                 inviteVars, pending, approving, connecting>>

-----------------------------------------------------------------------------
(* The control channel and the services.                                   *)

ControlOpened(s) ==
  /\ phase[s] = "open" /\ s \in protocols
  /\ ready' = ready \cup {s}
  /\ candidates' = Promoted(s)
  /\ active' = Activated(s)
  /\ phase' = Destroying(Superseded(s))
  /\ UNCHANGED <<up, starts, allowVars, admissions, protocols, pair,
                 inviteVars, pending, approving, serviceVars>>

\* The checks of connect(serviceId): the stream is the current one, and the
\* service's policy accepts its key.
MayDialCurrent(s, v) == active[KeyOf[s]] = s
MayDial(s, v) == active[KeyOf[s]] = s /\ KeyOf[s] \in ServiceAllows[v]

ServiceOpened(s, v) ==
  /\ phase[s] = "open" /\ s \in protocols
  /\ MayDial(s, v)
  /\ connecting' = [connecting EXCEPT ![s] = @ \cup {v}]
  /\ UNCHANGED <<up, starts, allowVars, peerVars, pair, inviteVars, pending,
                 approving, bridged>>

ServiceDialled(s, v) ==
  /\ v \in connecting[s]
  /\ connecting' = [connecting EXCEPT ![s] = @ \ {v}]
  /\ \/ bridged' = [bridged EXCEPT ![s] = @ \cup {v}]
     \/ UNCHANGED bridged
  /\ UNCHANGED <<up, starts, allowVars, peerVars, pair, inviteVars, pending,
                 approving>>

ServiceClosed(s, v) ==
  /\ v \in bridged[s]
  /\ bridged' = [bridged EXCEPT ![s] = @ \ {v}]
  /\ UNCHANGED <<up, starts, allowVars, peerVars, pair, inviteVars, pending,
                 approving, connecting>>

-----------------------------------------------------------------------------
(* The pairing channel of a candidate.                                     *)

PairingOpened(s) ==
  /\ phase[s] = "open" /\ pair[s] = "idle" /\ s \notin protocols
  /\ pair' = [pair EXCEPT ![s] = "opened"]
  /\ UNCHANGED <<up, starts, allowVars, peerVars, inviteVars, pending,
                 approving, serviceVars>>

\* A second pairing channel, a second request or a missed deadline.
PairingMisused(s) ==
  /\ phase[s] = "open" /\ pair[s] \notin {"none", "idle"}
  /\ phase' = Destroying({s})
  /\ UNCHANGED <<up, starts, allowVars, candidates, admissions, protocols,
                 ready, active, pair, inviteVars, pending, approving,
                 serviceVars>>

\* The five-second timer runs from the channel's opening to the request.
DeadlineAfterRequest(s) == pair[s] = "pending"
DeadlineArmed(s) == pair[s] = "opened"

PairingDeadline(s) ==
  /\ phase[s] = "open" /\ DeadlineArmed(s)
  /\ phase' = Destroying({s})
  /\ UNCHANGED <<up, starts, allowVars, candidates, admissions, protocols,
                 ready, active, pair, inviteVars, pending, approving,
                 serviceVars>>

\* The peer closes the channel before its request: the deadline is cancelled.
PairingLeft(s) ==
  /\ phase[s] = "open" /\ pair[s] = "opened"
  /\ pair' = [pair EXCEPT ![s] = "left"]
  /\ UNCHANGED <<up, starts, allowVars, peerVars, inviteVars, pending,
                 approving, serviceVars>>

\* PublisherPairing.receive accepts the request that holds the live token.
RequestReserved(s, token) ==
  /\ phase[s] = "open" /\ pair[s] = "opened"
  /\ AcceptsCandidates /\ token = invitation
  /\ pending' = s
  /\ pair' = [pair EXCEPT ![s] = "pending"]
  /\ invitation' = 0 /\ timer' = 0
  /\ phase' = Destroying(candidates \ {s})
  /\ UNCHANGED <<up, starts, allowVars, candidates, admissions, protocols,
                 ready, active, issued, expired, approving, serviceVars>>

\* It refuses every other request, and forgets an invitation it finds expired.
RequestRefused(s, token) ==
  /\ phase[s] = "open" /\ pair[s] = "opened"
  /\ ~(AcceptsCandidates /\ token = invitation)
  /\ pair' = [pair EXCEPT ![s] = "failed"]
  /\ phase' = Destroying({s})
  /\ invitation' = IF pending = NoStream /\ expired THEN 0 ELSE invitation
  /\ UNCHANGED <<up, starts, allowVars, candidates, admissions, protocols,
                 ready, active, issued, expired, timer, pending, approving,
                 serviceVars>>

-----------------------------------------------------------------------------
(* The owner's commands.  They stay callable until the caller drops the    *)
(* RunningPublisher, which it does when stop() has returned.               *)

CreateInvitation ==
  /\ up # "stopped" /\ pending = NoStream /\ issued < MaxInvitations
  /\ ClosePairingCandidates
  /\ issued' = issued + 1
  /\ invitation' = issued + 1 /\ expired' = FALSE /\ timer' = issued + 1
  /\ UNCHANGED <<up, starts, allowVars, protocols, ready, active, pair,
                 pending, approving, serviceVars>>

MayEndPairing == approving = "no"

\* cancelPairing and denyPairing; both throw while an approval is written.
EndPairing ==
  /\ up # "stopped" /\ MayEndPairing
  /\ phase' = Destroying(candidates \cup {pending})
  /\ candidates' = {} /\ admissions' = 0
  /\ pair' = [s \in Streams |-> IF s = pending THEN "denied" ELSE pair[s]]
  /\ pending' = NoStream /\ invitation' = 0 /\ timer' = 0
  /\ UNCHANGED <<up, starts, allowVars, protocols, ready, active, issued,
                 expired, approving, serviceVars>>

InvitationExpires ==
  /\ invitation # 0 /\ ~expired
  /\ expired' = TRUE
  /\ UNCHANGED <<up, starts, allowVars, peerVars, pair, issued, invitation,
                 timer, pending, approving, serviceVars>>

\* armPairingExpiry's callback once the wall clock has passed expiresAt; while
\* time remains it only arms itself again.
ExpiryTimer ==
  /\ timer # 0
  /\ invitation = timer => expired
  /\ timer' = 0
  /\ IF pending = NoStream /\ invitation = timer
       THEN ClosePairingCandidates
       ELSE UNCHANGED <<phase, candidates, admissions>>
  /\ UNCHANGED <<up, starts, allowVars, protocols, ready, active, pair,
                 issued, invitation, expired, pending, approving,
                 serviceVars>>

\* persistSubscriber writes nothing for a key that is already allowed.
NothingToWrite == "written"
WriteNeeded == IF KeyOf[pending] \in allow THEN "written" ELSE "writing"

ApproveBegin ==
  /\ up # "stopped" /\ pending # NoStream /\ approving = "no"
  /\ approving' = WriteNeeded
  /\ consented' = consented \cup {KeyOf[pending]}
  /\ UNCHANGED <<up, starts, allow, durable, peerVars, pair, inviteVars,
                 pending, serviceVars>>

\* The rename of the new publisher.json.
AllowlistWritten ==
  /\ approving = "writing"
  /\ durable' = allow \cup {KeyOf[pending]}
  /\ approving' = "written"
  /\ UNCHANGED <<up, starts, allow, consented, peerVars, pair, inviteVars,
                 pending, serviceVars>>

\* stop() goes on once the approval it waited for has settled.
StopForgotten == UNCHANGED up
ResumeStop == up' = IF up = "waiting" THEN "swept" ELSE up

SweepForgotten(S) == S
SweptIfStopping(S) == IF up = "waiting" THEN Streams ELSE S

\* approve(): allow.add, activate, install the protocols, answer the peer.
ApproveDone ==
  LET s == pending
      live == phase[s] \in {"open", "closing"} IN
  /\ approving = "written"
  /\ allow' = allow \cup {KeyOf[s]}
  /\ candidates' = IF live THEN Promoted(s) ELSE candidates
  /\ active' = IF live THEN Activated(s) ELSE active
  /\ phase' = Destroying(SweptIfStopping(IF live THEN Superseded(s) ELSE {}))
  /\ protocols' = protocols \cup {s}
  /\ pair' = [pair EXCEPT ![s] = "approved"]
  /\ pending' = NoStream /\ approving' = "no"
  /\ ResumeStop
  /\ UNCHANGED <<starts, durable, consented, admissions, ready, inviteVars,
                 serviceVars>>

\* The write fails before the rename, or the validation after it fails: the
\* request stays pending.
ApproveFailed ==
  /\ approving # "no"
  /\ approving' = "no"
  /\ phase' = Destroying(SweptIfStopping({}))
  /\ ResumeStop
  /\ UNCHANGED <<starts, allowVars, candidates, admissions, protocols, ready,
                 active, pair, inviteVars, pending, serviceVars>>

-----------------------------------------------------------------------------
(* Stop, crash and start.                                                  *)

StopBegin ==
  /\ up = "running"
  /\ timer' = 0
  /\ IF approving = "no"
       THEN up' = "swept" /\ phase' = Destroying(Streams)
       ELSE up' = "waiting" /\ UNCHANGED phase
  /\ UNCHANGED <<starts, allowVars, candidates, admissions, protocols, ready,
                 active, pair, issued, invitation, expired, pending,
                 approving, serviceVars>>

\* server.close, which closes every stream, then the rest of the cleanup.
StopDone ==
  /\ up = "swept"
  /\ \A s \in Streams : phase[s] \notin {"open", "closing"}
  /\ up' = "stopped"
  /\ UNCHANGED <<starts, allowVars, peerVars, pair, inviteVars, pending,
                 approving, serviceVars>>

\* The process ends and startPublisher runs in a new one: only the allowlist
\* on disk survives.
CrashOrStart ==
  /\ starts <= MaxStarts
  /\ up' = "running" /\ starts' = starts + 1
  /\ allow' = durable
  /\ phase' = [s \in Streams |-> IF phase[s] = "new" THEN "new" ELSE "closed"]
  /\ candidates' = {} /\ admissions' = 0 /\ protocols' = {} /\ ready' = {}
  /\ active' = [k \in Keys |-> NoStream]
  /\ invitation' = 0 /\ expired' = FALSE /\ timer' = 0
  /\ pending' = NoStream /\ approving' = "no"
  /\ connecting' = [s \in Streams |-> {}]
  /\ bridged' = [s \in Streams |-> {}]
  /\ UNCHANGED <<durable, consented, pair, issued>>

-----------------------------------------------------------------------------

PeerStep(s) ==
  \/ Firewall(s) \/ HandshakeLost(s)
  \/ ConnectKnown(s) \/ ConnectCandidate(s)
  \/ StreamEnd(s) \/ StreamClosed(s)
  \/ ControlOpened(s)
  \/ PairingOpened(s) \/ PairingMisused(s) \/ PairingDeadline(s)
  \/ PairingLeft(s)
  \/ \E token \in 0 .. issued : RequestReserved(s, token)
                                \/ RequestRefused(s, token)
  \/ \E v \in Services : ServiceOpened(s, v) \/ ServiceDialled(s, v)
                         \/ ServiceClosed(s, v)

OwnerStep ==
  \/ CreateInvitation \/ EndPairing \/ ApproveBegin \/ StopBegin

SystemStep ==
  \/ InvitationExpires \/ ExpiryTimer
  \/ AllowlistWritten \/ ApproveDone \/ ApproveFailed
  \/ StopDone \/ CrashOrStart

Next == (\E s \in Streams : PeerStep(s)) \/ OwnerStep \/ SystemStep

Spec == Init /\ [][Next]_vars

\* The event loop delivers a close event, a timer and the end of an I/O
\* operation it has accepted.  Nothing is asked of the peers or the owner.
Fairness ==
  /\ \A s \in Streams : WF_vars(StreamClosed(s)) /\ WF_vars(PairingDeadline(s))
  /\ WF_vars(ExpiryTimer) /\ WF_vars(InvitationExpires)
  /\ WF_vars(AllowlistWritten) /\ WF_vars(ApproveDone \/ ApproveFailed)
  /\ WF_vars(StopDone)

FairSpec == Spec /\ Fairness

-----------------------------------------------------------------------------
(* Safety.                                                                 *)

\* What a stream may use is bounded by the allowlist: control and services are
\* installed, activated, dialled and bridged only for an allowed key, and each
\* service only for a key its own policy accepts.
Authority ==
  /\ \A s \in protocols : KeyOf[s] \in allow
  /\ ready \subseteq protocols
  /\ \A k \in Keys : active[k] # NoStream => active[k] \in protocols
  /\ \A s \in Streams : \A v \in connecting[s] \cup bridged[s] :
        s \in protocols /\ KeyOf[s] \in ServiceAllows[v]

\* A candidate is nothing but a candidate: no protocol, no place in the
\* active map, and its stream has not left the publisher's maps.
CandidatesAreIsolated ==
  \A s \in candidates :
    /\ s \notin protocols
    /\ active[KeyOf[s]] # s
    /\ phase[s] \in {"open", "closing"}

\* The active map names streams the publisher still holds, under their key.
ActiveIsHeld ==
  \A k \in Keys : active[k] # NoStream =>
    KeyOf[active[k]] = k /\ phase[active[k]] \in {"open", "closing"}

\* An authenticated identity has one current control-ready outer connection:
\* a control-ready stream that is not being destroyed is the active one.
OneCurrent ==
  \A s \in ready : phase[s] = "open" => active[KeyOf[s]] = s

\* Authority never outruns the disk or the owner: every live authorisation is
\* durable, so is every approval a peer was told of, and a key becomes durable
\* only after the owner pressed Allow for it.
ApprovalIsDurable ==
  /\ allow \subseteq durable
  /\ \A s \in Streams : pair[s] = "approved" => KeyOf[s] \in durable
  /\ durable \subseteq InitialAllow \cup consented

\* While the allowlist is being written the request it is written for stays the
\* pending one, so the approval cannot reach another candidate; and a reserved
\* request holds the only invitation.
PendingIsHeld ==
  /\ approving # "no" => pending # NoStream
  /\ approving = "written" => KeyOf[pending] \in durable
  /\ pending # NoStream =>
       pair[pending] = "pending" /\ invitation = 0 /\ timer = 0

\* Once stop() has swept the streams none is open again.
StopSweeps ==
  up \in {"swept", "stopped"} => \A s \in Streams : phase[s] # "open"

\* A connection that works is displaced only by one that has proved itself: an
\* entry of the active map changes hands when the newcomer's control channel
\* opens or its pairing is approved, and the loser is being destroyed; it is
\* vacated only by the close of the stream it names.
ActiveHandover ==
  [][\A k \in Keys :
       LET loser == active[k]  winner == active'[k] IN
       (loser # NoStream /\ winner # loser) =>
         /\ phase'[loser] \in {"closing", "closed"}
         /\ IF winner = NoStream THEN phase'[loser] = "closed"
                                 ELSE winner \in ready' \cup {pending}]_vars

\* The inductive invariant: the properties above hold together, with three facts
\* about where a stream and an approval are in their lives.
Untouched(s) == s \notin protocols /\ pair[s] = "none"

LifeCycle ==
  /\ \A s \in Streams : phase[s] \in {"new", "admitted"} => Untouched(s)
  /\ \A s \in Streams : pair[s] = "approved" => KeyOf[s] \in allow
  /\ approving # "no" => KeyOf[pending] \in consented

SafetyInv ==
  /\ Authority /\ CandidatesAreIsolated /\ ActiveIsHeld /\ OneCurrent
  /\ ApprovalIsDurable /\ PendingIsHeld /\ StopSweeps
  /\ LifeCycle

IInv == TypeOK /\ SafetyInv

-----------------------------------------------------------------------------
(* Liveness.                                                               *)

\* stop() returns, unless the process dies first: neither an approval in
\* flight nor a stream that is slow to close keeps it waiting for ever.
StopCompletes ==
  up \in {"waiting", "swept"} ~> up \in {"stopped", "down", "running"}

\* A candidate cannot hold the pairing channel open in silence: it sends its
\* request, leaves, or is destroyed.
SilenceEnds ==
  \A s \in Streams : pair[s] = "opened" /\ phase[s] = "open"
                       ~> pair[s] # "opened" \/ phase[s] # "open"

-----------------------------------------------------------------------------
(* What the documentation says of pairing.                                 *)

OpenCandidates == {s \in candidates : phase[s] = "open"}

\* "At most three unknown candidates are admitted" (ADR 0007).
AtMostThreeCandidates ==
  Cardinality(OpenCandidates) <= MaximumPairingCandidates

=============================================================================
