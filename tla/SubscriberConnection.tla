------------------------ MODULE SubscriberConnection ------------------------
(***************************************************************************)
(* The subscriber's connection to its publisher: the reconnect loop, the   *)
(* outer connection in use, the pairing handshake and the contact files,   *)
(* with service opens that wait for a connection.                          *)
(*                                                                         *)
(* src/runtime/subscriber.ts (startSubscriber, createPublisherConnection), *)
(* src/state/subscriber.ts (the contact and the pending contact) and the   *)
(* subscriber half of src/mux/transport.ts (pairing and control channels). *)
(* The publisher is the other side of src/mux/transport.ts with the        *)
(* admission rule of src/runtime/publisher.ts; PublisherRuntime has it in  *)
(* full.                                                                   *)
(*                                                                         *)
(* JavaScript runs one callback at a time, so an action ends where the     *)
(* code awaits the network, a rename or a timer.                           *)
(***************************************************************************)
EXTENDS Integers, Sequences

CONSTANTS
  Outers,  \* outer DHT streams; a closed one stands for a fresh one again
  Opens,   \* service opens, each made once per run of the subscriber
  None,    \* JavaScript's undefined
  Gone     \* a stream that has closed

ASSUME SubscriberAssumption == None \notin Outers /\ Gone \notin Outers

VARIABLES
  up,         \* "down", "starting" (listeners only), "running", "stopping"
  contact,    \* publisher.contact.json exists
  pendingFile,\* publisher.pending.json exists
  byHand,     \* history: the contact was configured by hand, not by pairing
  pairing,    \* the pairing request is not settled yet
  accepted,   \* pairingRequestAccepted
  unconfirmed,\* pendingApproval: started from a pending contact
  expired,    \* the scanned invitation's expiresAt has passed
  phase,      \* outer streams: "free", "connecting", "open" or "dying"
  trying,     \* the outer of the running connectOnce
  step,       \* what that connectOnce awaits
  kind,       \* what it does: "pair", "confirm" or "plain"
  control,    \* its control negotiation
  loop,       \* the reconnect loop
  cur,        \* the outer of the installed connection
  invalid,    \* current.invalidated
  ended,      \* how the last loop of this run ended for good
  report,     \* the onTerminalConnectionError handler of startInBackground
  op, on,     \* service opens, and the outer each was sent on
  side,       \* what the publisher takes each outer for
  wire,       \* pairing responses in flight
  invite,     \* the publisher's invitation: "none", "other" or "ours"
  request,    \* the outer whose request waits for the owner
  granted     \* the subscriber's key is in the durable allowlist

fileVars == <<contact, pendingFile, byHand>>
pairVars == <<pairing, accepted, unconfirmed, expired>>
tryVars == <<trying, step, kind, control>>
curVars == <<cur, invalid>>
endVars == <<ended, report>>
openVars == <<op, on>>
pubVars == <<invite, request, granted>>
netVars == <<phase, side, wire>>
vars == <<up, fileVars, pairVars, netVars, tryVars, loop, curVars, endVars,
          openVars, pubVars>>

Responses == {"pending", "approved", "denied", "error"}
Waiting == {"joining", "opening", "retry"}

TypeOK ==
  /\ up \in {"down", "starting", "running", "stopping"}
  /\ contact \in BOOLEAN /\ pendingFile \in BOOLEAN /\ byHand \in BOOLEAN
  /\ pairing \in BOOLEAN /\ accepted \in BOOLEAN
  /\ unconfirmed \in BOOLEAN /\ expired \in BOOLEAN
  /\ phase \in [Outers -> {"free", "connecting", "open", "dying"}]
  /\ trying \in Outers \cup {None}
  /\ step \in {"none", "connect", "pair", "promote", "control", "confirm"}
  /\ kind \in {"pair", "confirm", "plain"}
  /\ control \in {"none", "ready", "legacy", "failed"}
  /\ loop \in {"none", "due", "trying", "sleeping"}
  /\ cur \in Outers \cup {None} /\ invalid \in BOOLEAN
  /\ ended \in {"no", "refused", "expired"}
  /\ report \in {"none", "armed", "made"}
  /\ op \in [Opens -> Waiting \cup {"idle", "done", "closed", "failed"}]
  /\ on \in [Opens -> Outers \cup {None}]
  /\ side \in [Outers -> {"none", "stranger", "asked", "known", "approved"}]
  /\ wire \in [Outers -> Seq(Responses)] /\ \A o \in Outers : Len(wire[o]) <= 2
  /\ invite \in {"none", "other", "ours"}
  /\ request \in Outers \cup {None, Gone}
  /\ granted \in BOOLEAN

\* No subscriber runs; the publisher shows an invitation or not.
Init ==
  /\ up = "down" /\ contact = FALSE /\ pendingFile = FALSE /\ byHand = FALSE
  /\ pairing = FALSE /\ accepted = FALSE /\ unconfirmed = FALSE
  /\ expired = FALSE
  /\ phase = [o \in Outers |-> "free"]
  /\ trying = None /\ step = "none" /\ kind = "plain" /\ control = "none"
  /\ loop = "none" /\ cur = None /\ invalid = FALSE
  /\ ended = "no" /\ report = "none"
  /\ op = [r \in Opens |-> "idle"] /\ on = [r \in Opens |-> None]
  /\ side = [o \in Outers |-> "none"] /\ wire = [o \in Outers |-> <<>>]
  /\ invite \in {"none", "other"} /\ request = None /\ granted = FALSE

-----------------------------------------------------------------------------
(* Helpers.                                                                *)

Live(o) == phase[o] \in {"connecting", "open"}
Stopped == up \in {"stopping", "down"}

\* outer.destroy: the close event comes later, what is in flight is lost.
Killed(S) ==
  [o \in Outers |-> IF o \in S /\ Live(o) THEN "dying" ELSE phase[o]]

\* The invitation has expired and the publisher is not known to have the
\* request.
PairingExpired == pairing /\ ~accepted /\ expired

\* reconnect(): join the running loop or start one.
NoReconnect == loop
Reconnecting == IF loop = "none" THEN "due" ELSE loop

\* The loop's promise rejects: who joined it is told, and so is the host when
\* startInBackground made this loop.
LoopRejects(how) ==
  /\ loop' = "none"
  /\ ended' = how
  /\ report' = IF report # "armed" THEN report
               ELSE IF how = "no" THEN "none" ELSE "made"
  /\ op' = [r \in Opens |-> IF op[r] = "joining" THEN "failed" ELSE op[r]]

\* The catch blocks of connectOnce and of the loop.
AfterFailure(refused) ==
  IF Stopped THEN LoopRejects("no")
  ELSE IF refused THEN LoopRejects("refused")
  ELSE IF PairingExpired THEN LoopRejects("expired")
  ELSE loop' = "sleeping" /\ UNCHANGED <<ended, report, op>>

AttemptForgets(refused) ==
  /\ trying' = None /\ step' = "none" /\ UNCHANGED phase
  /\ AfterFailure(refused)
AttemptFails(refused) ==
  /\ phase' = Killed({trying})
  /\ trying' = None /\ step' = "none"
  /\ AfterFailure(refused)

-----------------------------------------------------------------------------
(* startSubscriber: read or write the contact files, open the listeners,   *)
(* start the loop.                                                         *)

ForgetRun ==
  /\ pairing' = FALSE /\ accepted' = FALSE /\ unconfirmed' = FALSE
  /\ phase' = [o \in Outers |-> "free"]
  /\ side' = [o \in Outers |-> "none"] /\ wire' = [o \in Outers |-> <<>>]
  /\ request' = IF request = None THEN None ELSE Gone
  /\ trying' = None /\ step' = "none" /\ kind' = "plain" /\ control' = "none"
  /\ loop' = "none" /\ cur' = None /\ invalid' = FALSE
  /\ ended' = "no" /\ report' = "none"
  /\ op' = [r \in Opens |-> "idle"] /\ on' = [r \in Opens |-> None]

\* An approved contact refuses a new invitation.
MayPair == ~contact

\* The owner's new QR is scanned.
StartPairing ==
  /\ up = "down" /\ invite = "other" /\ MayPair
  /\ pendingFile' = TRUE
  /\ invite' = "ours" /\ expired' = FALSE
  /\ pairing' = TRUE
  /\ up' = "starting"
  /\ UNCHANGED <<contact, byHand, accepted, unconfirmed, netVars, tryVars, loop,
                 curVars, endVars, openVars, request, granted>>

StartKnown ==
  /\ up = "down" /\ contact # pendingFile
  /\ unconfirmed' = pendingFile
  /\ up' = "starting"
  /\ UNCHANGED <<fileVars, pairing, accepted, expired, netVars, tryVars, loop,
                 curVars, endVars, openVars, pubVars>>

\* setSubscriberPublisher; a crash may hit it between rm and rename.
Configure ==
  /\ up = "down"
  /\ pendingFile' = FALSE /\ byHand' = TRUE
  /\ contact' \in {contact, TRUE}
  /\ UNCHANGED <<up, pairVars, netVars, tryVars, loop, curVars, endVars,
                 openVars, pubVars>>

StartInBackground ==
  /\ up = "starting"
  /\ up' = "running"
  /\ IF cur = None /\ loop = "none"
       THEN loop' = "due" /\ report' = "armed"
       ELSE UNCHANGED <<loop, report>>
  /\ UNCHANGED <<fileVars, pairVars, netVars, tryVars, curVars, ended, openVars,
                 pubVars>>

-----------------------------------------------------------------------------
(* The loop and connectOnce.                                               *)

\* The while condition, then connectOnce up to its first await.
NextAttempt ==
  \/ /\ Stopped
     /\ LoopRejects("no")
     /\ UNCHANGED <<phase, trying, step>>
  \/ /\ ~Stopped /\ PairingExpired
     /\ LoopRejects("expired")
     /\ UNCHANGED <<phase, trying, step>>
  \/ /\ ~Stopped /\ ~PairingExpired
     /\ \E o \in Outers : /\ phase[o] = "free"
                          /\ phase' = [phase EXCEPT ![o] = "connecting"]
                          /\ trying' = o
     /\ step' = "connect" /\ loop' = "trying"
     /\ UNCHANGED <<ended, report, op>>

LoopBegins ==
  /\ loop = "due" /\ NextAttempt
  /\ UNCHANGED <<up, fileVars, pairVars, side, wire, kind, control, curVars, on,
                 pubVars>>

SleepEnds ==
  /\ loop = "sleeping" /\ NextAttempt
  /\ UNCHANGED <<up, fileVars, pairVars, side, wire, kind, control, curVars, on,
                 pubVars>>

\* The publisher's firewall: a known key, or a stranger while it invites.
Admitted == granted \/ (invite # "none" /\ request = None)

\* What the attempt is for, decided when the connection is there.
KindOfPairing == IF pairing /\ ~accepted THEN "pair" ELSE "plain"
KindNow == IF pairing THEN IF accepted THEN "confirm" ELSE "pair"
           ELSE IF unconfirmed THEN "confirm" ELSE "plain"

OuterConnects ==
  /\ step = "connect" /\ phase[trying] = "connecting" /\ Admitted
  /\ phase' = [phase EXCEPT ![trying] = "open"]
  /\ side' = [side EXCEPT ![trying] = IF granted THEN "known" ELSE "stranger"]
  /\ kind' = KindNow /\ control' = "none"
  /\ step' = IF KindNow = "pair" THEN "pair" ELSE "control"
  /\ UNCHANGED <<up, fileVars, pairVars, wire, trying, loop, curVars, endVars,
                 openVars, pubVars>>

ConnectTimesOut ==
  /\ step = "connect"
  /\ AttemptFails(FALSE)
  /\ UNCHANGED <<up, fileVars, pairVars, side, wire, kind, control, curVars, on,
                 pubVars>>

\* A publisher that knows the key has no pairing protocol on the stream.
PairChannelRefused ==
  /\ step = "pair" /\ side[trying] = "known"
  /\ AttemptFails(FALSE)
  /\ UNCHANGED <<up, fileVars, pairVars, side, wire, kind, control, curVars, on,
                 pubVars>>

\* The responses of mux.pair.
PairPending ==
  /\ step = "pair" /\ phase[trying] = "open" /\ wire[trying] # <<>>
  /\ Head(wire[trying]) = "pending"
  /\ wire' = [wire EXCEPT ![trying] = Tail(@)]
  /\ accepted' = TRUE
  /\ UNCHANGED <<up, fileVars, pairing, unconfirmed, expired, phase, side,
                 tryVars, loop, curVars, endVars, openVars, pubVars>>

PairApproved ==
  /\ step = "pair" /\ phase[trying] = "open" /\ wire[trying] # <<>>
  /\ Head(wire[trying]) = "approved"
  /\ wire' = [wire EXCEPT ![trying] = Tail(@)]
  /\ step' = "promote"
  /\ UNCHANGED <<up, fileVars, pairVars, phase, side, trying, kind, control,
                 loop, curVars, endVars, openVars, pubVars>>

PairRefused ==
  /\ step = "pair" /\ phase[trying] = "open" /\ wire[trying] # <<>>
  /\ Head(wire[trying]) \in {"denied", "error"}
  /\ wire' = [wire EXCEPT ![trying] = Tail(@)]
  /\ AttemptFails(TRUE)
  /\ UNCHANGED <<up, fileVars, pairVars, side, kind, control, curVars, on,
                 pubVars>>

\* The control channel opens where the publisher serves it; an old publisher,
\* and one that takes the stream for a candidate's, rejects it.
ControlSettles(result) ==
  /\ step \in {"promote", "control"} /\ phase[trying] = "open"
  /\ control = "none"
  /\ result = "ready" => side[trying] \in {"known", "approved"}
  /\ control' = result
  /\ UNCHANGED <<up, fileVars, pairVars, netVars, trying, step, kind, loop,
                 curVars, endVars, openVars, pubVars>>

\* promoteSubscriberPendingPublisher; its last validation may fail too.
Renamed == pendingFile' = FALSE /\ contact' = TRUE

PromoteDone ==
  /\ step = "promote" /\ pendingFile
  /\ Renamed
  /\ pairing' = FALSE
  /\ step' = "control"
  /\ UNCHANGED <<up, byHand, accepted, unconfirmed, expired, netVars, trying,
                 kind, control, loop, curVars, endVars, openVars, pubVars>>

\* install: the connection is current, and who waits for it goes on. A stream
\* that was destroyed and has not closed yet may still pass for a live one.
Installs(o) ==
  /\ cur' = o /\ invalid' = FALSE
  /\ trying' = None /\ step' = "none" /\ loop' = "none"
  /\ ended' = "no" /\ report' = IF report = "armed" THEN "none" ELSE report
  /\ op' = [r \in Opens |-> IF op[r] = "joining" THEN "opening" ELSE op[r]]
  /\ on' = [r \in Opens |-> IF op[r] = "joining" THEN o ELSE on[r]]
  /\ UNCHANGED phase

\* Approval is confirmed by a control channel that opens, by nothing less.
LegacyConfirms == control # "failed"
Confirmed == control = "ready" \/ (control = "legacy" /\ kind = "plain")

ControlAwaited ==
  /\ step = "control" /\ control # "none"
  /\ \/ /\ Confirmed /\ kind = "confirm"
        /\ step' = "confirm"
        /\ UNCHANGED <<phase, trying, loop, curVars, endVars, openVars>>
     \/ /\ Confirmed /\ kind # "confirm" /\ phase[trying] # "free"
        /\ Installs(trying)
     \/ /\ ~Confirmed \/ (kind # "confirm" /\ phase[trying] # "open")
        /\ AttemptFails(FALSE)
        /\ UNCHANGED <<curVars, on>>
  /\ UNCHANGED <<up, fileVars, pairVars, side, wire, kind, control, pubVars>>

ConfirmDone ==
  /\ step = "confirm" /\ pendingFile
  /\ Renamed
  /\ IF accepted /\ pairing
       THEN pairing' = FALSE /\ accepted' = FALSE /\ UNCHANGED unconfirmed
       ELSE unconfirmed' = FALSE /\ UNCHANGED <<pairing, accepted>>
  /\ \/ /\ phase[trying] # "free"
        /\ Installs(trying)
     \/ /\ phase[trying] # "open"
        /\ AttemptFails(FALSE) /\ UNCHANGED <<curVars, on>>
  /\ UNCHANGED <<up, byHand, expired, side, wire, kind, control, pubVars>>

RenameFails ==
  /\ step \in {"promote", "confirm"}
  /\ \/ pendingFile /\ Renamed
     \/ UNCHANGED <<contact, pendingFile>>
  /\ AttemptFails(FALSE)
  /\ UNCHANGED <<up, byHand, pairVars, side, wire, kind, control, curVars, on,
                 pubVars>>

-----------------------------------------------------------------------------
(* The outer streams.                                                      *)

\* The peer, the network or the control channel of an attempt ends a stream.
OuterDies(o) ==
  /\ Live(o)
  /\ phase' = Killed({o})
  /\ UNCHANGED <<up, fileVars, pairVars, side, wire, tryVars, loop, curVars,
                 endVars, openVars, pubVars>>

\* Two missed pongs, a control channel closed by the peer, and a caller of
\* invalidate() that holds the current generation.
Unhealthy ==
  /\ cur # None /\ ~invalid
  /\ invalid' = TRUE
  /\ phase' = Killed({cur})
  /\ UNCHANGED <<up, fileVars, pairVars, side, wire, tryVars, loop, cur,
                 endVars, openVars, pubVars>>

Freed(o) ==
  /\ side' = [side EXCEPT ![o] = "none"]
  /\ wire' = [wire EXCEPT ![o] = <<>>]
  /\ request' = IF request = o THEN Gone ELSE request

\* Tunnels end with their stream; an open that was on it tries again.
TunnelsEnd(o) ==
  [r \in Opens |-> IF on[r] # o THEN op[r]
                   ELSE IF op[r] = "opening" THEN "retry"
                   ELSE IF op[r] = "done" THEN "closed" ELSE op[r]]

OuterCloses(o) ==
  /\ phase[o] = "dying"
  /\ Freed(o)
  /\ phase' = [phase EXCEPT ![o] = "free"]
  /\ op' = TunnelsEnd(o)
  /\ IF o = cur
       THEN /\ cur' = None /\ invalid' = FALSE
            /\ loop' = IF Stopped THEN loop ELSE Reconnecting
       ELSE UNCHANGED <<curVars, loop>>
  /\ control' = IF o = trying /\ control = "none" THEN "failed" ELSE control
  /\ ~(o = trying /\ step \in {"connect", "pair"})
  /\ UNCHANGED <<up, fileVars, pairVars, trying, step, kind, endVars, on,
                 invite, granted>>

\* The stream of an attempt that waits for it to connect or to be approved.
AttemptCloses ==
  /\ trying # None /\ phase[trying] = "dying" /\ step \in {"connect", "pair"}
  /\ Freed(trying)
  /\ phase' = [phase EXCEPT ![trying] = "free"]
  /\ trying' = None /\ step' = "none"
  /\ AfterFailure(FALSE)
  /\ UNCHANGED <<up, fileVars, pairVars, kind, control, curVars, on, invite,
                 granted>>

-----------------------------------------------------------------------------
(* open(serviceId).                                                        *)

NeverUsable == FALSE
Usable == cur # None /\ ~invalid

OpenBegins(r) ==
  /\ up # "down" /\ op[r] \in {"idle", "retry"}
  /\ \/ /\ Stopped
        /\ op' = [op EXCEPT ![r] = "failed"]
        /\ UNCHANGED <<on, loop>>
     \/ /\ ~Stopped /\ Usable
        /\ op' = [op EXCEPT ![r] = "opening"]
        /\ on' = [on EXCEPT ![r] = cur]
        /\ UNCHANGED loop
     \/ /\ ~Stopped /\ ~Usable
        /\ op' = [op EXCEPT ![r] = "joining"]
        /\ loop' = Reconnecting
        /\ UNCHANGED on
  /\ UNCHANGED <<up, fileVars, pairVars, netVars, tryVars, curVars, endVars,
                 pubVars>>

\* The publisher accepts or refuses the service, or the acquisition times out.
OpenEnds(r) ==
  /\ \/ /\ op[r] = "opening" /\ phase[on[r]] = "open"
        /\ op' = [op EXCEPT ![r] = "done"]
     \/ /\ op[r] \in Waiting
        /\ op' = [op EXCEPT ![r] = "failed"]
  /\ UNCHANGED <<up, fileVars, pairVars, netVars, tryVars, loop, curVars,
                 endVars, on, pubVars>>

-----------------------------------------------------------------------------
(* stop(), and the end of the process.                                     *)

\* The streams stop() destroys.
ReleasesAll == Killed({trying, cur})

\* Also what startSubscriber does when a listener cannot be opened.
Stop ==
  /\ up \in {"starting", "running"}
  /\ up' = "stopping"
  /\ phase' = ReleasesAll
  /\ cur' = None /\ invalid' = FALSE
  /\ UNCHANGED <<fileVars, pairVars, side, wire, tryVars, loop, endVars,
                 openVars, pubVars>>

StopDone ==
  /\ up = "stopping" /\ loop = "none"
  /\ up' = "down"
  /\ ForgetRun
  /\ UNCHANGED <<fileVars, expired, invite, granted>>

Crash ==
  /\ up # "down"
  /\ up' = "down"
  /\ ForgetRun
  /\ UNCHANGED <<fileVars, expired, invite, granted>>

-----------------------------------------------------------------------------
(* The publisher.                                                          *)

\* Every first request is answered "pending" before it is judged.
RequestReceived(o) ==
  /\ o = trying /\ step = "pair" /\ phase[o] = "open" /\ side[o] = "stranger"
  /\ side' = [side EXCEPT ![o] = "asked"]
  /\ IF invite = "ours" /\ request = None
       THEN /\ wire' = [wire EXCEPT ![o] = Append(@, "pending")]
            /\ request' = o /\ invite' = "none"
       ELSE /\ wire' = [wire EXCEPT ![o] = @ \o <<"pending", "error">>]
            /\ UNCHANGED <<request, invite>>
  /\ UNCHANGED <<up, fileVars, pairVars, phase, tryVars, loop, curVars, endVars,
                 openVars, granted>>

\* A decision settles the pending request, so there is one answer to it.
RequestSettled == None

\* The response reaches only a stream that is still there.
Decide(answer) ==
  /\ request # None
  /\ granted' = (granted \/ answer = "approved")
  /\ request' = RequestSettled
  /\ IF request \in Outers /\ phase[request] = "open"
       THEN /\ wire' = [wire EXCEPT ![request] = Append(@, answer)]
            /\ side' = [side EXCEPT ![request] =
                          IF answer = "approved" THEN "approved" ELSE @]
       ELSE UNCHANGED <<wire, side>>
  /\ UNCHANGED <<up, fileVars, pairVars, phase, tryVars, loop, curVars, endVars,
                 openVars, invite>>

\* A new invitation replaces the old one; without a pending request only.
ShowInvitation ==
  /\ request = None /\ invite # "other"
  /\ invite' = "other"
  /\ UNCHANGED <<up, fileVars, pairVars, netVars, tryVars, loop, curVars,
                 endVars, openVars, request, granted>>

\* The owner cancels it, or it expires there.
InvitationEnds ==
  /\ invite # "none" /\ invite' = "none"
  /\ UNCHANGED <<up, fileVars, pairVars, netVars, tryVars, loop, curVars,
                 endVars, openVars, request, granted>>

\* expiresAt passes on the subscriber's clock.
InvitationExpires ==
  /\ pairing /\ ~expired
  /\ expired' = TRUE
  /\ UNCHANGED <<up, fileVars, pairing, accepted, unconfirmed, netVars, tryVars,
                 loop, curVars, endVars, openVars, pubVars>>

-----------------------------------------------------------------------------

Next ==
  \/ StartPairing \/ StartKnown \/ Configure \/ StartInBackground
  \/ LoopBegins \/ SleepEnds
  \/ OuterConnects \/ ConnectTimesOut
  \/ PairChannelRefused \/ PairPending \/ PairApproved \/ PairRefused
  \/ \E result \in {"ready", "legacy", "failed"} : ControlSettles(result)
  \/ PromoteDone \/ ControlAwaited \/ ConfirmDone \/ RenameFails
  \/ Unhealthy \/ AttemptCloses
  \/ \E o \in Outers : OuterDies(o) \/ OuterCloses(o) \/ RequestReceived(o)
  \/ \E r \in Opens : OpenBegins(r) \/ OpenEnds(r)
  \/ Stop \/ StopDone \/ Crash
  \/ \E answer \in {"approved", "denied"} : Decide(answer)
  \/ ShowInvitation \/ InvitationEnds \/ InvitationExpires

Spec == Init /\ [][Next]_vars

\* The step that installs a connection or goes on to confirm the approval.
ControlGoesOn == ControlAwaited /\ Confirmed /\ phase[trying] = "open"

\* Timers fire, destroyed streams close, renames return, promises settle.
LocalFairness ==
  /\ WF_vars(LoopBegins) /\ WF_vars(SleepEnds)
  /\ WF_vars(ConnectTimesOut) /\ WF_vars(AttemptCloses)
  /\ WF_vars(PairChannelRefused)
  /\ WF_vars(\E result \in {"ready", "legacy", "failed"} :
               ControlSettles(result))
  /\ WF_vars(ControlAwaited)
  /\ WF_vars(PromoteDone \/ ConfirmDone \/ RenameFails)
  /\ \A o \in Outers : WF_vars(OuterCloses(o))
  /\ WF_vars(StopDone) /\ WF_vars(InvitationExpires)

\* What can succeed again and again does in the end: a connect, a control
\* handshake, a rename. A response on a stream that stays open arrives.
NetworkFairness ==
  /\ SF_vars(OuterConnects)
  /\ SF_vars(ControlSettles("ready"))
  /\ SF_vars(ControlGoesOn)
  /\ SF_vars(ConfirmDone)
  /\ WF_vars(PairPending \/ PairApproved \/ PairRefused)

FairSpec == Spec /\ LocalFairness /\ NetworkFairness

-----------------------------------------------------------------------------
(* What the subscriber promises.                                           *)

\* While the subscriber runs without a usable connection a loop is at work,
\* unless pairing ended it for good, and an open that waits for the loop has
\* one to wait for: the close event, startInBackground and open() between
\* them never lose the wakeup (install, reconnect).
NoLostWakeup ==
  /\ up = "running" /\ ended = "no" /\ cur = None => loop # "none"
  /\ \A r \in Opens : op[r] = "joining" => loop # "none"

\* Every stream that is not destroyed is the installed one or the one being
\* tried, so none outlives the code that would close it (connectOnce's catch),
\* and none outlives stop(), whichever await that interrupted.
NoLeakedOuter ==
  \A o \in Outers : Live(o) => o \in {cur, trying} /\ ~Stopped

\* The pending contact becomes the publisher only when the publisher durably
\* allows this subscriber (promoteSubscriberPendingPublisher's callers).
PromotionImpliesGrant == contact => granted \/ byHand

\* The installed connection is never replaced or forgotten while its stream is
\* open: a late close event or a second loop cannot take it away.
CurrentIsKept == [][cur # None /\ cur' # cur => phase'[cur] # "open"]_vars

\* A subscriber with an approved publisher that keeps running is connected
\* again and again.
Reconnects ==
  <>[](up = "running" /\ contact /\ granted /\ ~pairing /\ ~unconfirmed)
    => []<>(cur # None)

\* An approval whose response is lost is found out after a restart: a
\* subscriber that keeps running with its pending contact becomes confirmed.
RestartConfirms ==
  up = "running" /\ unconfirmed /\ granted ~> up # "running" \/ contact

=============================================================================
