----------------------- MODULE PublisherRuntimeProofs -----------------------
(***************************************************************************)
(* Every reachable state of PublisherRuntime satisfies IInv: the type      *)
(* invariant, and the safety properties with the life-cycle facts that     *)
(* make them inductive, whatever the keys, streams, services and bounds.   *)
(* There is one lemma per action, in it one step per conjunct the action   *)
(* can disturb and one last step for the conjuncts whose variables it      *)
(* leaves alone.                                                           *)
(***************************************************************************)
EXTENDS PublisherRuntime, TLAPS

(* Initially nobody is connected and nothing is pending.                   *)
LEMMA InitSafe == Init => IInv
<1> SUFFICES ASSUME Init PROVE IInv
  OBVIOUS
<1> USE PublisherAssumption DEF Init
<1>1. TypeOK
  <2>1. starts \in 1 .. (MaxStarts + 1) /\ issued \in 0 .. MaxInvitations
    OBVIOUS
  <2>2. /\ phase \in [Streams -> Phases] /\ pair \in [Streams -> PairPhases]
        /\ active \in [Keys -> Streams \cup {NoStream}]
        /\ connecting \in [Streams -> SUBSET Services]
        /\ bridged \in [Streams -> SUBSET Services]
    BY DEF Phases, PairPhases
  <2> QED
    BY <2>1, <2>2 DEF TypeOK
<1>2. Authority /\ CandidatesAreIsolated /\ ActiveIsHeld /\ OneCurrent
  BY DEF Authority, CandidatesAreIsolated, ActiveIsHeld, OneCurrent
<1>3. ApprovalIsDurable /\ PendingIsHeld /\ StopSweeps /\ LifeCycle
  BY DEF ApprovalIsDurable, PendingIsHeld, StopSweeps, LifeCycle, Untouched
<1> QED
  BY <1>1, <1>2, <1>3 DEF IInv, SafetyInv

(* The firewall only moves a fresh stream into its handshake.              *)
LEMMA FirewallSafe ==
  ASSUME NEW s \in Streams, IInv, Firewall(s)
  PROVE  IInv'
<1> USE PublisherAssumption DEF IInv, SafetyInv, TypeOK, Phases, PairPhases,
      Firewall, Listening, allowVars, inviteVars, serviceVars
<1>1. TypeOK'
  OBVIOUS
<1>2. CandidatesAreIsolated'
  BY DEF CandidatesAreIsolated
<1>3. ActiveIsHeld'
  BY DEF ActiveIsHeld
<1>4. OneCurrent'
  BY DEF OneCurrent
<1>5. StopSweeps'
  BY DEF StopSweeps
<1>6. LifeCycle'
  BY DEF LifeCycle, Untouched
<1>7. Authority' /\ ApprovalIsDurable' /\ PendingIsHeld'
  BY DEF Authority, ApprovalIsDurable, PendingIsHeld
<1> QED
  BY <1>1, <1>2, <1>3, <1>4, <1>5, <1>6, <1>7

(* A handshake that fails leaves nothing behind but its admission.         *)
LEMMA HandshakeLostSafe ==
  ASSUME NEW s \in Streams, IInv, HandshakeLost(s)
  PROVE  IInv'
<1> USE PublisherAssumption DEF IInv, SafetyInv, TypeOK, Phases, PairPhases,
      HandshakeLost, allowVars, inviteVars, serviceVars
<1>1. TypeOK'
  OBVIOUS
<1>2. CandidatesAreIsolated'
  BY DEF CandidatesAreIsolated
<1>3. ActiveIsHeld'
  BY DEF ActiveIsHeld
<1>4. OneCurrent'
  BY DEF OneCurrent
<1>5. StopSweeps'
  BY DEF StopSweeps
<1>6. LifeCycle'
  BY DEF LifeCycle, Untouched
<1>7. Authority' /\ ApprovalIsDurable' /\ PendingIsHeld'
  BY DEF Authority, ApprovalIsDurable, PendingIsHeld
<1> QED
  BY <1>1, <1>2, <1>3, <1>4, <1>5, <1>6, <1>7

(* An allowed stream becomes active only where no other stream was.        *)
LEMMA ConnectKnownSafe ==
  ASSUME NEW s \in Streams, IInv, ConnectKnown(s)
  PROVE  IInv'
<1> USE PublisherAssumption DEF IInv, SafetyInv, TypeOK, Phases, PairPhases,
      ConnectKnown, Listening, ActiveOnConnect, Activated, allowVars,
      inviteVars, serviceVars
<1>1. TypeOK'
  OBVIOUS
<1>2. Authority'
  BY DEF Authority
<1>3. CandidatesAreIsolated'
  BY DEF CandidatesAreIsolated
<1>4. ActiveIsHeld'
  BY DEF ActiveIsHeld
<1>5. OneCurrent'
  BY DEF Authority, OneCurrent, LifeCycle, Untouched
<1>6. StopSweeps'
  BY DEF StopSweeps
<1>7. LifeCycle'
  BY DEF LifeCycle, Untouched
<1>8. ApprovalIsDurable' /\ PendingIsHeld'
  BY DEF ApprovalIsDurable, PendingIsHeld
<1> QED
  BY <1>1, <1>2, <1>3, <1>4, <1>5, <1>6, <1>7, <1>8

(* A stranger becomes a candidate with no protocol installed.              *)
LEMMA ConnectCandidateSafe ==
  ASSUME NEW s \in Streams, IInv, ConnectCandidate(s)
  PROVE  IInv'
<1> USE PublisherAssumption DEF IInv, SafetyInv, TypeOK, Phases, PairPhases,
      ConnectCandidate, Listening, AdmissionUsed, allowVars, inviteVars,
      serviceVars
<1>1. TypeOK'
  OBVIOUS
<1>2. CandidatesAreIsolated'
  <2>1. phase[s] = "admitted" /\ s # NoStream /\ KeyOf[s] \in Keys
    OBVIOUS
  <2>2. s \notin protocols
    BY <2>1 DEF LifeCycle, Untouched
  <2>3. active[KeyOf[s]] # s
    BY <2>1 DEF ActiveIsHeld
  <2>4. /\ phase' = [phase EXCEPT ![s] = "open"]
        /\ candidates' = candidates \cup {s}
        /\ UNCHANGED <<protocols, active>>
    OBVIOUS
  <2> QED
    BY <2>2, <2>3, <2>4 DEF CandidatesAreIsolated
<1>3. ActiveIsHeld'
  BY DEF ActiveIsHeld
<1>4. OneCurrent'
  BY DEF Authority, OneCurrent
<1>5. ApprovalIsDurable'
  BY DEF ApprovalIsDurable
<1>6. PendingIsHeld'
  BY DEF PendingIsHeld, LifeCycle, Untouched
<1>7. StopSweeps'
  BY DEF StopSweeps
<1>8. LifeCycle'
  BY DEF LifeCycle, Untouched
<1>9. Authority'
  BY DEF Authority
<1> QED
  BY <1>1, <1>2, <1>3, <1>4, <1>5, <1>6, <1>7, <1>8, <1>9

(* A stream that ends stays in the maps until its close event.             *)
LEMMA StreamEndSafe ==
  ASSUME NEW s \in Streams, IInv, StreamEnd(s)
  PROVE  IInv'
<1> USE PublisherAssumption DEF IInv, SafetyInv, TypeOK, Phases, PairPhases,
      StreamEnd, Destroying, allowVars, inviteVars, serviceVars
<1>1. TypeOK'
  OBVIOUS
<1>2. CandidatesAreIsolated'
  BY DEF CandidatesAreIsolated
<1>3. ActiveIsHeld'
  BY DEF ActiveIsHeld
<1>4. OneCurrent'
  BY DEF OneCurrent
<1>5. StopSweeps'
  BY DEF StopSweeps
<1>6. LifeCycle'
  BY DEF LifeCycle, Untouched
<1>7. Authority' /\ ApprovalIsDurable' /\ PendingIsHeld'
  BY DEF Authority, ApprovalIsDurable, PendingIsHeld
<1> QED
  BY <1>1, <1>2, <1>3, <1>4, <1>5, <1>6, <1>7

(* The close event takes the stream out of the candidates and the active   *)
(* map.                                                                    *)
LEMMA StreamClosedSafe ==
  ASSUME NEW s \in Streams, IInv, StreamClosed(s)
  PROVE  IInv'
<1> USE PublisherAssumption DEF IInv, SafetyInv, TypeOK, Phases, PairPhases,
      StreamClosed, ActiveWithout, allowVars, inviteVars
<1>1. TypeOK'
  OBVIOUS
<1>2. Authority'
  BY DEF Authority
<1>3. CandidatesAreIsolated'
  BY DEF CandidatesAreIsolated
<1>4. ActiveIsHeld'
  BY DEF ActiveIsHeld
<1>5. OneCurrent'
  BY DEF OneCurrent
<1>6. StopSweeps'
  BY DEF StopSweeps
<1>7. LifeCycle'
  BY DEF LifeCycle, Untouched
<1>8. ApprovalIsDurable' /\ PendingIsHeld'
  BY DEF ApprovalIsDurable, PendingIsHeld
<1> QED
  BY <1>1, <1>2, <1>3, <1>4, <1>5, <1>6, <1>7, <1>8

(* The opened control channel makes its stream current and destroys the    *)
(* one it replaces.                                                        *)
LEMMA ControlOpenedSafe ==
  ASSUME NEW s \in Streams, IInv, ControlOpened(s)
  PROVE  IInv'
<1> USE PublisherAssumption DEF IInv, SafetyInv, TypeOK, Phases, PairPhases,
      ControlOpened, Activated, Promoted, Superseded, Destroying, allowVars,
      inviteVars, serviceVars
<1>1. TypeOK'
  OBVIOUS
<1>2. Authority'
  BY DEF Authority
<1>3. CandidatesAreIsolated'
  BY DEF CandidatesAreIsolated
<1>4. ActiveIsHeld'
  BY DEF ActiveIsHeld
<1>5. OneCurrent'
  BY DEF OneCurrent
<1>6. StopSweeps'
  BY DEF StopSweeps
<1>7. LifeCycle'
  BY DEF LifeCycle, Untouched
<1>8. ApprovalIsDurable' /\ PendingIsHeld'
  BY DEF ApprovalIsDurable, PendingIsHeld
<1> QED
  BY <1>1, <1>2, <1>3, <1>4, <1>5, <1>6, <1>7, <1>8

(* Opening the pairing channel gives no authority.                         *)
LEMMA PairingOpenedSafe ==
  ASSUME NEW s \in Streams, IInv, PairingOpened(s)
  PROVE  IInv'
<1> USE PublisherAssumption DEF IInv, SafetyInv, TypeOK, Phases, PairPhases,
      PairingOpened, allowVars, peerVars, inviteVars, serviceVars
<1>1. TypeOK'
  OBVIOUS
<1>2. ApprovalIsDurable'
  BY DEF ApprovalIsDurable
<1>3. PendingIsHeld'
  BY DEF PendingIsHeld
<1>4. LifeCycle'
  BY DEF LifeCycle, Untouched
<1>5. Authority' /\ CandidatesAreIsolated' /\ ActiveIsHeld' /\ OneCurrent' /\
     StopSweeps'
  BY DEF Authority, CandidatesAreIsolated, ActiveIsHeld, OneCurrent,
         StopSweeps
<1> QED
  BY <1>1, <1>2, <1>3, <1>4, <1>5

(* A misused pairing channel costs the candidate its stream.               *)
LEMMA PairingMisusedSafe ==
  ASSUME NEW s \in Streams, IInv, PairingMisused(s)
  PROVE  IInv'
<1> USE PublisherAssumption DEF IInv, SafetyInv, TypeOK, Phases, PairPhases,
      PairingMisused, Destroying, allowVars, inviteVars, serviceVars
<1>1. TypeOK'
  OBVIOUS
<1>2. CandidatesAreIsolated'
  BY DEF CandidatesAreIsolated
<1>3. ActiveIsHeld'
  BY DEF ActiveIsHeld
<1>4. OneCurrent'
  BY DEF OneCurrent
<1>5. StopSweeps'
  BY DEF StopSweeps
<1>6. LifeCycle'
  BY DEF LifeCycle, Untouched
<1>7. Authority' /\ ApprovalIsDurable' /\ PendingIsHeld'
  BY DEF Authority, ApprovalIsDurable, PendingIsHeld
<1> QED
  BY <1>1, <1>2, <1>3, <1>4, <1>5, <1>6, <1>7

(* The deadline destroys a silent candidate's stream.                      *)
LEMMA PairingDeadlineSafe ==
  ASSUME NEW s \in Streams, IInv, PairingDeadline(s)
  PROVE  IInv'
<1> USE PublisherAssumption DEF IInv, SafetyInv, TypeOK, Phases, PairPhases,
      PairingDeadline, Destroying, DeadlineArmed, allowVars, inviteVars,
      serviceVars
<1>1. TypeOK'
  OBVIOUS
<1>2. CandidatesAreIsolated'
  BY DEF CandidatesAreIsolated
<1>3. ActiveIsHeld'
  BY DEF ActiveIsHeld
<1>4. OneCurrent'
  BY DEF OneCurrent
<1>5. StopSweeps'
  BY DEF StopSweeps
<1>6. LifeCycle'
  BY DEF LifeCycle, Untouched
<1>7. Authority' /\ ApprovalIsDurable' /\ PendingIsHeld'
  BY DEF Authority, ApprovalIsDurable, PendingIsHeld
<1> QED
  BY <1>1, <1>2, <1>3, <1>4, <1>5, <1>6, <1>7

(* A peer that leaves its pairing channel reserves nothing.                *)
LEMMA PairingLeftSafe ==
  ASSUME NEW s \in Streams, IInv, PairingLeft(s)
  PROVE  IInv'
<1> USE PublisherAssumption DEF IInv, SafetyInv, TypeOK, Phases, PairPhases,
      PairingLeft, allowVars, peerVars, inviteVars, serviceVars
<1>1. TypeOK'
  OBVIOUS
<1>2. ApprovalIsDurable'
  BY DEF ApprovalIsDurable
<1>3. PendingIsHeld'
  BY DEF PendingIsHeld
<1>4. LifeCycle'
  BY DEF LifeCycle, Untouched
<1>5. Authority' /\ CandidatesAreIsolated' /\ ActiveIsHeld' /\ OneCurrent' /\
     StopSweeps'
  BY DEF Authority, CandidatesAreIsolated, ActiveIsHeld, OneCurrent,
         StopSweeps
<1> QED
  BY <1>1, <1>2, <1>3, <1>4, <1>5

(* The reserved request uses up the only invitation.                       *)
LEMMA RequestReservedSafe ==
  ASSUME NEW s \in Streams, NEW t \in 0 .. issued, IInv, RequestReserved(s, t)
  PROVE  IInv'
<1> USE PublisherAssumption DEF IInv, SafetyInv, TypeOK, Phases, PairPhases,
      RequestReserved, AcceptsCandidates, Destroying, allowVars, serviceVars
<1>1. TypeOK'
  OBVIOUS
<1>2. CandidatesAreIsolated'
  BY DEF CandidatesAreIsolated
<1>3. ActiveIsHeld'
  BY DEF ActiveIsHeld
<1>4. OneCurrent'
  BY DEF OneCurrent
<1>5. ApprovalIsDurable'
  BY DEF ApprovalIsDurable
<1>6. PendingIsHeld'
  BY DEF PendingIsHeld
<1>7. StopSweeps'
  BY DEF StopSweeps
<1>8. LifeCycle'
  BY DEF PendingIsHeld, LifeCycle, Untouched
<1>9. Authority'
  BY DEF Authority
<1> QED
  BY <1>1, <1>2, <1>3, <1>4, <1>5, <1>6, <1>7, <1>8, <1>9

(* A refused request destroys its stream and reserves nothing.             *)
LEMMA RequestRefusedSafe ==
  ASSUME NEW s \in Streams, NEW t \in 0 .. issued, IInv, RequestRefused(s, t)
  PROVE  IInv'
<1> USE PublisherAssumption DEF IInv, SafetyInv, TypeOK, Phases, PairPhases,
      RequestRefused, AcceptsCandidates, Destroying, allowVars, serviceVars
<1>1. TypeOK'
  OBVIOUS
<1>2. CandidatesAreIsolated'
  BY DEF CandidatesAreIsolated
<1>3. ActiveIsHeld'
  BY DEF ActiveIsHeld
<1>4. OneCurrent'
  BY DEF OneCurrent
<1>5. ApprovalIsDurable'
  BY DEF ApprovalIsDurable
<1>6. PendingIsHeld'
  BY DEF PendingIsHeld
<1>7. StopSweeps'
  BY DEF StopSweeps
<1>8. LifeCycle'
  BY DEF LifeCycle, Untouched
<1>9. Authority'
  BY DEF Authority
<1> QED
  BY <1>1, <1>2, <1>3, <1>4, <1>5, <1>6, <1>7, <1>8, <1>9

(* A service is dialled only for the current stream of an accepted key.    *)
LEMMA ServiceOpenedSafe ==
  ASSUME NEW s \in Streams, NEW v \in Services, IInv, ServiceOpened(s, v)
  PROVE  IInv'
<1> USE PublisherAssumption DEF IInv, SafetyInv, TypeOK, Phases, PairPhases,
      ServiceOpened, MayDial, allowVars, peerVars, inviteVars
<1>1. TypeOK'
  OBVIOUS
<1>2. Authority'
  BY DEF Authority
<1>3. CandidatesAreIsolated' /\ ActiveIsHeld' /\ OneCurrent' /\
     ApprovalIsDurable' /\ PendingIsHeld' /\ StopSweeps' /\ LifeCycle'
  BY DEF CandidatesAreIsolated, ActiveIsHeld, OneCurrent, ApprovalIsDurable,
         PendingIsHeld, StopSweeps, LifeCycle, Untouched
<1> QED
  BY <1>1, <1>2, <1>3

(* A finished dial is bridged under the checks made when it began.         *)
LEMMA ServiceDialledSafe ==
  ASSUME NEW s \in Streams, NEW v \in Services, IInv, ServiceDialled(s, v)
  PROVE  IInv'
<1> USE PublisherAssumption DEF IInv, SafetyInv, TypeOK, Phases, PairPhases,
      ServiceDialled, allowVars, peerVars, inviteVars
<1>1. TypeOK'
  OBVIOUS
<1>2. Authority'
  BY DEF Authority
<1>3. CandidatesAreIsolated' /\ ActiveIsHeld' /\ OneCurrent' /\
     ApprovalIsDurable' /\ PendingIsHeld' /\ StopSweeps' /\ LifeCycle'
  BY DEF CandidatesAreIsolated, ActiveIsHeld, OneCurrent, ApprovalIsDurable,
         PendingIsHeld, StopSweeps, LifeCycle, Untouched
<1> QED
  BY <1>1, <1>2, <1>3

(* Closing a service takes a bridge away.                                  *)
LEMMA ServiceClosedSafe ==
  ASSUME NEW s \in Streams, NEW v \in Services, IInv, ServiceClosed(s, v)
  PROVE  IInv'
<1> USE PublisherAssumption DEF IInv, SafetyInv, TypeOK, Phases, PairPhases,
      ServiceClosed, allowVars, peerVars, inviteVars
<1>1. TypeOK'
  OBVIOUS
<1>2. Authority'
  BY DEF Authority
<1>3. CandidatesAreIsolated' /\ ActiveIsHeld' /\ OneCurrent' /\
     ApprovalIsDurable' /\ PendingIsHeld' /\ StopSweeps' /\ LifeCycle'
  BY DEF CandidatesAreIsolated, ActiveIsHeld, OneCurrent, ApprovalIsDurable,
         PendingIsHeld, StopSweeps, LifeCycle, Untouched
<1> QED
  BY <1>1, <1>2, <1>3

(* A new invitation is issued only while no request is pending.            *)
LEMMA CreateInvitationSafe ==
  ASSUME IInv, CreateInvitation
  PROVE  IInv'
<1> USE PublisherAssumption DEF IInv, SafetyInv, TypeOK, Phases, PairPhases,
      CreateInvitation, ClosePairingCandidates, Destroying, allowVars,
      serviceVars
<1>1. TypeOK'
  <2>1. /\ phase' \in [Streams -> Phases]
        /\ candidates' \in SUBSET Streams /\ admissions' \in Nat
    OBVIOUS
  <2>2. /\ issued' \in 0 .. MaxInvitations /\ invitation' \in 0 .. MaxInvitations
        /\ timer' \in 0 .. MaxInvitations /\ expired' = FALSE
    OBVIOUS
  <2>3. UNCHANGED <<up, starts, allow, durable, consented, protocols, ready,
                    active, pair, pending, approving, connecting, bridged>>
    OBVIOUS
  <2> QED
    BY <2>1, <2>2, <2>3
<1>2. CandidatesAreIsolated'
  BY DEF CandidatesAreIsolated
<1>3. ActiveIsHeld'
  BY DEF ActiveIsHeld
<1>4. OneCurrent'
  BY DEF OneCurrent
<1>5. PendingIsHeld'
  BY DEF PendingIsHeld
<1>6. StopSweeps'
  BY DEF StopSweeps
<1>7. LifeCycle'
  BY DEF LifeCycle, Untouched
<1>8. Authority' /\ ApprovalIsDurable'
  BY DEF Authority, ApprovalIsDurable
<1> QED
  BY <1>1, <1>2, <1>3, <1>4, <1>5, <1>6, <1>7, <1>8

(* Cancelling or denying drops the request when no write is in flight.     *)
LEMMA EndPairingSafe ==
  ASSUME IInv, EndPairing
  PROVE  IInv'
<1> USE PublisherAssumption DEF IInv, SafetyInv, TypeOK, Phases, PairPhases,
      EndPairing, MayEndPairing, Destroying, allowVars, serviceVars
<1>1. TypeOK'
  OBVIOUS
<1>2. CandidatesAreIsolated'
  BY DEF CandidatesAreIsolated
<1>3. ActiveIsHeld'
  BY DEF ActiveIsHeld
<1>4. OneCurrent'
  BY DEF OneCurrent
<1>5. ApprovalIsDurable'
  BY DEF ApprovalIsDurable
<1>6. PendingIsHeld'
  BY DEF PendingIsHeld
<1>7. StopSweeps'
  BY DEF StopSweeps
<1>8. LifeCycle'
  BY DEF PendingIsHeld, LifeCycle, Untouched
<1>9. Authority'
  BY DEF Authority
<1> QED
  BY <1>1, <1>2, <1>3, <1>4, <1>5, <1>6, <1>7, <1>8, <1>9

(* The owner's consent precedes the write.                                 *)
LEMMA ApproveBeginSafe ==
  ASSUME IInv, ApproveBegin
  PROVE  IInv'
<1> USE PublisherAssumption DEF IInv, SafetyInv, TypeOK, Phases, PairPhases,
      ApproveBegin, WriteNeeded, peerVars, inviteVars, serviceVars
<1>1. TypeOK'
  OBVIOUS
<1>2. ApprovalIsDurable'
  BY DEF ApprovalIsDurable
<1>3. PendingIsHeld'
  BY DEF ApprovalIsDurable, PendingIsHeld
<1>4. LifeCycle'
  BY DEF LifeCycle, Untouched
<1>5. Authority' /\ CandidatesAreIsolated' /\ ActiveIsHeld' /\ OneCurrent' /\
     StopSweeps'
  BY DEF Authority, CandidatesAreIsolated, ActiveIsHeld, OneCurrent,
         StopSweeps
<1> QED
  BY <1>1, <1>2, <1>3, <1>4, <1>5

(* Stop sweeps the streams at once, or waits for the approval.             *)
LEMMA StopBeginSafe ==
  ASSUME IInv, StopBegin
  PROVE  IInv'
<1> USE PublisherAssumption DEF IInv, SafetyInv, TypeOK, Phases, PairPhases,
      StopBegin, Destroying, allowVars, serviceVars
<1>1. TypeOK'
  OBVIOUS
<1>2. CandidatesAreIsolated'
  BY DEF CandidatesAreIsolated
<1>3. ActiveIsHeld'
  BY DEF ActiveIsHeld
<1>4. OneCurrent'
  BY DEF OneCurrent
<1>5. PendingIsHeld'
  BY DEF PendingIsHeld
<1>6. StopSweeps'
  BY DEF StopSweeps
<1>7. LifeCycle'
  BY DEF LifeCycle, Untouched
<1>8. Authority' /\ ApprovalIsDurable'
  BY DEF Authority, ApprovalIsDurable
<1> QED
  BY <1>1, <1>2, <1>3, <1>4, <1>5, <1>6, <1>7, <1>8

(* The clock passes expiresAt.                                             *)
LEMMA InvitationExpiresSafe ==
  ASSUME IInv, InvitationExpires
  PROVE  IInv'
<1> USE PublisherAssumption DEF IInv, SafetyInv, TypeOK, Phases, PairPhases,
      InvitationExpires, allowVars, peerVars, serviceVars
<1>1. TypeOK'
  OBVIOUS
<1>2. Authority' /\ CandidatesAreIsolated' /\ ActiveIsHeld' /\ OneCurrent' /\
     ApprovalIsDurable' /\ PendingIsHeld' /\ StopSweeps' /\ LifeCycle'
  BY DEF Authority, CandidatesAreIsolated, ActiveIsHeld, OneCurrent,
         ApprovalIsDurable, PendingIsHeld, StopSweeps, LifeCycle, Untouched
<1> QED
  BY <1>1, <1>2

(* The expiry timer closes candidates and gives no authority.              *)
LEMMA ExpiryTimerSafe ==
  ASSUME IInv, ExpiryTimer
  PROVE  IInv'
<1> USE PublisherAssumption DEF IInv, SafetyInv, TypeOK, Phases, PairPhases,
      ExpiryTimer, ClosePairingCandidates, Destroying, allowVars, serviceVars
<1>1. TypeOK'
  OBVIOUS
<1>2. PendingIsHeld'
  BY DEF PendingIsHeld
<1>3. StopSweeps'
  BY DEF StopSweeps
<1>4. Authority' /\ CandidatesAreIsolated' /\ ActiveIsHeld' /\ OneCurrent' /\
     ApprovalIsDurable' /\ LifeCycle'
  BY DEF Authority, CandidatesAreIsolated, ActiveIsHeld, OneCurrent,
         ApprovalIsDurable, LifeCycle, Untouched
<1> QED
  BY <1>1, <1>2, <1>3, <1>4

(* The rename makes the pending key durable before anyone is told.         *)
LEMMA AllowlistWrittenSafe ==
  ASSUME IInv, AllowlistWritten
  PROVE  IInv'
<1> USE PublisherAssumption DEF IInv, SafetyInv, TypeOK, Phases, PairPhases,
      AllowlistWritten, peerVars, inviteVars, serviceVars
<1>1. TypeOK'
  BY DEF LifeCycle, Untouched
<1>2. ApprovalIsDurable'
  BY DEF ApprovalIsDurable, LifeCycle, Untouched
<1>3. PendingIsHeld'
  BY DEF PendingIsHeld
<1>4. LifeCycle'
  BY DEF LifeCycle, Untouched
<1>5. Authority' /\ CandidatesAreIsolated' /\ ActiveIsHeld' /\ OneCurrent' /\
     StopSweeps'
  BY DEF Authority, CandidatesAreIsolated, ActiveIsHeld, OneCurrent,
         StopSweeps
<1> QED
  BY <1>1, <1>2, <1>3, <1>4, <1>5

(* The live allowlist, the activation and the answer follow the durable    *)
(* write.                                                                  *)
LEMMA ApproveDoneSafe ==
  ASSUME IInv, ApproveDone
  PROVE  IInv'
<1> USE PublisherAssumption DEF IInv, SafetyInv, TypeOK, Phases, PairPhases,
      ApproveDone, Promoted, Activated, Superseded, SweptIfStopping,
      Destroying, ResumeStop, inviteVars, serviceVars
<1>1. TypeOK'
  BY DEF PendingIsHeld
<1>2. Authority'
  BY DEF Authority
<1>3. CandidatesAreIsolated'
  BY DEF CandidatesAreIsolated
<1>4. ActiveIsHeld'
  BY DEF ActiveIsHeld
<1>5. OneCurrent'
  BY DEF OneCurrent
<1>6. ApprovalIsDurable'
  BY DEF ApprovalIsDurable, PendingIsHeld
<1>7. PendingIsHeld'
  BY DEF PendingIsHeld
<1>8. StopSweeps'
  BY DEF StopSweeps
<1>9. LifeCycle'
  BY DEF PendingIsHeld, LifeCycle, Untouched
<1> QED
  BY <1>1, <1>2, <1>3, <1>4, <1>5, <1>6, <1>7, <1>8, <1>9

(* A failed approval leaves the request pending.                           *)
LEMMA ApproveFailedSafe ==
  ASSUME IInv, ApproveFailed
  PROVE  IInv'
<1> USE PublisherAssumption DEF IInv, SafetyInv, TypeOK, Phases, PairPhases,
      ApproveFailed, SweptIfStopping, Destroying, ResumeStop, allowVars,
      inviteVars, serviceVars
<1>1. TypeOK'
  OBVIOUS
<1>2. CandidatesAreIsolated'
  BY DEF CandidatesAreIsolated
<1>3. ActiveIsHeld'
  BY DEF ActiveIsHeld
<1>4. OneCurrent'
  BY DEF OneCurrent
<1>5. PendingIsHeld'
  BY DEF PendingIsHeld
<1>6. StopSweeps'
  BY DEF StopSweeps
<1>7. LifeCycle'
  BY DEF LifeCycle, Untouched
<1>8. Authority' /\ ApprovalIsDurable'
  BY DEF Authority, ApprovalIsDurable
<1> QED
  BY <1>1, <1>2, <1>3, <1>4, <1>5, <1>6, <1>7, <1>8

(* Stop returns when every stream has closed.                              *)
LEMMA StopDoneSafe ==
  ASSUME IInv, StopDone
  PROVE  IInv'
<1> USE PublisherAssumption DEF IInv, SafetyInv, TypeOK, Phases, PairPhases,
      StopDone, allowVars, peerVars, inviteVars, serviceVars
<1>1. TypeOK'
  OBVIOUS
<1>2. StopSweeps'
  BY DEF StopSweeps
<1>3. Authority' /\ CandidatesAreIsolated' /\ ActiveIsHeld' /\ OneCurrent' /\
     ApprovalIsDurable' /\ PendingIsHeld' /\ LifeCycle'
  BY DEF Authority, CandidatesAreIsolated, ActiveIsHeld, OneCurrent,
         ApprovalIsDurable, PendingIsHeld, LifeCycle, Untouched
<1> QED
  BY <1>1, <1>2, <1>3

(* A new process starts from the durable allowlist with empty maps.        *)
LEMMA CrashOrStartSafe ==
  ASSUME IInv, CrashOrStart
  PROVE  IInv'
<1> USE PublisherAssumption DEF IInv, SafetyInv, TypeOK, Phases, PairPhases,
      CrashOrStart
<1>1. TypeOK'
  <2>1. starts' \in 1 .. (MaxStarts + 1)
    OBVIOUS
  <2>2. /\ issued' \in 0 .. MaxInvitations /\ invitation' \in 0 .. MaxInvitations
        /\ timer' \in 0 .. MaxInvitations /\ admissions' \in Nat
    OBVIOUS
  <2>3. phase' \in [Streams -> Phases]
    OBVIOUS
  <2>4. /\ active' \in [Keys -> Streams \cup {NoStream}]
        /\ connecting' \in [Streams -> SUBSET Services]
        /\ bridged' \in [Streams -> SUBSET Services]
    OBVIOUS
  <2>5. /\ candidates' \in SUBSET Streams /\ protocols' \in SUBSET Streams
        /\ ready' \in SUBSET Streams /\ allow' \in SUBSET Keys
        /\ durable' \in SUBSET Keys /\ consented' \in SUBSET Keys
        /\ pair' \in [Streams -> PairPhases]
        /\ pending' \in Streams \cup {NoStream}
        /\ up' = "running" /\ expired' = FALSE /\ approving' = "no"
    OBVIOUS
  <2> QED
    BY <2>1, <2>2, <2>3, <2>4, <2>5
<1>2. Authority'
  BY DEF Authority
<1>3. CandidatesAreIsolated'
  BY DEF CandidatesAreIsolated
<1>4. ActiveIsHeld'
  BY DEF ActiveIsHeld
<1>5. OneCurrent'
  BY DEF OneCurrent
<1>6. ApprovalIsDurable'
  BY DEF ApprovalIsDurable
<1>7. PendingIsHeld'
  BY DEF PendingIsHeld
<1>8. StopSweeps'
  BY DEF StopSweeps
<1>9. LifeCycle'
  BY DEF ApprovalIsDurable, LifeCycle, Untouched
<1> QED
  BY <1>1, <1>2, <1>3, <1>4, <1>5, <1>6, <1>7, <1>8, <1>9

(* The next-state relation preserves the invariant.                        *)
LEMMA NextSafe == IInv /\ [Next]_vars => IInv'
<1> SUFFICES ASSUME IInv, [Next]_vars PROVE IInv'
  OBVIOUS
<1>1. ASSUME NEW s \in Streams, PeerStep(s) PROVE IInv'
  <2>1. ASSUME NEW t \in 0 .. issued,
               RequestReserved(s, t) \/ RequestRefused(s, t)
        PROVE IInv'
    BY <2>1, RequestReservedSafe, RequestRefusedSafe
  <2>2. ASSUME NEW v \in Services,
               ServiceOpened(s, v) \/ ServiceDialled(s, v) \/ ServiceClosed(s, v)
        PROVE IInv'
    BY <2>2, ServiceOpenedSafe, ServiceDialledSafe, ServiceClosedSafe
  <2> QED
    BY <1>1, <2>1, <2>2, FirewallSafe, HandshakeLostSafe, ConnectKnownSafe,
       ConnectCandidateSafe, StreamEndSafe, StreamClosedSafe,
       ControlOpenedSafe, PairingOpenedSafe, PairingMisusedSafe,
       PairingDeadlineSafe, PairingLeftSafe DEF PeerStep
<1>2. ASSUME OwnerStep PROVE IInv'
  BY <1>2, CreateInvitationSafe, EndPairingSafe, ApproveBeginSafe,
     StopBeginSafe DEF OwnerStep
<1>3. ASSUME SystemStep PROVE IInv'
  BY <1>3, InvitationExpiresSafe, ExpiryTimerSafe, AllowlistWrittenSafe,
     ApproveDoneSafe, ApproveFailedSafe, StopDoneSafe, CrashOrStartSafe
     DEF SystemStep
<1>4. ASSUME UNCHANGED vars PROVE IInv'
  <2> USE <1>4 DEF vars, peerVars, inviteVars, allowVars, serviceVars
  <2>1. TypeOK'
    BY DEF IInv, TypeOK
  <2>2. Authority' /\ CandidatesAreIsolated' /\ ActiveIsHeld' /\ OneCurrent'
    BY DEF IInv, SafetyInv, Authority, CandidatesAreIsolated, ActiveIsHeld,
           OneCurrent
  <2>3. ApprovalIsDurable' /\ PendingIsHeld' /\ StopSweeps' /\ LifeCycle'
    BY DEF IInv, SafetyInv, ApprovalIsDurable, PendingIsHeld, StopSweeps,
           LifeCycle, Untouched
  <2> QED
    BY <2>1, <2>2, <2>3 DEF IInv, SafetyInv
<1> QED
  BY <1>1, <1>2, <1>3, <1>4 DEF Next

-----------------------------------------------------------------------------

(* IInv holds in every reachable state: the induction the theorems below    *)
(* rest on.                                                                *)
THEOREM PublisherInvariant == Spec => []IInv
<1>1. Init => IInv
  BY InitSafe
<1>2. IInv /\ [Next]_vars => IInv'
  BY NextSafe
<1> QED
  BY <1>1, <1>2, PTL DEF Spec

(* Every variable keeps its type; the admission counter of the firewall    *)
(* never runs below zero.                                                  *)
THEOREM PublisherTypes == Spec => []TypeOK
<1>1. IInv => TypeOK
  BY DEF IInv
<1> QED
  BY <1>1, PublisherInvariant, PTL

(* An unapproved peer never has a protocol, an active entry or a service.  *)
THEOREM PublisherAuthority == Spec => [](Authority /\ CandidatesAreIsolated)
<1>1. IInv => Authority /\ CandidatesAreIsolated
  BY DEF IInv, SafetyInv
<1> QED
  BY <1>1, PublisherInvariant, PTL

(* One identity has at most one live control-ready connection, the one the *)
(* active map names.                                                       *)
THEOREM PublisherOneCurrent == Spec => [](OneCurrent /\ ActiveIsHeld)
<1>1. IInv => OneCurrent /\ ActiveIsHeld
  BY DEF IInv, SafetyInv
<1> QED
  BY <1>1, PublisherInvariant, PTL

(* Authorisation never outruns the disk or the owner, across failed        *)
(* writes, crashes and restarts.                                           *)
THEOREM PublisherDurability == Spec => [](ApprovalIsDurable /\ PendingIsHeld)
<1>1. IInv => ApprovalIsDurable /\ PendingIsHeld
  BY DEF IInv, SafetyInv
<1> QED
  BY <1>1, PublisherInvariant, PTL

(* Once stop has swept the streams none opens again.                       *)
THEOREM PublisherStopSweeps == Spec => []StopSweeps
<1>1. IInv => StopSweeps
  BY DEF IInv, SafetyInv
<1> QED
  BY <1>1, PublisherInvariant, PTL

-----------------------------------------------------------------------------
(* The handover of the active map, one key at a time.                      *)

Handover(k) ==
  LET loser == active[k]  winner == active'[k] IN
  (loser # NoStream /\ winner # loser) =>
    /\ phase'[loser] \in {"closing", "closed"}
    /\ IF winner = NoStream THEN phase'[loser] = "closed"
                            ELSE winner \in ready' \cup {pending}

(* Approval hands the entry to the pending stream and destroys the loser.  *)
LEMMA ApproveDoneHandover ==
  ASSUME IInv, NEW k \in Keys, ApproveDone
  PROVE  Handover(k)
<1> USE PublisherAssumption DEF IInv, SafetyInv, TypeOK, ActiveIsHeld,
      PendingIsHeld, ApproveDone
<1>1. pending \in Streams
  OBVIOUS
<1>2. CASE phase[pending] \in {"open", "closing"}
  BY <1>1, <1>2 DEF Superseded, SweptIfStopping, Destroying, Activated,
     Handover, Phases
<1>3. CASE phase[pending] \notin {"open", "closing"}
  BY <1>1, <1>3 DEF Handover
<1> QED
  BY <1>2, <1>3

(* A step of a stream hands an entry over only when its control channel    *)
(* opens, and vacates one only when it closes.                             *)
LEMMA PeerHandover ==
  ASSUME IInv, NEW k \in Keys, NEW s \in Streams, PeerStep(s)
  PROVE  Handover(k)
<1> USE PublisherAssumption DEF peerVars
<1>1. ASSUME UNCHANGED active PROVE Handover(k)
  BY <1>1 DEF Handover
<1>2. CASE ConnectKnown(s)
  BY <1>2 DEF IInv, TypeOK, ConnectKnown, ActiveOnConnect, Activated, Handover
<1>3. CASE ControlOpened(s)
  BY <1>3 DEF IInv, SafetyInv, TypeOK, ActiveIsHeld, ControlOpened,
     Superseded, Destroying, Activated, Handover, Phases
<1>4. CASE StreamClosed(s)
  BY <1>4 DEF IInv, SafetyInv, TypeOK, ActiveIsHeld, StreamClosed,
     ActiveWithout, Handover, Phases
<1>5. CASE Firewall(s) \/ HandshakeLost(s) \/ ConnectCandidate(s) \/ StreamEnd(s)
  BY <1>1, <1>5 DEF Firewall, HandshakeLost, ConnectCandidate, StreamEnd
<1>6. CASE \/ PairingOpened(s) \/ PairingMisused(s)
           \/ PairingDeadline(s) \/ PairingLeft(s)
  BY <1>1, <1>6 DEF PairingOpened, PairingMisused, PairingDeadline, PairingLeft
<1>7. ASSUME NEW t \in 0 .. issued,
             RequestReserved(s, t) \/ RequestRefused(s, t)
      PROVE  UNCHANGED active
  BY <1>7 DEF RequestReserved, RequestRefused
<1>8. ASSUME NEW v \in Services,
             ServiceOpened(s, v) \/ ServiceDialled(s, v) \/ ServiceClosed(s, v)
      PROVE  UNCHANGED active
  BY <1>8 DEF ServiceOpened, ServiceDialled, ServiceClosed
<1> QED
  BY <1>1, <1>2, <1>3, <1>4, <1>5, <1>6, <1>7, <1>8 DEF PeerStep

(* Of the other steps only an approval and a crash touch the active map.   *)
LEMMA OtherHandover ==
  ASSUME IInv, NEW k \in Keys, OwnerStep \/ SystemStep
  PROVE  Handover(k)
<1> USE DEF peerVars
<1>1. ASSUME UNCHANGED active PROVE Handover(k)
  BY <1>1 DEF Handover
<1>2. OwnerStep => UNCHANGED active
  BY DEF OwnerStep, CreateInvitation, ClosePairingCandidates, EndPairing,
         ApproveBegin, StopBegin
<1>3. \/ InvitationExpires \/ ExpiryTimer \/ AllowlistWritten
      \/ ApproveFailed \/ StopDone
      => UNCHANGED active
  BY DEF InvitationExpires, ExpiryTimer, AllowlistWritten, ApproveFailed,
         StopDone
<1>4. CASE CrashOrStart
  BY <1>4, PublisherAssumption DEF IInv, SafetyInv, TypeOK, ActiveIsHeld,
     CrashOrStart, Handover
<1> QED
  BY <1>1, <1>2, <1>3, <1>4, ApproveDoneHandover DEF SystemStep

(* A working connection is displaced only by one that has proved itself or *)
(* been approved, and vacated only by the close of its own stream.         *)
THEOREM PublisherHandover == Spec => ActiveHandover
<1>1. IInv /\ [Next]_vars => [\A k \in Keys : Handover(k)]_vars
  BY PeerHandover, OtherHandover DEF Next
<1> QED
  BY <1>1, PublisherInvariant, PTL DEF Spec, ActiveHandover, Handover

=============================================================================
