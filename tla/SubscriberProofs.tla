-------------------------- MODULE SubscriberProofs --------------------------
(***************************************************************************)
(* The safety of the subscriber's two halves, its connection and its       *)
(* gateway, each for itself.                                               *)
(*                                                                         *)
(* The connection, for any sets of streams and service opens: no wakeup is *)
(* lost, no stream outlives the code that would close it, a contact is     *)
(* promoted only when the publisher allows the subscriber, and the         *)
(* connection in use is kept while it is open.                             *)
(*                                                                         *)
(* The local side of a service open, for any sets of clients and any       *)
(* number of connections: no tunnel without its client, one answer at      *)
(* most, and 502 only for an end the client must know of.                  *)
(***************************************************************************)
EXTENDS SubscriberConnection, Gateway, FiniteSetTheorems, SequenceTheorems,
        TLAPS

\* What the loop is doing: an attempt has a stream and a step.
AttemptInv ==
  /\ loop = "trying" <=> trying # None
  /\ step # "none" <=> trying # None
  /\ step = "connect" \/ trying = None \/ phase[trying] # "connecting"

\* The connection in use is not the one being tried, and nothing is tried
\* beside it unless it is destroyed.
CurrentInv ==
  /\ cur # None => cur # trying /\ phase[cur] \in {"open", "dying"}
  /\ invalid => cur # None /\ phase[cur] = "dying"
  /\ cur # None /\ loop # "none" => invalid

\* What the publisher knows of a stream that is there.
StreamInv ==
  \A o \in Outers :
    /\ side[o] # "none" => phase[o] \in {"open", "dying"}
    /\ side[o] \in {"none", "stranger", "known"} => wire[o] = <<>>
    /\ request = o => side[o] = "asked" /\ Len(wire[o]) <= 1

\* What tells the subscriber that it is allowed is true.
GrantInv ==
  granted \/
    /\ \A o \in Outers : /\ wire[o] \in Seq(Responses \ {"approved"})
                         /\ side[o] \notin {"known", "approved"}
    /\ control # "ready" /\ step \notin {"promote", "confirm"}

IInv ==
  /\ TypeOK /\ AttemptInv /\ CurrentInv /\ StreamInv /\ GrantInv
  /\ NoLostWakeup /\ NoLeakedOuter /\ PromotionImpliesGrant


-----------------------------------------------------------------------------
(* Sequences of responses.                                                 *)

(* What is left of a sequence when its head is taken.                      *)
LEMMA TailIs ==
  ASSUME NEW S, NEW s \in Seq(S), s # <<>>
  PROVE  /\ Head(s) \in S /\ Tail(s) \in Seq(S)
         /\ Len(Tail(s)) = Len(s) - 1 /\ Len(s) \in Nat
<1> QED BY HeadTailProperties, LenProperties

(* One more element.                                                       *)
LEMMA AppendIs ==
  ASSUME NEW S, NEW s \in Seq(S), NEW e \in S
  PROVE  /\ Append(s, e) \in Seq(S)
         /\ Len(Append(s, e)) = Len(s) + 1 /\ Len(s) \in Nat
<1> QED BY AppendProperties, LenProperties

-----------------------------------------------------------------------------
(* How an attempt ends.                                                    *)

(* Only live streams are killed, and those of the set are.                 *)
LEMMA KilledIs ==
  ASSUME TypeOK, NEW S, phase' = Killed(S)
  PROVE  /\ phase' \in [Outers -> {"free", "connecting", "open", "dying"}]
         /\ \A o \in Outers :
              /\ ~(o \in S /\ Live(o)) => phase'[o] = phase[o]
              /\ o \in S /\ Live(o) => phase'[o] = "dying"
<1>1. \A o \in Outers :
        phase'[o] = IF o \in S /\ Live(o) THEN "dying" ELSE phase[o]
  BY DEF Killed
<1>2. phase' \in [Outers -> {"free", "connecting", "open", "dying"}]
  BY DEF Killed, TypeOK
<1> QED BY <1>1, <1>2

(* A loop that rejects tells who joined it.                                *)
LEMMA LoopRejectsEffect ==
  ASSUME TypeOK, NEW how \in {"no", "refused", "expired"}, LoopRejects(how)
  PROVE  /\ loop' = "none" /\ ended' = how
         /\ report' \in {"none", "armed", "made"}
         /\ op' \in [Opens -> Waiting \cup
                               {"idle", "done", "closed", "failed"}]
         /\ \A r \in Opens : op'[r] # "joining"
<1>1. report' \in {"none", "armed", "made"}
  BY DEF LoopRejects, TypeOK
<1>2. op' \in [Opens -> Waiting \cup {"idle", "done", "closed", "failed"}]
  BY DEF LoopRejects, TypeOK
<1>3. \A r \in Opens : op'[r] # "joining"
  BY DEF LoopRejects
<1> QED BY <1>1, <1>2, <1>3 DEF LoopRejects

(* After a failure the loop sleeps, or it ends and says how.               *)
LEMMA AfterFailureEffect ==
  ASSUME TypeOK, NEW refused \in BOOLEAN, AfterFailure(refused)
  PROVE  /\ loop' \in {"none", "sleeping"}
         /\ ended' \in {"no", "refused", "expired"}
         /\ report' \in {"none", "armed", "made"}
         /\ op' \in [Opens -> Waiting \cup
                               {"idle", "done", "closed", "failed"}]
         /\ loop' = "none" => /\ Stopped \/ ended' # "no"
                              /\ \A r \in Opens : op'[r] # "joining"
<1>1. CASE Stopped
  <2>1. LoopRejects("no")
    BY <1>1 DEF AfterFailure
  <2> QED BY <1>1, <2>1, LoopRejectsEffect
<1>2. CASE ~Stopped /\ refused
  <2>1. LoopRejects("refused")
    BY <1>2 DEF AfterFailure
  <2> QED BY <2>1, LoopRejectsEffect
<1>3. CASE ~Stopped /\ ~refused /\ PairingExpired
  <2>1. LoopRejects("expired")
    BY <1>3 DEF AfterFailure
  <2> QED BY <2>1, LoopRejectsEffect
<1>4. CASE ~Stopped /\ ~refused /\ ~PairingExpired
  BY <1>4 DEF AfterFailure, TypeOK
<1> QED BY <1>1, <1>2, <1>3, <1>4

(* The types of what the loop and its attempts change.                     *)
LoopTypeOK ==
  /\ phase \in [Outers -> {"free", "connecting", "open", "dying"}]
  /\ trying \in Outers \cup {None}
  /\ step \in {"none", "connect", "pair", "promote", "control", "confirm"}
  /\ loop \in {"none", "due", "trying", "sleeping"}
  /\ ended \in {"no", "refused", "expired"}
  /\ report \in {"none", "armed", "made"}
  /\ op \in [Opens -> Waiting \cup {"idle", "done", "closed", "failed"}]

(* What is about the loop, its attempt and the connection in use.          *)
LoopInv ==
  LoopTypeOK /\ AttemptInv /\ CurrentInv /\ NoLostWakeup /\ NoLeakedOuter

(* The attempt that fails leaves its stream dying and nothing else.        *)
LEMMA AttemptFailsEffect ==
  ASSUME IInv, step # "none", NEW refused \in BOOLEAN, AttemptFails(refused),
         UNCHANGED <<up, curVars>>
  PROVE  /\ LoopInv' /\ step' = "none"
         /\ \A o \in Outers : phase'[o] = phase[o] \/ phase'[o] = "dying"
<1> USE DEF curVars
<1>1. /\ trying \in Outers /\ trying' = None /\ step' = "none"
      /\ loop = "trying"
  BY DEF IInv, TypeOK, AttemptInv, AttemptFails
<1>2. /\ loop' \in {"none", "sleeping"}
      /\ ended' \in {"no", "refused", "expired"}
      /\ report' \in {"none", "armed", "made"}
      /\ op' \in [Opens -> Waiting \cup {"idle", "done", "closed", "failed"}]
      /\ loop' = "none" => /\ Stopped \/ ended' # "no"
                           /\ \A r \in Opens : op'[r] # "joining"
  BY AfterFailureEffect DEF IInv, AttemptFails
<1>3. /\ phase' \in [Outers -> {"free", "connecting", "open", "dying"}]
      /\ \A o \in Outers :
           /\ ~(o \in {trying} /\ Live(o)) => phase'[o] = phase[o]
           /\ o \in {trying} /\ Live(o) => phase'[o] = "dying"
  BY KilledIs DEF IInv, AttemptFails
<1>4. LoopTypeOK'
  BY <1>1, <1>2, <1>3 DEF LoopTypeOK, Waiting
<1>5. AttemptInv'
  BY <1>1, <1>2 DEF AttemptInv
<1>6. CurrentInv'
  BY <1>1, <1>2, <1>3 DEF CurrentInv, IInv, TypeOK
<1>7. NoLostWakeup'
  BY <1>2 DEF NoLostWakeup, Stopped, IInv, TypeOK
<1>8. NoLeakedOuter'
  <2>1. SUFFICES ASSUME NEW o \in Outers, Live(o)'
                 PROVE  o = cur' /\ ~Stopped'
    BY DEF NoLeakedOuter
  <2>2. Live(o) /\ o # trying
    BY <1>3, <2>1 DEF Live
  <2> QED BY <2>2 DEF IInv, NoLeakedOuter, Stopped
<1> QED BY <1>1, <1>3, <1>4, <1>5, <1>6, <1>7, <1>8 DEF LoopInv

(* A connection is installed from an attempt whose stream was there.       *)
LEMMA InstallsEffect ==
  ASSUME IInv, step \in {"control", "confirm"}, phase[trying] # "free",
         Installs(trying), UNCHANGED up
  PROVE  /\ LoopInv' /\ step' = "none" /\ UNCHANGED phase
         /\ cur' \in Outers /\ invalid' = FALSE
         /\ on' \in [Opens -> Outers \cup {None}]
<1>1. /\ trying \in Outers /\ trying' = None /\ step' = "none"
      /\ loop = "trying" /\ loop' = "none" /\ cur' = trying
      /\ invalid' = FALSE /\ ended' = "no" /\ UNCHANGED phase
      /\ phase[trying] \in {"open", "dying"}
  BY DEF IInv, TypeOK, AttemptInv, Installs
<1>2. /\ op' \in [Opens -> Waiting \cup {"idle", "done", "closed", "failed"}]
      /\ \A r \in Opens : op'[r] # "joining"
  BY DEF Installs, IInv, TypeOK, Waiting
<1>3. on' \in [Opens -> Outers \cup {None}]
  BY <1>1 DEF Installs, IInv, TypeOK
<1>4. report' \in {"none", "armed", "made"}
  BY DEF Installs, IInv, TypeOK
<1>5. LoopTypeOK'
  BY <1>1, <1>2, <1>4 DEF LoopTypeOK, IInv, TypeOK
<1>6. AttemptInv'
  BY <1>1 DEF AttemptInv
<1>7. CurrentInv'
  BY <1>1, SubscriberAssumption DEF CurrentInv
<1>8. NoLostWakeup'
  BY <1>1, <1>2, SubscriberAssumption DEF NoLostWakeup
<1>9. NoLeakedOuter'
  BY <1>1 DEF NoLeakedOuter, IInv, TypeOK, CurrentInv, Live, Stopped
<1> QED BY <1>1, <1>3, <1>5, <1>6, <1>7, <1>8, <1>9 DEF LoopInv

(* A connect that times out.                                               *)
LEMMA ConnectTimesOutStep ==
  ASSUME IInv, ConnectTimesOut
  PROVE  IInv'
<1>1. /\ LoopInv' /\ step' = "none"
      /\ \A o \in Outers : phase'[o] = phase[o] \/ phase'[o] = "dying"
  <2>1. step # "none" /\ UNCHANGED <<up, curVars>>
    BY DEF ConnectTimesOut
  <2> QED BY <2>1, AttemptFailsEffect DEF ConnectTimesOut
<1>2. UNCHANGED <<up, contact, pendingFile, byHand, pairing, accepted,
                 unconfirmed, expired, side, wire, kind, control, cur,
                 invalid, on, invite, request, granted>>
  BY DEF ConnectTimesOut, fileVars, pairVars, curVars, pubVars
<1>4. TypeOK'
  BY <1>1, <1>2 DEF IInv, TypeOK, LoopInv, LoopTypeOK, CurrentInv
<1>5. StreamInv'
  BY <1>1, <1>2 DEF IInv, StreamInv
<1>6. GrantInv'
  BY <1>1, <1>2 DEF IInv, GrantInv
<1>7. PromotionImpliesGrant'
  BY <1>2 DEF IInv, PromotionImpliesGrant
<1> QED BY <1>1, <1>4, <1>5, <1>6, <1>7 DEF IInv, LoopInv

(* A publisher that knows the subscriber refuses the pairing channel.      *)
LEMMA PairChannelRefusedStep ==
  ASSUME IInv, PairChannelRefused
  PROVE  IInv'
<1>1. /\ LoopInv' /\ step' = "none"
      /\ \A o \in Outers : phase'[o] = phase[o] \/ phase'[o] = "dying"
  <2>1. step # "none" /\ UNCHANGED <<up, curVars>>
    BY DEF PairChannelRefused
  <2> QED BY <2>1, AttemptFailsEffect DEF PairChannelRefused
<1>2. UNCHANGED <<up, contact, pendingFile, byHand, pairing, accepted,
                 unconfirmed, expired, side, wire, kind, control, cur,
                 invalid, on, invite, request, granted>>
  BY DEF PairChannelRefused, fileVars, pairVars, curVars, pubVars
<1>4. TypeOK'
  BY <1>1, <1>2 DEF IInv, TypeOK, LoopInv, LoopTypeOK, CurrentInv
<1>5. StreamInv'
  BY <1>1, <1>2 DEF IInv, StreamInv
<1>6. GrantInv'
  BY <1>1, <1>2 DEF IInv, GrantInv
<1>7. PromotionImpliesGrant'
  BY <1>2 DEF IInv, PromotionImpliesGrant
<1> QED BY <1>1, <1>4, <1>5, <1>6, <1>7 DEF IInv, LoopInv

(* A refused request ends the pairing.                                     *)
LEMMA PairRefusedStep ==
  ASSUME IInv, PairRefused
  PROVE  IInv'
<1>1. /\ LoopInv' /\ step' = "none"
      /\ \A o \in Outers : phase'[o] = phase[o] \/ phase'[o] = "dying"
  <2>1. step # "none" /\ UNCHANGED <<up, curVars>>
    BY DEF PairRefused
  <2> QED BY <2>1, AttemptFailsEffect DEF PairRefused
<1>2. UNCHANGED <<up, contact, pendingFile, byHand, pairing, accepted,
                 unconfirmed, expired, side, kind, control, cur, invalid,
                 on, invite, request, granted>>
  BY DEF PairRefused, fileVars, pairVars, curVars, pubVars
<1>3. /\ wire' \in [Outers -> Seq(Responses)]
      /\ \A o \in Outers : wire'[o] = wire[o] \/ o = trying
      /\ wire'[trying] = Tail(wire[trying]) /\ wire[trying] # <<>>
      /\ trying \in Outers
  <2>1. trying \in Outers
    BY DEF PairRefused, IInv, TypeOK, AttemptInv
  <2>2. wire[trying] # <<>> /\ wire[trying] \in Seq(Responses)
    BY <2>1 DEF PairRefused, IInv, TypeOK
  <2>3. Tail(wire[trying]) \in Seq(Responses)
    BY <2>2, TailIs
  <2> QED BY <2>1, <2>2, <2>3 DEF PairRefused, IInv, TypeOK
<1>8. \A o \in Outers : /\ Len(wire[o]) \in Nat /\ Len(wire'[o]) \in Nat
                        /\ Len(wire'[o]) <= Len(wire[o])
  <2>1. wire[trying] \in Seq(Responses) /\ wire \in [Outers -> Seq(Responses)]
    BY <1>3 DEF IInv, TypeOK
  <2>2. \A o \in Outers : Len(wire[o]) \in Nat /\ Len(wire'[o]) \in Nat
    BY <1>3, <2>1, LenProperties
  <2>3. Len(wire'[trying]) = Len(wire[trying]) - 1
    BY <1>3, <2>1, TailIs
  <2> QED BY <1>3, <2>2, <2>3
<1>4. TypeOK'
  <2>1. \A o \in Outers : Len(wire'[o]) <= 2
    BY <1>8 DEF IInv, TypeOK
  <2> QED BY <1>1, <1>2, <1>3, <2>1
          DEF IInv, TypeOK, LoopInv, LoopTypeOK, CurrentInv
<1>5. StreamInv'
  <2>1. ASSUME NEW o \in Outers
        PROVE  /\ side'[o] # "none" => phase'[o] \in {"open", "dying"}
               /\ side'[o] \in {"none", "stranger", "known"} =>
                    wire'[o] = <<>>
               /\ request' = o => side'[o] = "asked" /\ Len(wire'[o]) <= 1
    <3>1. request' = o => side'[o] = "asked" /\ Len(wire'[o]) <= 1
      <4>1. request = o => side[o] = "asked" /\ Len(wire[o]) <= 1
        BY DEF IInv, StreamInv
      <4> QED BY <1>2, <1>8, <4>1
    <3> QED BY <1>1, <1>2, <1>3, <3>1 DEF IInv, StreamInv
  <2> QED BY <2>1 DEF StreamInv
<1>6. GrantInv'
  <2>1. granted \/ wire'[trying] \in Seq(Responses \ {"approved"})
    <3>1. granted \/ wire[trying] \in Seq(Responses \ {"approved"})
      BY <1>3 DEF IInv, GrantInv
    <3> QED BY <1>3, <3>1, TailIs
  <2> QED BY <1>1, <1>2, <1>3, <2>1 DEF IInv, GrantInv
<1>7. PromotionImpliesGrant'
  BY <1>2 DEF IInv, PromotionImpliesGrant
<1> QED BY <1>1, <1>4, <1>5, <1>6, <1>7 DEF IInv, LoopInv

(* A promotion that fails, before the rename or after it.                  *)
LEMMA RenameFailsStep ==
  ASSUME IInv, RenameFails
  PROVE  IInv'
<1>1. /\ LoopInv' /\ step' = "none"
      /\ \A o \in Outers : phase'[o] = phase[o] \/ phase'[o] = "dying"
  <2>1. step # "none" /\ UNCHANGED <<up, curVars>>
    BY DEF RenameFails
  <2> QED BY <2>1, AttemptFailsEffect DEF RenameFails
<1>2. UNCHANGED <<up, byHand, pairing, accepted, unconfirmed, expired, side,
                 wire, kind, control, cur, invalid, on, invite, request,
                 granted>>
  BY DEF RenameFails, fileVars, pairVars, curVars, pubVars
<1>3. /\ contact' \in BOOLEAN /\ pendingFile' \in BOOLEAN
      /\ contact' => contact \/ granted
  BY DEF RenameFails, Renamed, IInv, TypeOK, GrantInv
<1>4. TypeOK'
  BY <1>1, <1>2, <1>3 DEF IInv, TypeOK, LoopInv, LoopTypeOK, CurrentInv
<1>5. StreamInv'
  BY <1>1, <1>2 DEF IInv, StreamInv
<1>6. GrantInv'
  BY <1>1, <1>2 DEF IInv, GrantInv
<1>7. PromotionImpliesGrant'
  BY <1>2, <1>3 DEF IInv, PromotionImpliesGrant
<1> QED BY <1>1, <1>4, <1>5, <1>6, <1>7 DEF IInv, LoopInv

(* What an attempt does with its control channel.                          *)
LEMMA ControlAwaitedStep ==
  ASSUME IInv, ControlAwaited
  PROVE  IInv'
<1>1. UNCHANGED <<up, contact, pendingFile, byHand, pairing, accepted,
                  unconfirmed, expired, side, wire, kind, control, invite,
                  request, granted>>
  BY DEF ControlAwaited, fileVars, pairVars, pubVars
<1>2. step = "control" /\ trying \in Outers
  BY DEF ControlAwaited, IInv, TypeOK, AttemptInv
<1>3. CASE /\ Confirmed /\ kind = "confirm"
           /\ step' = "confirm"
           /\ UNCHANGED <<phase, trying, loop, curVars, endVars, openVars>>
  <2>1. granted
    BY <1>3 DEF Confirmed, IInv, GrantInv
  <2>2. UNCHANGED <<phase, trying, loop, cur, invalid, ended, report, op, on>>
    BY <1>3 DEF curVars, endVars, openVars
  <2>3. TypeOK'
    BY <1>1, <1>3, <2>2 DEF IInv, TypeOK
  <2>4. AttemptInv' /\ CurrentInv'
    BY <1>2, <1>3, <2>2 DEF IInv, AttemptInv, CurrentInv, TypeOK
  <2>5. StreamInv' /\ GrantInv' /\ PromotionImpliesGrant'
    BY <1>1, <2>1, <2>2 DEF IInv, StreamInv, GrantInv, PromotionImpliesGrant
  <2>6. NoLostWakeup' /\ NoLeakedOuter'
    BY <1>1, <2>2 DEF IInv, NoLostWakeup, NoLeakedOuter, Live, Stopped
  <2> QED BY <2>3, <2>4, <2>5, <2>6 DEF IInv
<1>4. CASE /\ kind # "confirm" /\ phase[trying] # "free"
           /\ Installs(trying)
  <2>1. /\ LoopInv' /\ step' = "none" /\ UNCHANGED phase
        /\ cur' \in Outers /\ invalid' = FALSE
        /\ on' \in [Opens -> Outers \cup {None}]
    BY <1>1, <1>2, <1>4, InstallsEffect
  <2>2. TypeOK'
    <3>1. LoopTypeOK' /\ cur' \in Outers \cup {None} /\ invalid' \in BOOLEAN
      BY <2>1 DEF LoopInv
    <3> QED BY <1>1, <2>1, <3>1 DEF IInv, TypeOK, LoopTypeOK
  <2>3. StreamInv' /\ GrantInv' /\ PromotionImpliesGrant'
    BY <1>1, <2>1 DEF IInv, StreamInv, GrantInv, PromotionImpliesGrant
  <2> QED BY <2>1, <2>2, <2>3 DEF IInv, LoopInv
<1>5. CASE AttemptFails(FALSE) /\ UNCHANGED <<curVars, on>>
  <2>1. /\ LoopInv' /\ step' = "none"
        /\ \A o \in Outers : phase'[o] = phase[o] \/ phase'[o] = "dying"
    BY <1>1, <1>2, <1>5, AttemptFailsEffect
  <2>2. TypeOK'
    BY <1>1, <1>5, <2>1 DEF IInv, TypeOK, LoopInv, LoopTypeOK, curVars
  <2>3. StreamInv'
    BY <1>1, <2>1 DEF IInv, StreamInv
  <2>4. GrantInv' /\ PromotionImpliesGrant'
    BY <1>1, <2>1 DEF IInv, GrantInv, PromotionImpliesGrant
  <2> QED BY <2>1, <2>2, <2>3, <2>4 DEF IInv, LoopInv
<1> QED BY <1>3, <1>4, <1>5 DEF ControlAwaited

(* The rename after a confirmed approval returns.                          *)
LEMMA ConfirmDoneStep ==
  ASSUME IInv, ConfirmDone
  PROVE  IInv'
<1>1. UNCHANGED <<up, byHand, expired, side, wire, kind, control, invite,
                  request, granted>>
  BY DEF ConfirmDone, pubVars
<1>2. /\ step = "confirm" /\ trying \in Outers /\ granted
      /\ contact' = TRUE /\ pendingFile' = FALSE
  BY DEF ConfirmDone, IInv, TypeOK, AttemptInv, GrantInv, Renamed
<1>3. pairing' \in BOOLEAN /\ accepted' \in BOOLEAN /\ unconfirmed' \in BOOLEAN
  BY DEF ConfirmDone, IInv, TypeOK
<1>4. PromotionImpliesGrant'
  BY <1>1, <1>2 DEF PromotionImpliesGrant
<1>5. CASE phase[trying] # "free" /\ Installs(trying)
  <2>1. /\ LoopInv' /\ step' = "none" /\ UNCHANGED phase
        /\ cur' \in Outers /\ invalid' = FALSE
        /\ on' \in [Opens -> Outers \cup {None}]
    BY <1>1, <1>2, <1>5, InstallsEffect
  <2>2. TypeOK'
    <3>1. LoopTypeOK'
      BY <2>1 DEF LoopInv
    <3> QED BY <1>1, <1>2, <1>3, <2>1, <3>1 DEF IInv, TypeOK, LoopTypeOK
  <2>3. StreamInv' /\ GrantInv'
    BY <1>1, <1>2, <2>1 DEF IInv, StreamInv, GrantInv
  <2> QED BY <1>4, <2>1, <2>2, <2>3 DEF IInv, LoopInv
<1>6. CASE AttemptFails(FALSE) /\ UNCHANGED <<curVars, on>>
  <2>1. /\ LoopInv' /\ step' = "none"
        /\ \A o \in Outers : phase'[o] = phase[o] \/ phase'[o] = "dying"
    BY <1>1, <1>2, <1>6, AttemptFailsEffect
  <2>2. TypeOK'
    <3>1. UNCHANGED curVars /\ UNCHANGED on
      BY <1>6
    <3>2. UNCHANGED <<cur, invalid, on>>
      BY <3>1 DEF curVars
    <3>3. LoopTypeOK'
      BY <2>1 DEF LoopInv
    <3>4. contact' \in BOOLEAN /\ pendingFile' \in BOOLEAN
      BY <1>2
    <3> QED BY <1>1, <1>3, <3>2, <3>3, <3>4 DEF IInv, TypeOK, LoopTypeOK
  <2>3. StreamInv' /\ GrantInv'
    BY <1>1, <1>2, <2>1 DEF IInv, StreamInv, GrantInv
  <2> QED BY <1>4, <2>1, <2>2, <2>3 DEF IInv, LoopInv
<1> QED BY <1>5, <1>6 DEF ConfirmDone

(* The loop begins another attempt, or ends.                               *)
LEMMA NextAttemptStep ==
  ASSUME IInv, loop \in {"due", "sleeping"}, NextAttempt,
         UNCHANGED <<up, fileVars, pairVars, side, wire, kind, control,
                     curVars, on, pubVars>>
  PROVE  IInv'
<1>1. UNCHANGED <<up, contact, pendingFile, byHand, pairing, accepted,
                  unconfirmed, expired, side, wire, kind, control, cur,
                  invalid, on, invite, request, granted>>
  BY DEF fileVars, pairVars, curVars, pubVars
<1>2. trying = None /\ step = "none"
  BY DEF IInv, TypeOK, AttemptInv
<1>3. ASSUME NEW how \in {"no", "expired"}, LoopRejects(how),
             Stopped \/ how # "no", UNCHANGED <<phase, trying, step>>
      PROVE  IInv'
  <2>1. /\ loop' = "none" /\ ended' = how
        /\ report' \in {"none", "armed", "made"}
        /\ op' \in [Opens -> Waiting \cup {"idle", "done", "closed", "failed"}]
        /\ \A r \in Opens : op'[r] # "joining"
    BY <1>3, LoopRejectsEffect DEF IInv
  <2>2. TypeOK'
    BY <1>1, <1>3, <2>1 DEF IInv, TypeOK
  <2>3. AttemptInv' /\ CurrentInv'
    BY <1>1, <1>2, <1>3, <2>1 DEF IInv, AttemptInv, CurrentInv
  <2>4. StreamInv' /\ GrantInv' /\ PromotionImpliesGrant' /\ NoLeakedOuter'
    BY <1>1, <1>3
       DEF IInv, StreamInv, GrantInv, PromotionImpliesGrant, NoLeakedOuter,
           Live, Stopped
  <2>5. NoLostWakeup'
    BY <1>1, <1>3, <2>1 DEF NoLostWakeup, Stopped
  <2> QED BY <2>2, <2>3, <2>4, <2>5 DEF IInv
<1>4. ASSUME NEW o \in Outers, phase[o] = "free", ~Stopped,
             phase' = [phase EXCEPT ![o] = "connecting"], trying' = o,
             step' = "connect", loop' = "trying",
             UNCHANGED <<ended, report, op>>
      PROVE  IInv'
  <2>1. /\ phase' \in [Outers -> {"free", "connecting", "open", "dying"}]
        /\ phase'[o] = "connecting"
        /\ \A p \in Outers \ {o} : phase'[p] = phase[p]
    BY <1>4 DEF IInv, TypeOK
  <2>2. TypeOK'
    BY <1>1, <1>4, <2>1 DEF IInv, TypeOK
  <2>3. AttemptInv'
    BY <1>4, SubscriberAssumption DEF AttemptInv
  <2>4. CurrentInv'
    BY <1>1, <1>4, <2>1 DEF IInv, TypeOK, CurrentInv
  <2>5. StreamInv'
    BY <1>1, <1>4, <2>1 DEF IInv, StreamInv
  <2>6. GrantInv' /\ PromotionImpliesGrant' /\ NoLostWakeup'
    BY <1>1, <1>4 DEF IInv, GrantInv, PromotionImpliesGrant, NoLostWakeup
  <2>7. NoLeakedOuter'
    BY <1>1, <1>2, <1>4, <2>1, SubscriberAssumption
       DEF IInv, NoLeakedOuter, Live, Stopped
  <2> QED BY <2>2, <2>3, <2>4, <2>5, <2>6, <2>7 DEF IInv
<1>5. CASE \/ Stopped /\ LoopRejects("no") /\ UNCHANGED <<phase, trying, step>>
           \/ LoopRejects("expired") /\ UNCHANGED <<phase, trying, step>>
  BY <1>3, <1>5
<1>6. CASE /\ ~Stopped /\ ~PairingExpired
           /\ \E o \in Outers : /\ phase[o] = "free"
                                /\ phase' = [phase EXCEPT ![o] = "connecting"]
                                /\ trying' = o
           /\ step' = "connect" /\ loop' = "trying"
           /\ UNCHANGED <<ended, report, op>>
  BY <1>4, <1>6
<1> QED BY <1>5, <1>6 DEF NextAttempt

(* A loop that was just made.                                              *)
LEMMA LoopBeginsStep ==
  ASSUME IInv, LoopBegins
  PROVE  IInv'
<1> QED BY NextAttemptStep DEF LoopBegins

(* A loop that waited between two attempts.                                *)
LEMMA SleepEndsStep ==
  ASSUME IInv, SleepEnds
  PROVE  IInv'
<1> QED BY NextAttemptStep DEF SleepEnds

-----------------------------------------------------------------------------
(* Starting, stopping and the publisher.                                   *)

(* The owner's QR is scanned.                                              *)
LEMMA StartPairingStep ==
  ASSUME IInv, StartPairing
  PROVE  IInv'
<1>1. UNCHANGED <<contact, byHand, accepted, unconfirmed, phase, trying,
                 step, kind, control, loop, cur, invalid, ended, report, op,
                 on, side, wire, request, granted>>
  BY DEF StartPairing, tryVars, curVars, endVars, openVars, netVars
<1>2. /\ up' = "starting" /\ pendingFile' \in BOOLEAN /\ invite' = "ours"
      /\ expired' \in BOOLEAN /\ pairing' \in BOOLEAN
  BY DEF StartPairing
<1>20. TypeOK'
  BY <1>1, <1>2 DEF IInv, TypeOK
<1>21. AttemptInv'
  BY DEF IInv, StartPairing, fileVars, pairVars, tryVars, curVars, endVars,
     openVars, pubVars, netVars, AttemptInv
<1>22. CurrentInv'
  BY DEF IInv, StartPairing, fileVars, pairVars, tryVars, curVars, endVars,
     openVars, pubVars, netVars, CurrentInv
<1>23. StreamInv'
  BY DEF IInv, StartPairing, fileVars, pairVars, tryVars, curVars, endVars,
     openVars, pubVars, netVars, StreamInv
<1>24. GrantInv'
  BY DEF IInv, StartPairing, fileVars, pairVars, tryVars, curVars, endVars,
     openVars, pubVars, netVars, GrantInv
<1>25. NoLostWakeup'
  BY DEF IInv, StartPairing, fileVars, pairVars, tryVars, curVars, endVars,
     openVars, pubVars, netVars, NoLostWakeup
<1>26. NoLeakedOuter'
  BY DEF IInv, StartPairing, fileVars, pairVars, tryVars, curVars, endVars,
     openVars, pubVars, netVars, NoLeakedOuter, Live, Stopped
<1>27. PromotionImpliesGrant'
  BY DEF IInv, StartPairing, fileVars, pairVars, tryVars, curVars, endVars,
     openVars, pubVars, netVars, PromotionImpliesGrant
<1> QED BY <1>20, <1>21, <1>22, <1>23, <1>24, <1>25, <1>26, <1>27 DEF IInv

(* The subscriber starts from its contact files.                           *)
LEMMA StartKnownStep ==
  ASSUME IInv, StartKnown
  PROVE  IInv'
<1>1. unconfirmed' \in BOOLEAN
  BY DEF StartKnown, IInv, TypeOK
<1>20. TypeOK'
  BY <1>1 DEF IInv, StartKnown, fileVars, pairVars, tryVars, curVars,
     endVars, openVars, pubVars, netVars, TypeOK, Waiting
<1>21. AttemptInv'
  BY DEF IInv, StartKnown, fileVars, pairVars, tryVars, curVars, endVars,
     openVars, pubVars, netVars, AttemptInv
<1>22. CurrentInv'
  BY DEF IInv, StartKnown, fileVars, pairVars, tryVars, curVars, endVars,
     openVars, pubVars, netVars, CurrentInv
<1>23. StreamInv'
  BY DEF IInv, StartKnown, fileVars, pairVars, tryVars, curVars, endVars,
     openVars, pubVars, netVars, StreamInv
<1>24. GrantInv'
  BY DEF IInv, StartKnown, fileVars, pairVars, tryVars, curVars, endVars,
     openVars, pubVars, netVars, GrantInv
<1>25. NoLostWakeup'
  BY DEF IInv, StartKnown, fileVars, pairVars, tryVars, curVars, endVars,
     openVars, pubVars, netVars, NoLostWakeup
<1>26. NoLeakedOuter'
  BY DEF IInv, StartKnown, fileVars, pairVars, tryVars, curVars, endVars,
     openVars, pubVars, netVars, NoLeakedOuter, Live, Stopped
<1>27. PromotionImpliesGrant'
  BY DEF IInv, StartKnown, fileVars, pairVars, tryVars, curVars, endVars,
     openVars, pubVars, netVars, PromotionImpliesGrant
<1> QED BY <1>20, <1>21, <1>22, <1>23, <1>24, <1>25, <1>26, <1>27 DEF IInv

(* The contact is set by hand.                                             *)
LEMMA ConfigureStep ==
  ASSUME IInv, Configure
  PROVE  IInv'
<1>1. /\ contact' \in BOOLEAN /\ pendingFile' \in BOOLEAN
      /\ byHand' \in BOOLEAN
  BY DEF Configure, IInv, TypeOK
<1>2. UNCHANGED <<up, pairing, accepted, unconfirmed, expired, phase,
                 trying, step, kind, control, loop, cur, invalid, ended,
                 report, op, on, side, wire, invite, request, granted>>
  BY DEF Configure, pairVars, tryVars, curVars, endVars, openVars, pubVars,
         netVars
<1>20. TypeOK'
  BY <1>1, <1>2 DEF IInv, TypeOK
<1>21. AttemptInv'
  BY DEF IInv, Configure, fileVars, pairVars, tryVars, curVars, endVars,
     openVars, pubVars, netVars, AttemptInv
<1>22. CurrentInv'
  BY DEF IInv, Configure, fileVars, pairVars, tryVars, curVars, endVars,
     openVars, pubVars, netVars, CurrentInv
<1>23. StreamInv'
  BY DEF IInv, Configure, fileVars, pairVars, tryVars, curVars, endVars,
     openVars, pubVars, netVars, StreamInv
<1>24. GrantInv'
  BY DEF IInv, Configure, fileVars, pairVars, tryVars, curVars, endVars,
     openVars, pubVars, netVars, GrantInv
<1>25. NoLostWakeup'
  BY DEF IInv, Configure, fileVars, pairVars, tryVars, curVars, endVars,
     openVars, pubVars, netVars, NoLostWakeup
<1>26. NoLeakedOuter'
  BY DEF IInv, Configure, fileVars, pairVars, tryVars, curVars, endVars,
     openVars, pubVars, netVars, NoLeakedOuter, Live, Stopped
<1>27. PromotionImpliesGrant'
  BY DEF IInv, Configure, fileVars, pairVars, tryVars, curVars, endVars,
     openVars, pubVars, netVars, PromotionImpliesGrant
<1> QED BY <1>20, <1>21, <1>22, <1>23, <1>24, <1>25, <1>26, <1>27 DEF IInv

(* The loop of startInBackground is made, unless there is one.             *)
LEMMA StartInBackgroundStep ==
  ASSUME IInv, StartInBackground
  PROVE  IInv'
<1>20. TypeOK'
  BY DEF IInv, StartInBackground, fileVars, pairVars, tryVars, curVars,
     endVars, openVars, pubVars, netVars, TypeOK, Waiting
<1>21. AttemptInv'
  BY DEF IInv, StartInBackground, fileVars, pairVars, tryVars, curVars,
     endVars, openVars, pubVars, netVars, AttemptInv
<1>22. CurrentInv'
  BY DEF IInv, StartInBackground, fileVars, pairVars, tryVars, curVars,
     endVars, openVars, pubVars, netVars, CurrentInv
<1>23. StreamInv'
  BY DEF IInv, StartInBackground, fileVars, pairVars, tryVars, curVars,
     endVars, openVars, pubVars, netVars, StreamInv
<1>24. GrantInv'
  BY DEF IInv, StartInBackground, fileVars, pairVars, tryVars, curVars,
     endVars, openVars, pubVars, netVars, GrantInv
<1>25. NoLostWakeup'
  BY DEF IInv, StartInBackground, fileVars, pairVars, tryVars, curVars,
     endVars, openVars, pubVars, netVars, NoLostWakeup
<1>26. NoLeakedOuter'
  BY DEF IInv, StartInBackground, fileVars, pairVars, tryVars, curVars,
     endVars, openVars, pubVars, netVars, NoLeakedOuter, Live, Stopped
<1>27. PromotionImpliesGrant'
  BY DEF IInv, StartInBackground, fileVars, pairVars, tryVars, curVars,
     endVars, openVars, pubVars, netVars, PromotionImpliesGrant
<1> QED BY <1>20, <1>21, <1>22, <1>23, <1>24, <1>25, <1>26, <1>27 DEF IInv

(* A service open ends.                                                    *)
LEMMA OpenEndsStep ==
  ASSUME IInv, NEW r \in Opens, OpenEnds(r)
  PROVE  IInv'
<1>1. /\ op' \in [Opens -> Waiting \cup {"idle", "done", "closed", "failed"}]
      /\ \A q \in Opens : op'[q] = "joining" => op[q] = "joining"
  BY DEF OpenEnds, IInv, TypeOK
<1>20. TypeOK'
  BY <1>1 DEF IInv, OpenEnds, fileVars, pairVars, tryVars, curVars, endVars,
     openVars, pubVars, netVars, TypeOK, Waiting
<1>21. AttemptInv'
  BY DEF IInv, OpenEnds, fileVars, pairVars, tryVars, curVars, endVars,
     openVars, pubVars, netVars, AttemptInv
<1>22. CurrentInv'
  BY DEF IInv, OpenEnds, fileVars, pairVars, tryVars, curVars, endVars,
     openVars, pubVars, netVars, CurrentInv
<1>23. StreamInv'
  BY DEF IInv, OpenEnds, fileVars, pairVars, tryVars, curVars, endVars,
     openVars, pubVars, netVars, StreamInv
<1>24. GrantInv'
  BY DEF IInv, OpenEnds, fileVars, pairVars, tryVars, curVars, endVars,
     openVars, pubVars, netVars, GrantInv
<1>25. NoLostWakeup'
  BY <1>1 DEF IInv, OpenEnds, fileVars, pairVars, tryVars, curVars, endVars,
     openVars, pubVars, netVars, NoLostWakeup, Waiting
<1>26. NoLeakedOuter'
  BY DEF IInv, OpenEnds, fileVars, pairVars, tryVars, curVars, endVars,
     openVars, pubVars, netVars, NoLeakedOuter, Live, Stopped
<1>27. PromotionImpliesGrant'
  BY DEF IInv, OpenEnds, fileVars, pairVars, tryVars, curVars, endVars,
     openVars, pubVars, netVars, PromotionImpliesGrant
<1> QED BY <1>20, <1>21, <1>22, <1>23, <1>24, <1>25, <1>26, <1>27 DEF IInv

(* A service open takes the connection or joins the loop.                  *)
LEMMA OpenBeginsStep ==
  ASSUME IInv, NEW r \in Opens, OpenBegins(r)
  PROVE  IInv'
<1>1. /\ op' \in [Opens -> Waiting \cup {"idle", "done", "closed", "failed"}]
      /\ on' \in [Opens -> Outers \cup {None}]
      /\ loop' \in {"none", "due", "trying", "sleeping"}
      /\ loop' = loop \/ (loop = "none" /\ loop' = "due" /\ ~Usable)
      /\ \A q \in Opens : op'[q] = "joining" =>
           op[q] = "joining" \/ loop' # "none"
  <2>0. /\ op \in [Opens -> Waiting \cup {"idle", "done", "closed", "failed"}]
        /\ on \in [Opens -> Outers \cup {None}]
        /\ loop \in {"none", "due", "trying", "sleeping"}
        /\ cur \in Outers \cup {None}
    BY DEF IInv, TypeOK
  <2> DEFINE States == Waiting \cup {"idle", "done", "closed", "failed"}
  <2>1. {"failed", "opening", "joining"} \subseteq States
    BY DEF Waiting
  <2>2. op' \in [Opens -> States]
    <3>1. op \in [Opens -> States]
      BY <2>0
    <3>2. \E s \in {"failed", "opening", "joining"} :
            op' = [op EXCEPT ![r] = s]
      BY DEF OpenBegins
    <3> HIDE DEF States
    <3> QED BY <2>1, <3>1, <3>2
  <2>3. on' \in [Opens -> Outers \cup {None}]
    BY <2>0 DEF OpenBegins
  <2>4. /\ loop' \in {"none", "due", "trying", "sleeping"}
        /\ loop' = loop \/ (loop = "none" /\ loop' = "due" /\ ~Usable)
    <3>1. loop' = loop \/ (loop' = Reconnecting /\ ~Usable)
      BY DEF OpenBegins, Usable
    <3> QED BY <2>0, <3>1 DEF Reconnecting, Usable
  <2>5. \A q \in Opens : op'[q] = "joining" =>
          op[q] = "joining" \/ loop' # "none"
    BY <2>0 DEF OpenBegins, Reconnecting
  <2> QED BY <2>2, <2>3, <2>4, <2>5
<1>2. UNCHANGED <<up, fileVars, pairVars, netVars, tryVars, curVars, endVars,
                  pubVars>>
  BY DEF OpenBegins
<1>20. TypeOK'
  BY <1>1 DEF IInv, OpenBegins, fileVars, pairVars, tryVars, curVars,
     endVars, openVars, pubVars, netVars, TypeOK, Waiting
<1>21. AttemptInv'
  BY <1>1 DEF IInv, OpenBegins, fileVars, pairVars, tryVars, curVars,
     endVars, openVars, pubVars, netVars, AttemptInv
<1>22. CurrentInv'
  BY <1>1 DEF IInv, OpenBegins, fileVars, pairVars, tryVars, curVars,
     endVars, openVars, pubVars, netVars, CurrentInv, Usable
<1>23. StreamInv'
  BY <1>1 DEF IInv, OpenBegins, fileVars, pairVars, tryVars, curVars,
     endVars, openVars, pubVars, netVars, StreamInv
<1>24. GrantInv'
  BY <1>1 DEF IInv, OpenBegins, fileVars, pairVars, tryVars, curVars,
     endVars, openVars, pubVars, netVars, GrantInv
<1>25. NoLostWakeup'
  BY <1>1 DEF IInv, OpenBegins, fileVars, pairVars, tryVars, curVars,
     endVars, openVars, pubVars, netVars, NoLostWakeup
<1>26. NoLeakedOuter'
  BY <1>1 DEF IInv, OpenBegins, fileVars, pairVars, tryVars, curVars,
     endVars, openVars, pubVars, netVars, NoLeakedOuter, Live, Stopped
<1>27. PromotionImpliesGrant'
  BY <1>1 DEF IInv, OpenBegins, fileVars, pairVars, tryVars, curVars,
     endVars, openVars, pubVars, netVars, PromotionImpliesGrant
<1> QED BY <1>20, <1>21, <1>22, <1>23, <1>24, <1>25, <1>26, <1>27 DEF IInv

(* The publisher shows another invitation.                                 *)
LEMMA ShowInvitationStep ==
  ASSUME IInv, ShowInvitation
  PROVE  IInv'
<1>20. TypeOK'
  BY DEF IInv, ShowInvitation, fileVars, pairVars, tryVars, curVars,
     endVars, openVars, pubVars, netVars, TypeOK, Waiting
<1>21. AttemptInv'
  BY DEF IInv, ShowInvitation, fileVars, pairVars, tryVars, curVars,
     endVars, openVars, pubVars, netVars, AttemptInv
<1>22. CurrentInv'
  BY DEF IInv, ShowInvitation, fileVars, pairVars, tryVars, curVars,
     endVars, openVars, pubVars, netVars, CurrentInv
<1>23. StreamInv'
  BY DEF IInv, ShowInvitation, fileVars, pairVars, tryVars, curVars,
     endVars, openVars, pubVars, netVars, StreamInv
<1>24. GrantInv'
  BY DEF IInv, ShowInvitation, fileVars, pairVars, tryVars, curVars,
     endVars, openVars, pubVars, netVars, GrantInv
<1>25. NoLostWakeup'
  BY DEF IInv, ShowInvitation, fileVars, pairVars, tryVars, curVars,
     endVars, openVars, pubVars, netVars, NoLostWakeup
<1>26. NoLeakedOuter'
  BY DEF IInv, ShowInvitation, fileVars, pairVars, tryVars, curVars,
     endVars, openVars, pubVars, netVars, NoLeakedOuter, Live, Stopped
<1>27. PromotionImpliesGrant'
  BY DEF IInv, ShowInvitation, fileVars, pairVars, tryVars, curVars,
     endVars, openVars, pubVars, netVars, PromotionImpliesGrant
<1> QED BY <1>20, <1>21, <1>22, <1>23, <1>24, <1>25, <1>26, <1>27 DEF IInv

(* The invitation ends at the publisher.                                   *)
LEMMA InvitationEndsStep ==
  ASSUME IInv, InvitationEnds
  PROVE  IInv'
<1>20. TypeOK'
  BY DEF IInv, InvitationEnds, fileVars, pairVars, tryVars, curVars,
     endVars, openVars, pubVars, netVars, TypeOK, Waiting
<1>21. AttemptInv'
  BY DEF IInv, InvitationEnds, fileVars, pairVars, tryVars, curVars,
     endVars, openVars, pubVars, netVars, AttemptInv
<1>22. CurrentInv'
  BY DEF IInv, InvitationEnds, fileVars, pairVars, tryVars, curVars,
     endVars, openVars, pubVars, netVars, CurrentInv
<1>23. StreamInv'
  BY DEF IInv, InvitationEnds, fileVars, pairVars, tryVars, curVars,
     endVars, openVars, pubVars, netVars, StreamInv
<1>24. GrantInv'
  BY DEF IInv, InvitationEnds, fileVars, pairVars, tryVars, curVars,
     endVars, openVars, pubVars, netVars, GrantInv
<1>25. NoLostWakeup'
  BY DEF IInv, InvitationEnds, fileVars, pairVars, tryVars, curVars,
     endVars, openVars, pubVars, netVars, NoLostWakeup
<1>26. NoLeakedOuter'
  BY DEF IInv, InvitationEnds, fileVars, pairVars, tryVars, curVars,
     endVars, openVars, pubVars, netVars, NoLeakedOuter, Live, Stopped
<1>27. PromotionImpliesGrant'
  BY DEF IInv, InvitationEnds, fileVars, pairVars, tryVars, curVars,
     endVars, openVars, pubVars, netVars, PromotionImpliesGrant
<1> QED BY <1>20, <1>21, <1>22, <1>23, <1>24, <1>25, <1>26, <1>27 DEF IInv

(* The invitation expires at the subscriber.                               *)
LEMMA InvitationExpiresStep ==
  ASSUME IInv, InvitationExpires
  PROVE  IInv'
<1>20. TypeOK'
  BY DEF IInv, InvitationExpires, fileVars, pairVars, tryVars, curVars,
     endVars, openVars, pubVars, netVars, TypeOK, Waiting
<1>21. AttemptInv'
  BY DEF IInv, InvitationExpires, fileVars, pairVars, tryVars, curVars,
     endVars, openVars, pubVars, netVars, AttemptInv
<1>22. CurrentInv'
  BY DEF IInv, InvitationExpires, fileVars, pairVars, tryVars, curVars,
     endVars, openVars, pubVars, netVars, CurrentInv
<1>23. StreamInv'
  BY DEF IInv, InvitationExpires, fileVars, pairVars, tryVars, curVars,
     endVars, openVars, pubVars, netVars, StreamInv
<1>24. GrantInv'
  BY DEF IInv, InvitationExpires, fileVars, pairVars, tryVars, curVars,
     endVars, openVars, pubVars, netVars, GrantInv
<1>25. NoLostWakeup'
  BY DEF IInv, InvitationExpires, fileVars, pairVars, tryVars, curVars,
     endVars, openVars, pubVars, netVars, NoLostWakeup
<1>26. NoLeakedOuter'
  BY DEF IInv, InvitationExpires, fileVars, pairVars, tryVars, curVars,
     endVars, openVars, pubVars, netVars, NoLeakedOuter, Live, Stopped
<1>27. PromotionImpliesGrant'
  BY DEF IInv, InvitationExpires, fileVars, pairVars, tryVars, curVars,
     endVars, openVars, pubVars, netVars, PromotionImpliesGrant
<1> QED BY <1>20, <1>21, <1>22, <1>23, <1>24, <1>25, <1>26, <1>27 DEF IInv

(* Stop destroys the streams it knows.                                     *)
LEMMA StopStep ==
  ASSUME IInv, Stop
  PROVE  IInv'
<1>1. /\ phase' \in [Outers -> {"free", "connecting", "open", "dying"}]
      /\ \A o \in Outers :
           /\ ~(o \in {trying, cur} /\ Live(o)) => phase'[o] = phase[o]
           /\ o \in {trying, cur} /\ Live(o) => phase'[o] = "dying"
  BY KilledIs DEF IInv, Stop, ReleasesAll
<1>3. up' = "stopping" /\ cur' = None /\ invalid' \in BOOLEAN
  BY DEF Stop
<1>2. UNCHANGED <<contact, pendingFile, byHand, pairing, accepted,
                 unconfirmed, expired, trying, step, kind, control, loop,
                 ended, report, op, on, side, wire, invite, request,
                 granted>>
  BY DEF Stop, fileVars, pairVars, tryVars, endVars, openVars, pubVars
<1>20. TypeOK'
  BY <1>1, <1>2, <1>3 DEF IInv, TypeOK
<1>21. AttemptInv'
  BY <1>1 DEF IInv, Stop, fileVars, pairVars, tryVars, curVars, endVars,
     openVars, pubVars, netVars, AttemptInv, TypeOK
<1>22. CurrentInv'
  BY <1>1 DEF IInv, Stop, fileVars, pairVars, tryVars, curVars, endVars,
     openVars, pubVars, netVars, CurrentInv
<1>23. StreamInv'
  BY <1>1 DEF IInv, Stop, fileVars, pairVars, tryVars, curVars, endVars,
     openVars, pubVars, netVars, StreamInv
<1>24. GrantInv'
  BY DEF IInv, Stop, fileVars, pairVars, tryVars, curVars, endVars,
     openVars, pubVars, netVars, GrantInv
<1>25. NoLostWakeup'
  BY DEF IInv, Stop, fileVars, pairVars, tryVars, curVars, endVars,
     openVars, pubVars, netVars, NoLostWakeup
<1>26. NoLeakedOuter'
  BY <1>1 DEF IInv, Stop, fileVars, pairVars, tryVars, curVars, endVars,
     openVars, pubVars, netVars, NoLeakedOuter, Live, Stopped
<1>27. PromotionImpliesGrant'
  BY DEF IInv, Stop, fileVars, pairVars, tryVars, curVars, endVars,
     openVars, pubVars, netVars, PromotionImpliesGrant
<1> QED BY <1>20, <1>21, <1>22, <1>23, <1>24, <1>25, <1>26, <1>27 DEF IInv

(* A stream ends.                                                          *)
LEMMA OuterDiesStep ==
  ASSUME IInv, NEW o \in Outers, OuterDies(o)
  PROVE  IInv'
<1>1. /\ phase' \in [Outers -> {"free", "connecting", "open", "dying"}]
      /\ \A p \in Outers :
           /\ ~(p \in {o} /\ Live(p)) => phase'[p] = phase[p]
           /\ p \in {o} /\ Live(p) => phase'[p] = "dying"
  BY KilledIs DEF IInv, OuterDies
<1>2. UNCHANGED <<up, contact, pendingFile, byHand, pairing, accepted,
                 unconfirmed, expired, trying, step, kind, control, loop,
                 cur, invalid, ended, report, op, on, side, wire, invite,
                 request, granted>>
  BY DEF OuterDies, fileVars, pairVars, tryVars, curVars, endVars, openVars,
         pubVars
<1>20. TypeOK'
  BY <1>1, <1>2 DEF IInv, TypeOK
<1>21. AttemptInv'
  BY <1>1 DEF IInv, OuterDies, fileVars, pairVars, tryVars, curVars,
     endVars, openVars, pubVars, netVars, AttemptInv, TypeOK
<1>22. CurrentInv'
  BY <1>1 DEF IInv, OuterDies, fileVars, pairVars, tryVars, curVars,
     endVars, openVars, pubVars, netVars, CurrentInv, Live, TypeOK
<1>23. StreamInv'
  BY <1>1 DEF IInv, OuterDies, fileVars, pairVars, tryVars, curVars,
     endVars, openVars, pubVars, netVars, StreamInv, Live
<1>24. GrantInv'
  BY DEF IInv, OuterDies, fileVars, pairVars, tryVars, curVars, endVars,
     openVars, pubVars, netVars, GrantInv
<1>25. NoLostWakeup'
  BY DEF IInv, OuterDies, fileVars, pairVars, tryVars, curVars, endVars,
     openVars, pubVars, netVars, NoLostWakeup
<1>26. NoLeakedOuter'
  BY <1>1 DEF IInv, OuterDies, fileVars, pairVars, tryVars, curVars,
     endVars, openVars, pubVars, netVars, NoLeakedOuter, Live, Stopped
<1>27. PromotionImpliesGrant'
  BY DEF IInv, OuterDies, fileVars, pairVars, tryVars, curVars, endVars,
     openVars, pubVars, netVars, PromotionImpliesGrant
<1> QED BY <1>20, <1>21, <1>22, <1>23, <1>24, <1>25, <1>26, <1>27 DEF IInv

(* The connection in use is given up.                                      *)
LEMMA UnhealthyStep ==
  ASSUME IInv, Unhealthy
  PROVE  IInv'
<1>1. /\ phase' \in [Outers -> {"free", "connecting", "open", "dying"}]
      /\ \A p \in Outers :
           /\ ~(p \in {cur} /\ Live(p)) => phase'[p] = phase[p]
           /\ p \in {cur} /\ Live(p) => phase'[p] = "dying"
  BY KilledIs DEF IInv, Unhealthy
<1>2. UNCHANGED <<up, contact, pendingFile, byHand, pairing, accepted,
                 unconfirmed, expired, trying, step, kind, control, loop,
                 cur, ended, report, op, on, side, wire, invite, request,
                 granted>>
  BY DEF Unhealthy, fileVars, pairVars, tryVars, endVars, openVars, pubVars
<1>3. invalid' = TRUE
  BY DEF Unhealthy
<1>20. TypeOK'
  BY <1>1, <1>2, <1>3 DEF IInv, TypeOK
<1>21. AttemptInv'
  BY <1>1 DEF IInv, Unhealthy, fileVars, pairVars, tryVars, curVars,
     endVars, openVars, pubVars, netVars, AttemptInv, TypeOK
<1>22. CurrentInv'
  BY <1>1 DEF IInv, Unhealthy, fileVars, pairVars, tryVars, curVars,
     endVars, openVars, pubVars, netVars, CurrentInv, Live, TypeOK
<1>23. StreamInv'
  BY <1>1 DEF IInv, Unhealthy, fileVars, pairVars, tryVars, curVars,
     endVars, openVars, pubVars, netVars, StreamInv, Live
<1>24. GrantInv'
  BY DEF IInv, Unhealthy, fileVars, pairVars, tryVars, curVars, endVars,
     openVars, pubVars, netVars, GrantInv
<1>25. NoLostWakeup'
  BY DEF IInv, Unhealthy, fileVars, pairVars, tryVars, curVars, endVars,
     openVars, pubVars, netVars, NoLostWakeup
<1>26. NoLeakedOuter'
  BY <1>1 DEF IInv, Unhealthy, fileVars, pairVars, tryVars, curVars,
     endVars, openVars, pubVars, netVars, NoLeakedOuter, Live, Stopped
<1>27. PromotionImpliesGrant'
  BY DEF IInv, Unhealthy, fileVars, pairVars, tryVars, curVars, endVars,
     openVars, pubVars, netVars, PromotionImpliesGrant
<1> QED BY <1>20, <1>21, <1>22, <1>23, <1>24, <1>25, <1>26, <1>27 DEF IInv

(* What a process that ends leaves: the files.                             *)
LEMMA ForgetRunStep ==
  ASSUME IInv, ForgetRun, up' = "down",
         UNCHANGED <<fileVars, expired, invite, granted>>
  PROVE  IInv'
<1>1. /\ phase' = [p \in Outers |-> "free"]
      /\ side' = [p \in Outers |-> "none"]
      /\ wire' = [p \in Outers |-> <<>>] /\ request' \in {None, Gone}
      /\ pairing' = FALSE /\ accepted' = FALSE /\ unconfirmed' = FALSE
      /\ trying' = None /\ step' = "none" /\ kind' = "plain"
      /\ control' = "none" /\ loop' = "none" /\ cur' = None
      /\ invalid' = FALSE /\ ended' = "no" /\ report' = "none"
      /\ op' = [r \in Opens |-> "idle"] /\ on' = [r \in Opens |-> None]
      /\ up' = "down"
      /\ UNCHANGED <<contact, pendingFile, byHand, expired, invite, granted>>
  BY DEF ForgetRun, fileVars
<1>2. /\ <<>> \in Seq(Responses) /\ <<>> \in Seq(Responses \ {"approved"})
      /\ Len(<<>>) = 0
  BY EmptySeq
<1>3. TypeOK'
  <2>1. /\ \A r \in {contact, pendingFile, byHand, expired, granted} :
              r \in BOOLEAN
        /\ invite \in {"none", "other", "ours"}
    BY DEF IInv, TypeOK
  <2>2. /\ wire' \in [Outers -> Seq(Responses)]
        /\ \A o \in Outers : Len(wire'[o]) <= 2
    BY <1>1, <1>2
  <2> QED BY <1>1, <2>1, <2>2 DEF TypeOK
<1>4. AttemptInv' /\ CurrentInv' /\ NoLostWakeup'
  BY <1>1 DEF AttemptInv, CurrentInv, NoLostWakeup
<1>5. StreamInv'
  BY <1>1, <1>2, SubscriberAssumption DEF StreamInv
<1>6. GrantInv' /\ PromotionImpliesGrant'
  BY <1>1, <1>2 DEF IInv, GrantInv, PromotionImpliesGrant
<1>7. NoLeakedOuter'
  BY <1>1 DEF NoLeakedOuter, Live
<1> QED BY <1>3, <1>4, <1>5, <1>6, <1>7 DEF IInv

(* Stop is done.                                                           *)
LEMMA StopDoneStep ==
  ASSUME IInv, StopDone
  PROVE  IInv'
<1> QED BY ForgetRunStep DEF StopDone

(* The process ends.                                                       *)
LEMMA CrashStep ==
  ASSUME IInv, Crash
  PROVE  IInv'
<1> QED BY ForgetRunStep DEF Crash

(* The control channel opens, or not.                                      *)
LEMMA ControlSettlesStep ==
  ASSUME IInv, NEW result \in {"ready", "legacy", "failed"},
         ControlSettles(result)
  PROVE  IInv'
<1>20. TypeOK'
  BY DEF IInv, ControlSettles, fileVars, pairVars, tryVars, curVars,
     endVars, openVars, pubVars, netVars, TypeOK, Waiting
<1>21. AttemptInv'
  BY DEF IInv, ControlSettles, fileVars, pairVars, tryVars, curVars,
     endVars, openVars, pubVars, netVars, AttemptInv
<1>22. CurrentInv'
  BY DEF IInv, ControlSettles, fileVars, pairVars, tryVars, curVars,
     endVars, openVars, pubVars, netVars, CurrentInv
<1>23. StreamInv'
  BY DEF IInv, ControlSettles, fileVars, pairVars, tryVars, curVars,
     endVars, openVars, pubVars, netVars, StreamInv
<1>24. GrantInv'
  BY DEF IInv, ControlSettles, fileVars, pairVars, tryVars, curVars,
     endVars, openVars, pubVars, netVars, GrantInv, TypeOK, AttemptInv
<1>25. NoLostWakeup'
  BY DEF IInv, ControlSettles, fileVars, pairVars, tryVars, curVars,
     endVars, openVars, pubVars, netVars, NoLostWakeup
<1>26. NoLeakedOuter'
  BY DEF IInv, ControlSettles, fileVars, pairVars, tryVars, curVars,
     endVars, openVars, pubVars, netVars, NoLeakedOuter, Live, Stopped
<1>27. PromotionImpliesGrant'
  BY DEF IInv, ControlSettles, fileVars, pairVars, tryVars, curVars,
     endVars, openVars, pubVars, netVars, PromotionImpliesGrant
<1> QED BY <1>20, <1>21, <1>22, <1>23, <1>24, <1>25, <1>26, <1>27 DEF IInv

(* The rename after an approval returns.                                   *)
LEMMA PromoteDoneStep ==
  ASSUME IInv, PromoteDone
  PROVE  IInv'
<1>1. UNCHANGED <<up, byHand, accepted, unconfirmed, expired, phase, trying,
                 kind, control, loop, cur, invalid, ended, report, op, on,
                 side, wire, invite, request, granted>>
  BY DEF PromoteDone, curVars, endVars, openVars, pubVars, netVars
<1>2. /\ contact' \in BOOLEAN /\ pendingFile' \in BOOLEAN
      /\ pairing' \in BOOLEAN /\ step' = "control"
  BY DEF PromoteDone, Renamed
<1>20. TypeOK'
  BY <1>1, <1>2 DEF IInv, TypeOK
<1>21. AttemptInv'
  BY DEF IInv, PromoteDone, fileVars, pairVars, tryVars, curVars, endVars,
     openVars, pubVars, netVars, Renamed, AttemptInv
<1>22. CurrentInv'
  BY DEF IInv, PromoteDone, fileVars, pairVars, tryVars, curVars, endVars,
     openVars, pubVars, netVars, Renamed, CurrentInv
<1>23. StreamInv'
  BY DEF IInv, PromoteDone, fileVars, pairVars, tryVars, curVars, endVars,
     openVars, pubVars, netVars, Renamed, StreamInv
<1>24. GrantInv'
  BY DEF IInv, PromoteDone, fileVars, pairVars, tryVars, curVars, endVars,
     openVars, pubVars, netVars, Renamed, GrantInv
<1>25. NoLostWakeup'
  BY DEF IInv, PromoteDone, fileVars, pairVars, tryVars, curVars, endVars,
     openVars, pubVars, netVars, Renamed, NoLostWakeup
<1>26. NoLeakedOuter'
  BY DEF IInv, PromoteDone, fileVars, pairVars, tryVars, curVars, endVars,
     openVars, pubVars, netVars, Renamed, NoLeakedOuter, Live, Stopped
<1>27. PromotionImpliesGrant'
  BY DEF IInv, PromoteDone, fileVars, pairVars, tryVars, curVars, endVars,
     openVars, pubVars, netVars, Renamed, PromotionImpliesGrant, GrantInv
<1> QED BY <1>20, <1>21, <1>22, <1>23, <1>24, <1>25, <1>26, <1>27 DEF IInv

(* The publisher lets the stream in.                                       *)
LEMMA OuterConnectsStep ==
  ASSUME IInv, OuterConnects
  PROVE  IInv'
<1>1. /\ phase' \in [Outers -> {"free", "connecting", "open", "dying"}]
      /\ phase'[trying] = "open" /\ trying \in Outers
      /\ \A p \in Outers \ {trying} : phase'[p] = phase[p]
      /\ side' \in [Outers ->
                      {"none", "stranger", "asked", "known", "approved"}]
      /\ side'[trying] = IF granted THEN "known" ELSE "stranger"
      /\ \A p \in Outers \ {trying} : side'[p] = side[p]
  BY DEF IInv, TypeOK, AttemptInv, OuterConnects
<1>2. side[trying] = "none" /\ wire[trying] = <<>> /\ request # trying
  BY <1>1 DEF IInv, TypeOK, StreamInv, OuterConnects
<1>20. TypeOK'
  BY <1>1, <1>2 DEF IInv, OuterConnects, fileVars, pairVars, tryVars,
     curVars, endVars, openVars, pubVars, netVars, KindNow, TypeOK, Waiting
<1>21. AttemptInv'
  BY <1>1, <1>2 DEF IInv, OuterConnects, fileVars, pairVars, tryVars,
     curVars, endVars, openVars, pubVars, netVars, KindNow, AttemptInv
<1>22. CurrentInv'
  BY <1>1, <1>2 DEF IInv, OuterConnects, fileVars, pairVars, tryVars,
     curVars, endVars, openVars, pubVars, netVars, KindNow, CurrentInv
<1>23. StreamInv'
  BY <1>1, <1>2 DEF IInv, OuterConnects, fileVars, pairVars, tryVars,
     curVars, endVars, openVars, pubVars, netVars, KindNow, StreamInv
<1>24. GrantInv'
  BY <1>1, <1>2 DEF IInv, OuterConnects, fileVars, pairVars, tryVars,
     curVars, endVars, openVars, pubVars, netVars, KindNow, GrantInv
<1>25. NoLostWakeup'
  BY DEF IInv, OuterConnects, fileVars, pairVars, tryVars, curVars, endVars,
     openVars, pubVars, netVars, KindNow, NoLostWakeup
<1>26. NoLeakedOuter'
  BY <1>1, <1>2 DEF IInv, OuterConnects, fileVars, pairVars, tryVars,
     curVars, endVars, openVars, pubVars, netVars, KindNow, NoLeakedOuter,
     Live, Stopped
<1>27. PromotionImpliesGrant'
  BY DEF IInv, OuterConnects, fileVars, pairVars, tryVars, curVars, endVars,
     openVars, pubVars, netVars, KindNow, PromotionImpliesGrant
<1> QED BY <1>20, <1>21, <1>22, <1>23, <1>24, <1>25, <1>26, <1>27 DEF IInv

(* The publisher has the request.                                          *)
LEMMA PairPendingStep ==
  ASSUME IInv, PairPending
  PROVE  IInv'
<1>2. UNCHANGED <<up, contact, pendingFile, byHand, pairing, unconfirmed,
                 expired, phase, side, trying, step, kind, control, loop,
                 cur, invalid, ended, report, op, on, invite, request,
                 granted>>
  BY DEF PairPending, fileVars, pairVars, tryVars, curVars, endVars, openVars,
         pubVars
<1>3. /\ wire' \in [Outers -> Seq(Responses)]
      /\ \A o \in Outers : wire'[o] = wire[o] \/ o = trying
      /\ wire'[trying] = Tail(wire[trying]) /\ wire[trying] # <<>>
      /\ trying \in Outers
  <2>1. trying \in Outers
    BY DEF PairPending, IInv, TypeOK, AttemptInv
  <2>2. wire[trying] # <<>> /\ wire[trying] \in Seq(Responses)
    BY <2>1 DEF PairPending, IInv, TypeOK
  <2>3. Tail(wire[trying]) \in Seq(Responses)
    BY <2>2, TailIs
  <2> QED BY <2>1, <2>2, <2>3 DEF PairPending, IInv, TypeOK
<1>8. \A o \in Outers : /\ Len(wire[o]) \in Nat /\ Len(wire'[o]) \in Nat
                        /\ Len(wire'[o]) <= Len(wire[o])
  <2>1. wire[trying] \in Seq(Responses) /\ wire \in [Outers -> Seq(Responses)]
    BY <1>3 DEF IInv, TypeOK
  <2>2. \A o \in Outers : Len(wire[o]) \in Nat /\ Len(wire'[o]) \in Nat
    BY <1>3, <2>1, LenProperties
  <2>3. Len(wire'[trying]) = Len(wire[trying]) - 1
    BY <1>3, <2>1, TailIs
  <2> QED BY <1>3, <2>2, <2>3
<1>4. accepted' \in BOOLEAN /\ step' \in {step, "promote"} /\ step # "none"
  BY <1>2 DEF PairPending, IInv, TypeOK
<1>20. TypeOK'
  <2>1. \A o \in Outers : Len(wire'[o]) <= 2
    BY <1>8 DEF IInv, TypeOK
  <2> QED BY <1>4, <1>2, <1>3, <2>1 DEF IInv, TypeOK
<1>21. AttemptInv' /\ CurrentInv'
  BY <1>2, <1>4 DEF IInv, AttemptInv, CurrentInv, PairPending
<1>22. StreamInv'
  <2>1. ASSUME NEW o \in Outers
        PROVE  /\ side'[o] # "none" => phase'[o] \in {"open", "dying"}
               /\ side'[o] \in {"none", "stranger", "known"} =>
                    wire'[o] = <<>>
               /\ request' = o => side'[o] = "asked" /\ Len(wire'[o]) <= 1
    <3>1. request' = o => side'[o] = "asked" /\ Len(wire'[o]) <= 1
      <4>1. request = o => side[o] = "asked" /\ Len(wire[o]) <= 1
        BY DEF IInv, StreamInv
      <4> QED BY <1>2, <1>8, <4>1
    <3> QED BY <1>2, <1>3, <3>1 DEF IInv, StreamInv
  <2> QED BY <2>1 DEF StreamInv
<1>23. GrantInv'
  <2>1. granted \/ wire'[trying] \in Seq(Responses \ {"approved"})
    <3>1. granted \/ wire[trying] \in Seq(Responses \ {"approved"})
      BY <1>3 DEF IInv, GrantInv
    <3> QED BY <1>3, <3>1, TailIs
  <2> QED BY <1>4, <1>2, <1>3, <2>1 DEF IInv, GrantInv
<1>24. NoLostWakeup' /\ NoLeakedOuter' /\ PromotionImpliesGrant'
  BY <1>2
     DEF IInv, NoLostWakeup, NoLeakedOuter, PromotionImpliesGrant, Live,
         Stopped
<1> QED BY <1>20, <1>21, <1>22, <1>23, <1>24 DEF IInv

(* The publisher approves.                                                 *)
LEMMA PairApprovedStep ==
  ASSUME IInv, PairApproved
  PROVE  IInv'
<1>2. UNCHANGED <<up, contact, pendingFile, byHand, pairing, accepted,
                 unconfirmed, expired, phase, side, trying, kind, control,
                 loop, cur, invalid, ended, report, op, on, invite, request,
                 granted>>
  BY DEF PairApproved, fileVars, pairVars, tryVars, curVars, endVars, openVars,
         pubVars
<1>3. /\ wire' \in [Outers -> Seq(Responses)]
      /\ \A o \in Outers : wire'[o] = wire[o] \/ o = trying
      /\ wire'[trying] = Tail(wire[trying]) /\ wire[trying] # <<>>
      /\ trying \in Outers
  <2>1. trying \in Outers
    BY DEF PairApproved, IInv, TypeOK, AttemptInv
  <2>2. wire[trying] # <<>> /\ wire[trying] \in Seq(Responses)
    BY <2>1 DEF PairApproved, IInv, TypeOK
  <2>3. Tail(wire[trying]) \in Seq(Responses)
    BY <2>2, TailIs
  <2> QED BY <2>1, <2>2, <2>3 DEF PairApproved, IInv, TypeOK
<1>8. \A o \in Outers : /\ Len(wire[o]) \in Nat /\ Len(wire'[o]) \in Nat
                        /\ Len(wire'[o]) <= Len(wire[o])
  <2>1. wire[trying] \in Seq(Responses) /\ wire \in [Outers -> Seq(Responses)]
    BY <1>3 DEF IInv, TypeOK
  <2>2. \A o \in Outers : Len(wire[o]) \in Nat /\ Len(wire'[o]) \in Nat
    BY <1>3, <2>1, LenProperties
  <2>3. Len(wire'[trying]) = Len(wire[trying]) - 1
    BY <1>3, <2>1, TailIs
  <2> QED BY <1>3, <2>2, <2>3
<1>4. accepted' \in BOOLEAN /\ step' \in {step, "promote"} /\ step # "none"
  BY <1>2 DEF PairApproved, IInv, TypeOK
<1>20. TypeOK'
  <2>1. \A o \in Outers : Len(wire'[o]) <= 2
    BY <1>8 DEF IInv, TypeOK
  <2> QED BY <1>4, <1>2, <1>3, <2>1 DEF IInv, TypeOK
<1>21. AttemptInv' /\ CurrentInv'
  BY <1>2, <1>4 DEF IInv, AttemptInv, CurrentInv, PairApproved
<1>22. StreamInv'
  <2>1. ASSUME NEW o \in Outers
        PROVE  /\ side'[o] # "none" => phase'[o] \in {"open", "dying"}
               /\ side'[o] \in {"none", "stranger", "known"} =>
                    wire'[o] = <<>>
               /\ request' = o => side'[o] = "asked" /\ Len(wire'[o]) <= 1
    <3>1. request' = o => side'[o] = "asked" /\ Len(wire'[o]) <= 1
      <4>1. request = o => side[o] = "asked" /\ Len(wire[o]) <= 1
        BY DEF IInv, StreamInv
      <4> QED BY <1>2, <1>8, <4>1
    <3> QED BY <1>2, <1>3, <3>1 DEF IInv, StreamInv
  <2> QED BY <2>1 DEF StreamInv
<1>23. GrantInv'
  <2>3. granted
    <3>1. granted \/ wire[trying] \in Seq(Responses \ {"approved"})
      BY <1>3 DEF IInv, GrantInv
    <3> QED BY <1>3, <3>1, TailIs DEF PairApproved
  <2> QED BY <1>2, <2>3 DEF GrantInv
<1>24. NoLostWakeup' /\ NoLeakedOuter' /\ PromotionImpliesGrant'
  BY <1>2
     DEF IInv, NoLostWakeup, NoLeakedOuter, PromotionImpliesGrant, Live,
         Stopped
<1> QED BY <1>20, <1>21, <1>22, <1>23, <1>24 DEF IInv

-----------------------------------------------------------------------------
(* A stream that closes, and what the publisher says over one.             *)

(* A closed stream is known to nobody.                                     *)
LEMMA FreedEffect ==
  ASSUME IInv, NEW o \in Outers, Freed(o),
         phase' = [phase EXCEPT ![o] = "free"], granted' = granted
  PROVE  /\ phase' \in [Outers -> {"free", "connecting", "open", "dying"}]
         /\ phase'[o] = "free"
         /\ \A p \in Outers \ {o} : phase'[p] = phase[p]
         /\ side' \in [Outers ->
                         {"none", "stranger", "asked", "known", "approved"}]
         /\ wire' \in [Outers -> Seq(Responses)]
         /\ \A p \in Outers : Len(wire'[p]) <= 2
         /\ request' \in Outers \cup {None, Gone}
         /\ StreamInv'
         /\ granted' \/ \A p \in Outers :
                          /\ wire'[p] \in Seq(Responses \ {"approved"})
                          /\ side'[p] \notin {"known", "approved"}
<1>1. /\ <<>> \in Seq(Responses) /\ <<>> \in Seq(Responses \ {"approved"})
      /\ Len(<<>>) = 0
  BY EmptySeq
<1>2. /\ phase' \in [Outers -> {"free", "connecting", "open", "dying"}]
      /\ phase'[o] = "free"
      /\ \A p \in Outers \ {o} : phase'[p] = phase[p]
  BY DEF IInv, TypeOK
<1>3. /\ side' \in [Outers ->
                      {"none", "stranger", "asked", "known", "approved"}]
      /\ side'[o] = "none"
      /\ \A p \in Outers \ {o} : side'[p] = side[p]
  BY DEF IInv, TypeOK, Freed
<1>4. /\ wire' \in [Outers -> Seq(Responses)]
      /\ wire'[o] = <<>>
      /\ \A p \in Outers \ {o} : wire'[p] = wire[p]
  BY <1>1 DEF IInv, TypeOK, Freed
<1>5. \A p \in Outers : Len(wire'[p]) <= 2
  BY <1>1, <1>4 DEF IInv, TypeOK
<1>6. /\ request' \in Outers \cup {None, Gone} /\ request' # o
      /\ request' = request \/ request' = Gone
  BY SubscriberAssumption DEF IInv, TypeOK, Freed
<1>7. StreamInv'
  <2>1. ASSUME NEW p \in Outers
        PROVE  /\ side'[p] # "none" => phase'[p] \in {"open", "dying"}
               /\ side'[p] \in {"none", "stranger", "known"} =>
                    wire'[p] = <<>>
    BY <1>2, <1>3, <1>4 DEF IInv, StreamInv
  <2>2. ASSUME NEW p \in Outers, request' = p
        PROVE  side'[p] = "asked" /\ Len(wire'[p]) <= 1
    <3>1. p # o /\ request = p
      BY <1>6, <2>2, SubscriberAssumption
    <3> QED BY <1>3, <1>4, <3>1 DEF IInv, StreamInv
  <2> QED BY <2>1, <2>2 DEF StreamInv
<1>8. granted' \/ \A p \in Outers :
                    /\ wire'[p] \in Seq(Responses \ {"approved"})
                    /\ side'[p] \notin {"known", "approved"}
  BY <1>1, <1>3, <1>4 DEF IInv, GrantInv
<1> QED BY <1>2, <1>3, <1>4, <1>5, <1>6, <1>7, <1>8

(* A stream closes; the one in use is given up, and another is sought.     *)
LEMMA OuterClosesStep ==
  ASSUME IInv, NEW o \in Outers, OuterCloses(o)
  PROVE  IInv'
<1>1. /\ phase' \in [Outers -> {"free", "connecting", "open", "dying"}]
      /\ phase'[o] = "free"
      /\ \A p \in Outers \ {o} : phase'[p] = phase[p]
      /\ side' \in [Outers ->
                      {"none", "stranger", "asked", "known", "approved"}]
      /\ wire' \in [Outers -> Seq(Responses)]
      /\ \A p \in Outers : Len(wire'[p]) <= 2
      /\ request' \in Outers \cup {None, Gone}
      /\ StreamInv'
      /\ granted' \/ \A p \in Outers :
                       /\ wire'[p] \in Seq(Responses \ {"approved"})
                       /\ side'[p] \notin {"known", "approved"}
  BY FreedEffect DEF OuterCloses
<1>2. UNCHANGED <<up, contact, pendingFile, byHand, pairing, accepted,
                 unconfirmed, expired, trying, step, kind, ended, report,
                 on, invite, granted>>
  BY DEF OuterCloses, fileVars, pairVars, endVars
<1>3. /\ op' \in [Opens -> Waiting \cup {"idle", "done", "closed", "failed"}]
      /\ \A r \in Opens : op'[r] = "joining" => op[r] = "joining"
  <2>1. op' = TunnelsEnd(o)
    BY DEF OuterCloses
  <2>2. op \in [Opens -> Waiting \cup {"idle", "done", "closed", "failed"}]
    BY DEF IInv, TypeOK
  <2> QED BY <2>1, <2>2 DEF TunnelsEnd, Waiting
<1>4. control' = control \/ control' = "failed"
  BY DEF OuterCloses
<1>5. /\ \/ /\ o = cur /\ cur' = None /\ invalid' = FALSE
            /\ loop' = IF Stopped THEN loop ELSE Reconnecting
         \/ o # cur /\ UNCHANGED <<cur, invalid, loop>>
      /\ phase[o] = "dying"
  BY DEF OuterCloses, curVars
<1>6. cur' \in Outers \cup {None} /\ invalid' \in BOOLEAN
  BY <1>5 DEF IInv, TypeOK
<1>7. /\ loop' \in {"none", "due", "trying", "sleeping"}
      /\ loop' = loop \/ (loop = "none" /\ loop' = "due" /\ cur' = None)
  BY <1>5 DEF IInv, TypeOK, Reconnecting
<1>20. TypeOK'
  BY <1>1, <1>2, <1>3, <1>4, <1>6, <1>7 DEF IInv, TypeOK
<1>21. AttemptInv'
  BY <1>1, <1>2, <1>7 DEF IInv, AttemptInv, TypeOK
<1>22. CurrentInv'
  BY <1>1, <1>2, <1>5, <1>7 DEF IInv, CurrentInv, TypeOK
<1>23. GrantInv'
  BY <1>1, <1>2, <1>4 DEF IInv, GrantInv
<1>24. NoLostWakeup'
  <2>1. up' = "running" /\ ended' = "no" /\ cur' = None => loop' # "none"
    BY <1>2, <1>5, <1>7 DEF IInv, NoLostWakeup, Stopped, Reconnecting
  <2> QED BY <1>3, <1>7, <2>1 DEF IInv, NoLostWakeup
<1>25. NoLeakedOuter'
  BY <1>1, <1>2, <1>5 DEF IInv, NoLeakedOuter, Live, Stopped
<1>26. PromotionImpliesGrant'
  BY <1>2 DEF IInv, PromotionImpliesGrant
<1> QED BY <1>1, <1>20, <1>21, <1>22, <1>23, <1>24, <1>25, <1>26 DEF IInv

(* The stream of an attempt closes, and the attempt fails.                 *)
LEMMA AttemptClosesStep ==
  ASSUME IInv, AttemptCloses
  PROVE  IInv'
<1>0. trying \in Outers /\ loop = "trying"
  BY DEF AttemptCloses, IInv, TypeOK, AttemptInv
<1>1. /\ phase' \in [Outers -> {"free", "connecting", "open", "dying"}]
      /\ phase'[trying] = "free"
      /\ \A p \in Outers \ {trying} : phase'[p] = phase[p]
      /\ side' \in [Outers ->
                      {"none", "stranger", "asked", "known", "approved"}]
      /\ wire' \in [Outers -> Seq(Responses)]
      /\ \A p \in Outers : Len(wire'[p]) <= 2
      /\ request' \in Outers \cup {None, Gone}
      /\ StreamInv'
      /\ granted' \/ \A p \in Outers :
                       /\ wire'[p] \in Seq(Responses \ {"approved"})
                       /\ side'[p] \notin {"known", "approved"}
  BY <1>0, FreedEffect DEF AttemptCloses
<1>2. UNCHANGED <<up, contact, pendingFile, byHand, pairing, accepted,
                 unconfirmed, expired, kind, control, cur, invalid, on,
                 invite, granted>>
  BY DEF AttemptCloses, fileVars, pairVars, curVars
<1>3. trying' = None /\ step' = "none"
  BY DEF AttemptCloses
<1>4. /\ loop' \in {"none", "sleeping"}
      /\ ended' \in {"no", "refused", "expired"}
      /\ report' \in {"none", "armed", "made"}
      /\ op' \in [Opens -> Waiting \cup {"idle", "done", "closed", "failed"}]
      /\ loop' = "none" => /\ Stopped \/ ended' # "no"
                           /\ \A r \in Opens : op'[r] # "joining"
  BY AfterFailureEffect DEF IInv, AttemptCloses
<1>20. TypeOK'
  BY <1>1, <1>2, <1>3, <1>4 DEF IInv, TypeOK
<1>21. AttemptInv'
  BY <1>3, <1>4 DEF AttemptInv
<1>22. CurrentInv'
  BY <1>0, <1>1, <1>2, <1>3, <1>4 DEF IInv, CurrentInv, TypeOK
<1>23. GrantInv'
  BY <1>1, <1>2, <1>3 DEF IInv, GrantInv
<1>24. NoLostWakeup'
  BY <1>2, <1>4 DEF NoLostWakeup, Stopped
<1>25. NoLeakedOuter'
  BY <1>1, <1>2 DEF IInv, NoLeakedOuter, Live, Stopped
<1>26. PromotionImpliesGrant'
  BY <1>2 DEF IInv, PromotionImpliesGrant
<1> QED BY <1>1, <1>20, <1>21, <1>22, <1>23, <1>24, <1>25, <1>26 DEF IInv

(* The publisher has a request, and answers it.                            *)
LEMMA RequestReceivedStep ==
  ASSUME IInv, NEW o \in Outers, RequestReceived(o)
  PROVE  IInv'
<1>2. UNCHANGED <<up, contact, pendingFile, byHand, pairing, accepted,
                 unconfirmed, expired, phase, trying, step, kind, control,
                 loop, cur, invalid, ended, report, op, on, granted>>
  BY DEF RequestReceived, fileVars, pairVars, tryVars, curVars, endVars,
         openVars
<1>3. side[o] = "stranger" /\ wire[o] = <<>> /\ phase[o] = "open"
  BY DEF IInv, StreamInv, RequestReceived
<1>4. PICK w \in Seq(Responses) :
        /\ w \in Seq(Responses \ {"approved"})
        /\ wire' = [wire EXCEPT ![o] = w]
        /\ Len(w) <= 2
        /\ \/ invite' = "none" /\ request' = o /\ Len(w) <= 1
           \/ UNCHANGED <<invite, request>> /\ request # o
  <2>1. /\ <<>> \in Seq(Responses \ {"approved"}) /\ Len(<<>>) = 0
        /\ request # o
    BY <1>3, EmptySeq DEF IInv, StreamInv
  <2>2. CASE invite = "ours" /\ request = None
    <3>1. /\ Append(<<>>, "pending") \in Seq(Responses)
          /\ Append(<<>>, "pending") \in Seq(Responses \ {"approved"})
          /\ Len(Append(<<>>, "pending")) = 1
      BY <2>1, EmptySeq, AppendIs DEF Responses
    <3>2. /\ wire' = [wire EXCEPT ![o] = Append(wire[o], "pending")]
          /\ request' = o /\ invite' = "none"
      BY <2>2 DEF RequestReceived
    <3>3. wire' = [wire EXCEPT ![o] = Append(<<>>, "pending")]
      BY <1>3, <3>2
    <3> WITNESS Append(<<>>, "pending") \in Seq(Responses)
    <3>4. /\ Len(Append(<<>>, "pending")) <= 1
          /\ Len(Append(<<>>, "pending")) <= 2
      BY <3>1
    <3> QED BY <3>1, <3>2, <3>3, <3>4, Zenon
  <2>3. CASE ~(invite = "ours" /\ request = None)
    <3>1. /\ <<"pending", "error">> \in Seq(Responses)
          /\ <<"pending", "error">> \in Seq(Responses \ {"approved"})
          /\ Len(<<"pending", "error">>) = 2
      BY DEF Responses
    <3>2. <<>> \o <<"pending", "error">> = <<"pending", "error">>
      BY <3>1, ConcatEmptySeq
    <3>3. /\ wire' = [wire EXCEPT ![o] = wire[o] \o <<"pending", "error">>]
          /\ UNCHANGED <<request, invite>>
      BY <2>3 DEF RequestReceived
    <3>4. wire' = [wire EXCEPT ![o] = <<"pending", "error">>]
      BY <1>3, <3>2, <3>3
    <3> WITNESS <<"pending", "error">> \in Seq(Responses)
    <3>5. Len(<<"pending", "error">>) <= 2
      BY <3>1
    <3> QED BY <2>1, <3>1, <3>3, <3>4, <3>5, Zenon
  <2> QED BY <2>2, <2>3
<1>5. /\ wire' \in [Outers -> Seq(Responses)]
      /\ wire'[o] = w
      /\ \A p \in Outers \ {o} : wire'[p] = wire[p]
  BY <1>4 DEF IInv, TypeOK
<1>6. /\ side' \in [Outers ->
                      {"none", "stranger", "asked", "known", "approved"}]
      /\ side'[o] = "asked"
      /\ \A p \in Outers \ {o} : side'[p] = side[p]
  BY DEF IInv, TypeOK, RequestReceived
<1>7. /\ invite' \in {"none", "other", "ours"}
      /\ request' \in Outers \cup {None, Gone}
  BY <1>4 DEF IInv, TypeOK
<1>20. TypeOK'
  <2>1. \A p \in Outers : Len(wire'[p]) <= 2
    BY <1>4, <1>5 DEF IInv, TypeOK
  <2> QED BY <1>2, <1>5, <1>6, <1>7, <2>1 DEF IInv, TypeOK
<1>21. AttemptInv' /\ CurrentInv'
  BY <1>2 DEF IInv, AttemptInv, CurrentInv
<1>22. StreamInv'
  <2>1. ASSUME NEW p \in Outers \ {o}
        PROVE  /\ side'[p] # "none" => phase'[p] \in {"open", "dying"}
               /\ side'[p] \in {"none", "stranger", "known"} =>
                    wire'[p] = <<>>
               /\ request' = p => side'[p] = "asked" /\ Len(wire'[p]) <= 1
    BY <1>2, <1>4, <1>5, <1>6 DEF IInv, StreamInv
  <2>2. /\ side'[o] # "none" => phase'[o] \in {"open", "dying"}
        /\ side'[o] \in {"none", "stranger", "known"} => wire'[o] = <<>>
        /\ request' = o => side'[o] = "asked" /\ Len(wire'[o]) <= 1
    BY <1>2, <1>3, <1>4, <1>5, <1>6
  <2> QED BY <2>1, <2>2 DEF StreamInv
<1>23. GrantInv'
  BY <1>2, <1>4, <1>5, <1>6 DEF IInv, GrantInv
<1>24. NoLostWakeup' /\ NoLeakedOuter' /\ PromotionImpliesGrant'
  BY <1>2
     DEF IInv, NoLostWakeup, NoLeakedOuter, PromotionImpliesGrant, Live,
         Stopped
<1> QED BY <1>20, <1>21, <1>22, <1>23, <1>24 DEF IInv

(* The owner decides; the answer reaches a stream that is there.           *)
LEMMA DecideStep ==
  ASSUME IInv, NEW decision \in {"approved", "denied"}, Decide(decision)
  PROVE  IInv'
<1>2. UNCHANGED <<up, contact, pendingFile, byHand, pairing, accepted,
                 unconfirmed, expired, phase, trying, step, kind, control,
                 loop, cur, invalid, ended, report, op, on, invite>>
  BY DEF Decide, fileVars, pairVars, tryVars, curVars, endVars, openVars
<1>3. granted' \in BOOLEAN /\ (granted => granted')
      /\ (decision = "approved" => granted') /\ request' = None
  BY DEF Decide, IInv, TypeOK, RequestSettled
<1>4. ASSUME request \in Outers, phase[request] = "open"
      PROVE  TypeOK' /\ StreamInv' /\ GrantInv'
  <2> DEFINE o == request
  <2>1. /\ wire' = [wire EXCEPT ![o] = Append(@, decision)]
        /\ side' = [side EXCEPT ![o] =
                      IF decision = "approved" THEN "approved" ELSE @]
    BY <1>4 DEF Decide
  <2>2. side[o] = "asked" /\ Len(wire[o]) <= 1 /\ wire[o] \in Seq(Responses)
    BY <1>4 DEF IInv, TypeOK, StreamInv
  <2>3. /\ Append(wire[o], decision) \in Seq(Responses)
        /\ Len(Append(wire[o], decision)) <= 2
    BY <2>2, AppendIs DEF Responses
  <2>4. granted' \/ Append(wire[o], decision) \in Seq(Responses \ {"approved"})
    <3>1. granted \/ wire[o] \in Seq(Responses \ {"approved"})
      BY <1>4 DEF IInv, GrantInv
    <3>2. granted' \/ decision \in Responses \ {"approved"}
      BY <1>3 DEF Responses
    <3> QED BY <1>3, <3>1, <3>2, AppendIs
  <2>5. /\ wire' \in [Outers -> Seq(Responses)]
        /\ wire'[o] = Append(wire[o], decision)
        /\ \A p \in Outers \ {o} : wire'[p] = wire[p]
    BY <1>4, <2>1, <2>3 DEF IInv, TypeOK
  <2>6. /\ side' \in [Outers ->
                        {"none", "stranger", "asked", "known", "approved"}]
        /\ side'[o] = IF decision = "approved" THEN "approved" ELSE "asked"
        /\ \A p \in Outers \ {o} : side'[p] = side[p]
    BY <1>4, <2>1, <2>2 DEF IInv, TypeOK
  <2> HIDE DEF o
  <2>7. o \in Outers /\ phase[o] = "open"
    BY <1>4 DEF o
  <2>8. TypeOK'
    <3>1. \A p \in Outers : Len(wire'[p]) <= 2
      BY <2>3, <2>5 DEF IInv, TypeOK
    <3> QED BY <1>2, <1>3, <2>5, <2>6, <3>1 DEF IInv, TypeOK
  <2>9. StreamInv'
    <3>1. ASSUME NEW p \in Outers
          PROVE  /\ side'[p] # "none" => phase'[p] \in {"open", "dying"}
                 /\ side'[p] \in {"none", "stranger", "known"} =>
                      wire'[p] = <<>>
      BY <1>2, <2>5, <2>6, <2>7 DEF IInv, StreamInv
    <3> QED BY <1>3, <3>1, SubscriberAssumption DEF StreamInv
  <2>10. GrantInv'
    <3>1. ASSUME ~granted'
          PROVE  GrantInv'
      <4>1. ~granted /\ decision # "approved"
        BY <1>3, <3>1
      <4>2. wire'[o] \in Seq(Responses \ {"approved"})
        BY <2>4, <2>5, <3>1
      <4> QED BY <1>2, <2>5, <2>6, <4>1, <4>2 DEF IInv, GrantInv
    <3>2. ASSUME granted'
          PROVE  GrantInv'
      BY <3>2 DEF GrantInv
    <3> QED BY <3>1, <3>2
  <2> QED BY <2>8, <2>9, <2>10
<1>5. ASSUME ~(request \in Outers /\ phase[request] = "open")
      PROVE  TypeOK' /\ StreamInv' /\ GrantInv'
  <2>1. UNCHANGED <<wire, side>>
    BY <1>5 DEF Decide
  <2>2. TypeOK'
    BY <1>2, <1>3, <2>1 DEF IInv, TypeOK
  <2>3. StreamInv'
    BY <1>2, <1>3, <2>1, SubscriberAssumption DEF IInv, StreamInv
  <2>4. GrantInv'
    <3>1. ASSUME ~granted'
          PROVE  GrantInv'
      <4>1. ~granted
        BY <1>3, <3>1
      <4> QED BY <1>2, <2>1, <4>1 DEF IInv, GrantInv
    <3>2. ASSUME granted'
          PROVE  GrantInv'
      BY <3>2 DEF GrantInv
    <3> QED BY <3>1, <3>2
  <2> QED BY <2>2, <2>3, <2>4
<1>6. AttemptInv' /\ CurrentInv'
  BY <1>2 DEF IInv, AttemptInv, CurrentInv
<1>7. NoLostWakeup' /\ NoLeakedOuter' /\ PromotionImpliesGrant'
  BY <1>2, <1>3
     DEF IInv, NoLostWakeup, NoLeakedOuter, PromotionImpliesGrant, Live,
         Stopped
<1> QED BY <1>4, <1>5, <1>6, <1>7 DEF IInv

-----------------------------------------------------------------------------
(* The theorems.                                                           *)

(* Initially nothing runs and nothing is allowed.                          *)
LEMMA InitIInv ==
  ASSUME Init
  PROVE  IInv
<1>1. /\ <<>> \in Seq(Responses) /\ <<>> \in Seq(Responses \ {"approved"})
      /\ Len(<<>>) = 0
  BY EmptySeq
<1>2. TypeOK
  <2>1. /\ contact \in BOOLEAN /\ pendingFile \in BOOLEAN /\ byHand \in BOOLEAN
        /\ pairing \in BOOLEAN /\ accepted \in BOOLEAN
        /\ unconfirmed \in BOOLEAN /\ expired \in BOOLEAN
        /\ invalid \in BOOLEAN /\ granted \in BOOLEAN
    BY DEF Init
  <2>2. /\ wire \in [Outers -> Seq(Responses)]
        /\ \A o \in Outers : Len(wire[o]) <= 2
    BY <1>1 DEF Init
  <2>3. /\ up = "down" /\ phase = [o \in Outers |-> "free"]
        /\ trying = None /\ step = "none" /\ kind = "plain"
        /\ control = "none" /\ loop = "none" /\ cur = None
        /\ ended = "no" /\ report = "none"
        /\ op = [r \in Opens |-> "idle"] /\ on = [r \in Opens |-> None]
        /\ side = [o \in Outers |-> "none"]
        /\ invite \in {"none", "other"} /\ request = None
    BY DEF Init
  <2> QED BY <2>1, <2>2, <2>3 DEF TypeOK
<1>3. AttemptInv /\ CurrentInv /\ NoLostWakeup /\ PromotionImpliesGrant
  BY DEF Init, AttemptInv, CurrentInv, NoLostWakeup, PromotionImpliesGrant
<1>4. StreamInv
  BY SubscriberAssumption DEF Init, StreamInv
<1>5. GrantInv
  BY <1>1 DEF Init, GrantInv
<1>6. NoLeakedOuter
  BY DEF Init, NoLeakedOuter, Live
<1> QED BY <1>2, <1>3, <1>4, <1>5, <1>6 DEF IInv

(* A step that changes nothing keeps everything.                           *)
LEMMA StutterStep ==
  ASSUME IInv, UNCHANGED vars
  PROVE  IInv'
<1>1. UNCHANGED <<up, contact, pendingFile, byHand, pairing, accepted,
                  unconfirmed, expired, phase, side, wire, trying, step, kind,
                  control, loop, cur, invalid, ended, report, op, on, invite,
                  request, granted>>
  BY DEF vars, fileVars, pairVars, tryVars, curVars, endVars, openVars,
         pubVars, netVars
<1>2. TypeOK'
  BY <1>1 DEF IInv, TypeOK
<1>3. AttemptInv' /\ CurrentInv' /\ NoLostWakeup' /\ PromotionImpliesGrant'
  BY <1>1
     DEF IInv, AttemptInv, CurrentInv, NoLostWakeup, PromotionImpliesGrant
<1>4. StreamInv' /\ GrantInv'
  BY <1>1 DEF IInv, StreamInv, GrantInv
<1>5. NoLeakedOuter'
  BY <1>1 DEF IInv, NoLeakedOuter, Live, Stopped
<1> QED BY <1>2, <1>3, <1>4, <1>5 DEF IInv

(* Every step keeps the invariant.                                         *)
LEMMA NextIInv ==
  ASSUME IInv, [Next]_vars
  PROVE  IInv'
<1>1. CASE Next
  <2>1. CASE StartPairing
    BY <2>1, StartPairingStep
  <2>2. CASE StartKnown
    BY <2>2, StartKnownStep
  <2>3. CASE Configure
    BY <2>3, ConfigureStep
  <2>4. CASE StartInBackground
    BY <2>4, StartInBackgroundStep
  <2>5. CASE LoopBegins
    BY <2>5, LoopBeginsStep
  <2>6. CASE SleepEnds
    BY <2>6, SleepEndsStep
  <2>7. CASE OuterConnects
    BY <2>7, OuterConnectsStep
  <2>8. CASE ConnectTimesOut
    BY <2>8, ConnectTimesOutStep
  <2>9. CASE PairChannelRefused
    BY <2>9, PairChannelRefusedStep
  <2>10. CASE PairPending
    BY <2>10, PairPendingStep
  <2>11. CASE PairApproved
    BY <2>11, PairApprovedStep
  <2>12. CASE PairRefused
    BY <2>12, PairRefusedStep
  <2>13. CASE PromoteDone
    BY <2>13, PromoteDoneStep
  <2>14. CASE ControlAwaited
    BY <2>14, ControlAwaitedStep
  <2>15. CASE ConfirmDone
    BY <2>15, ConfirmDoneStep
  <2>16. CASE RenameFails
    BY <2>16, RenameFailsStep
  <2>17. CASE Unhealthy
    BY <2>17, UnhealthyStep
  <2>18. CASE AttemptCloses
    BY <2>18, AttemptClosesStep
  <2>19. CASE Stop
    BY <2>19, StopStep
  <2>20. CASE StopDone
    BY <2>20, StopDoneStep
  <2>21. CASE Crash
    BY <2>21, CrashStep
  <2>22. CASE ShowInvitation
    BY <2>22, ShowInvitationStep
  <2>23. CASE InvitationEnds
    BY <2>23, InvitationEndsStep
  <2>24. CASE InvitationExpires
    BY <2>24, InvitationExpiresStep
  <2>25. CASE \E result \in {"ready", "legacy", "failed"} :
                ControlSettles(result)
    BY <2>25, ControlSettlesStep
  <2>26. CASE \E o \in Outers : OuterDies(o)
    BY <2>26, OuterDiesStep
  <2>27. CASE \E o \in Outers : OuterCloses(o)
    BY <2>27, OuterClosesStep
  <2>28. CASE \E o \in Outers : RequestReceived(o)
    BY <2>28, RequestReceivedStep
  <2>29. CASE \E r \in Opens : OpenBegins(r)
    BY <2>29, OpenBeginsStep
  <2>30. CASE \E r \in Opens : OpenEnds(r)
    BY <2>30, OpenEndsStep
  <2>31. CASE \E decision \in {"approved", "denied"} : Decide(decision)
    BY <2>31, DecideStep
  <2> QED BY <1>1, <2>1, <2>2, <2>3, <2>4, <2>5, <2>6, <2>7, <2>8, <2>9,
         <2>10, <2>11, <2>12, <2>13, <2>14, <2>15, <2>16, <2>17, <2>18,
         <2>19, <2>20, <2>21, <2>22, <2>23, <2>24, <2>25, <2>26, <2>27,
         <2>28, <2>29, <2>30, <2>31 DEF Next
<1>2. CASE UNCHANGED vars
  BY <1>2, StutterStep
<1> QED BY <1>1, <1>2

(* The inductive invariant holds of every reachable state.                 *)
THEOREM SubscriberSafe == Spec => []IInv
<1> QED BY InitIInv, NextIInv, PTL DEF Spec

(* A subscriber without a usable connection has a loop at work, and so has *)
(* every service open that waits for one (install and reconnect).          *)
THEOREM SubscriberNoLostWakeup == Spec => []NoLostWakeup
<1>1. IInv => NoLostWakeup
  BY DEF IInv
<1> QED BY <1>1, SubscriberSafe, PTL

(* A stream that is not destroyed is the one in use or the one being       *)
(* tried, and there is none after stop() (connectOnce's catch).            *)
THEOREM SubscriberNoLeakedOuter == Spec => []NoLeakedOuter
<1>1. IInv => NoLeakedOuter
  BY DEF IInv
<1> QED BY <1>1, SubscriberSafe, PTL

(* A pending contact becomes the publisher only when the publisher has     *)
(* this subscriber in its durable allowlist, or the contact was set by     *)
(* hand (promoteSubscriberPendingPublisher).                               *)
THEOREM SubscriberPromotionImpliesGrant == Spec => []PromotionImpliesGrant
<1>1. IInv => PromotionImpliesGrant
  BY DEF IInv
<1> QED BY <1>1, SubscriberSafe, PTL

(* The step that ends an attempt leaves the connection in use alone, or    *)
(* replaces one whose stream is being destroyed.                           *)
LEMMA InstallsKeeps ==
  ASSUME IInv, step # "none", Installs(trying), cur # None
  PROVE  phase'[cur] # "open"
<1>1. loop # "none"
  BY DEF IInv, AttemptInv
<1>2. phase[cur] = "dying"
  BY <1>1 DEF IInv, CurrentInv
<1> QED BY <1>2 DEF Installs

(* What replaces or forgets the connection in use finds its stream gone.   *)
LEMMA KeepsCurrent ==
  ASSUME IInv, Next, cur # None, cur' # cur
  PROVE  phase'[cur] # "open"
<1>0. cur \in Outers
  BY DEF IInv, TypeOK
<1>1. CASE ControlAwaited
  <2>1. Installs(trying)
    BY <1>1 DEF ControlAwaited, curVars
  <2> QED BY <1>1, <2>1, InstallsKeeps DEF ControlAwaited
<1>2. CASE ConfirmDone
  <2>1. Installs(trying)
    BY <1>2 DEF ConfirmDone, curVars
  <2> QED BY <1>2, <2>1, InstallsKeeps DEF ConfirmDone
<1>3. CASE \E o \in Outers : OuterCloses(o)
  <2>1. PICK o \in Outers : OuterCloses(o)
    BY <1>3
  <2>2. o = cur
    BY <2>1 DEF OuterCloses, curVars
  <2>3. phase' = [phase EXCEPT ![o] = "free"]
    BY <2>1 DEF OuterCloses
  <2> QED BY <1>0, <2>2, <2>3 DEF IInv, TypeOK
<1>4. CASE Stop
  <2>1. ~(cur \in {trying, cur} /\ Live(cur)) => phase'[cur] = phase[cur]
    BY <1>0, <1>4, KilledIs DEF IInv, Stop, ReleasesAll
  <2>2. Live(cur) => phase'[cur] = "dying"
    BY <1>0, <1>4, KilledIs DEF IInv, Stop, ReleasesAll
  <2> QED BY <2>1, <2>2 DEF Live
<1>5. CASE StopDone \/ Crash
  BY <1>0, <1>5 DEF StopDone, Crash, ForgetRun
<1>6. CASE UNCHANGED cur
  BY <1>6
<1>7. CASE StartPairing \/ StartKnown \/ Configure \/ StartInBackground \/
           LoopBegins \/ SleepEnds \/ OuterConnects \/
           ConnectTimesOut \/ PairChannelRefused \/ PairPending \/
           PairApproved \/ PairRefused \/ PromoteDone \/
           RenameFails \/ Unhealthy \/ AttemptCloses \/
           ShowInvitation \/ InvitationEnds \/ InvitationExpires
  BY <1>6, <1>7 DEF StartPairing, StartKnown, Configure, StartInBackground,
     LoopBegins, SleepEnds, OuterConnects, ConnectTimesOut,
     PairChannelRefused, PairPending, PairApproved, PairRefused,
     PromoteDone, RenameFails, Unhealthy, AttemptCloses, ShowInvitation,
     InvitationEnds, InvitationExpires, NextAttempt, curVars
<1>8. CASE \/ \E result \in {"ready", "legacy", "failed"} :
                ControlSettles(result)
           \/ \E o \in Outers : OuterDies(o) \/ RequestReceived(o)
           \/ \E r \in Opens : OpenBegins(r) \/ OpenEnds(r)
           \/ \E decision \in {"approved", "denied"} : Decide(decision)
  BY <1>6, <1>8
     DEF ControlSettles, OuterDies, RequestReceived, OpenBegins, OpenEnds,
         Decide, curVars
<1> QED BY <1>1, <1>2, <1>3, <1>4, <1>5, <1>7, <1>8 DEF Next

(* The connection in use is never replaced or forgotten while its stream   *)
(* is open, whichever close event, loop or stop comes late.                *)
THEOREM SubscriberCurrentIsKept == Spec => CurrentIsKept
<1>1. IInv /\ [Next]_vars =>
        [cur # None /\ cur' # cur => phase'[cur] # "open"]_vars
  BY KeepsCurrent
<1> QED BY <1>1, SubscriberSafe, PTL DEF Spec, CurrentIsKept

-----------------------------------------------------------------------------
(* The gateway.                                                            *)

\* Where a client waits for its tunnel, or for the promise to be rejected.
Acquiring == {"loop", "joining", "opening", "sleeping"} \cup Reasons

\* The timer runs during the acquisition; once it has fired, or the socket has
\* closed, the signal is aborted and nothing can be opened any more.
AcquisitionInv ==
  \A c \in Clients :
    /\ socket[c] = "absent" => at[c] = "header"
    /\ at[c] = "opening" => over[c] \in Muxes
    /\ at[c] \in {"joining", "opening"} => ~aborted[c]
    /\ at[c] = "aborted" => aborted[c]
    /\ at[c] # "lost"
    /\ timer[c] = "fired" => aborted[c]
    /\ aborted[c] => timer[c] = "fired" \/ socket[c] = "closed"
    /\ at[c] \in Acquiring => timer[c] # "off"
    /\ timer[c] = "armed" => at[c] \in Acquiring
    /\ at[c] = "header" =>
         timer[c] = "off" /\ socket[c] \in {"absent", "open"}

\* A client that can still be served or refused has no answer.
AnswerInv ==
  \A c \in Clients :
    /\ answer[c] = {} \/ \E a \in Answers : answer[c] = {a}
    /\ at[c] \in {"header", "bridged"} \/ timer[c] = "armed" => answer[c] = {}

GatewayInv ==
  /\ GatewayTypeOK /\ NoLeakedTunnel /\ AcquisitionInv /\ AnswerInv
  /\ BadGatewayIsReal

(* The gateway begins with no client.                                      *)
LEMMA GatewayInitSafe == GatewayInit => GatewayInv
<1> SUFFICES ASSUME GatewayInit PROVE GatewayInv
  OBVIOUS
<1>1. GatewayTypeOK
  BY DEF GatewayInit, GatewayTypeOK
<1>2. NoLeakedTunnel /\ AcquisitionInv /\ AnswerInv /\ BadGatewayIsReal
  BY DEF GatewayInit, NoLeakedTunnel, AcquisitionInv, AnswerInv,
     BadGatewayIsReal,
     Acquiring, Reasons
<1> QED BY <1>1, <1>2 DEF GatewayInv

-----------------------------------------------------------------------------
(* One lemma for each action.                                              *)

(* A client is accepted with nothing under way.                            *)
LEMMA AcceptsStep ==
  ASSUME GatewayInv, NEW c \in Clients, Accepts(c)
  PROVE  GatewayInv'
<1> USE DEF GatewayInv, Accepts, connVars
<1>1. GatewayTypeOK'
  BY DEF GatewayTypeOK, Answers, Reasons, AcquisitionInv
<1>2. NoLeakedTunnel'
  BY DEF NoLeakedTunnel, GatewayTypeOK, AcquisitionInv, Reasons
<1>3. AcquisitionInv'
  BY DEF NoLeakedTunnel, AcquisitionInv, Acquiring, Reasons, GatewayTypeOK
<1>4. AnswerInv'
  BY DEF AnswerInv, AcquisitionInv, Acquiring, Reasons, GatewayTypeOK, Answers
<1>5. BadGatewayIsReal'
  BY DEF BadGatewayIsReal, AcquisitionInv, Reasons, GatewayTypeOK
<1> QED BY <1>1, <1>2, <1>3, <1>4, <1>5

(* The acquisition begins with its timer.                                  *)
LEMMA AsksStep ==
  ASSUME GatewayInv, NEW c \in Clients, Asks(c)
  PROVE  GatewayInv'
<1> USE DEF GatewayInv, Asks, connVars
<1>1. GatewayTypeOK'
  BY DEF GatewayTypeOK, Answers, Reasons, AcquisitionInv
<1>2. NoLeakedTunnel'
  BY DEF NoLeakedTunnel, GatewayTypeOK, AcquisitionInv, Reasons
<1>3. AcquisitionInv'
  BY DEF NoLeakedTunnel, AcquisitionInv, Acquiring, Reasons, GatewayTypeOK
<1>4. AnswerInv'
  BY DEF AnswerInv, AcquisitionInv, Acquiring, Reasons, GatewayTypeOK, Answers
<1>5. BadGatewayIsReal'
  BY DEF BadGatewayIsReal, AcquisitionInv, Reasons, GatewayTypeOK
<1> QED BY <1>1, <1>2, <1>3, <1>4, <1>5

(* 421 answers a client that has no answer.                                *)
LEMMA MisdirectedStep ==
  ASSUME GatewayInv, NEW c \in Clients, Misdirected(c)
  PROVE  GatewayInv'
<1> USE DEF GatewayInv, Misdirected, connVars, Reply
<1>1. GatewayTypeOK'
  BY DEF GatewayTypeOK, Answers, Reasons, AcquisitionInv
<1>2. NoLeakedTunnel'
  BY DEF NoLeakedTunnel, GatewayTypeOK, AcquisitionInv, Reasons
<1>3. AcquisitionInv'
  BY DEF NoLeakedTunnel, AcquisitionInv, Acquiring, Reasons, GatewayTypeOK
<1>4. AnswerInv'
  BY DEF AnswerInv, AcquisitionInv, Acquiring, Reasons, GatewayTypeOK, Answers
<1>5. BadGatewayIsReal'
  BY DEF BadGatewayIsReal, AcquisitionInv, Reasons, GatewayTypeOK
<1> QED BY <1>1, <1>2, <1>3, <1>4, <1>5

(* So does 431, and the answer is given once.                              *)
LEMMA TooLongStep ==
  ASSUME GatewayInv, NEW c \in Clients, TooLong(c)
  PROVE  GatewayInv'
<1> USE DEF GatewayInv, TooLong, connVars, Reply
<1>1. GatewayTypeOK'
  BY DEF GatewayTypeOK, Answers, Reasons, AcquisitionInv
<1>2. NoLeakedTunnel'
  BY DEF NoLeakedTunnel, GatewayTypeOK, AcquisitionInv, Reasons
<1>3. AcquisitionInv'
  BY DEF NoLeakedTunnel, AcquisitionInv, Acquiring, Reasons, GatewayTypeOK
<1>4. AnswerInv'
  BY DEF AnswerInv, AcquisitionInv, Acquiring, Reasons, GatewayTypeOK, Answers
<1>5. BadGatewayIsReal'
  BY DEF BadGatewayIsReal, AcquisitionInv, Reasons, GatewayTypeOK
<1> QED BY <1>1, <1>2, <1>3, <1>4, <1>5

(* A client that never asks is dropped.                                    *)
LEMMA HeaderTimesOutStep ==
  ASSUME GatewayInv, NEW c \in Clients, HeaderTimesOut(c)
  PROVE  GatewayInv'
<1> USE DEF GatewayInv, HeaderTimesOut, connVars
<1>1. GatewayTypeOK'
  BY DEF GatewayTypeOK, Answers, Reasons, AcquisitionInv
<1>2. NoLeakedTunnel'
  BY DEF NoLeakedTunnel, GatewayTypeOK, AcquisitionInv, Reasons
<1>3. AcquisitionInv'
  BY DEF NoLeakedTunnel, AcquisitionInv, Acquiring, Reasons, GatewayTypeOK
<1>4. AnswerInv'
  BY DEF AnswerInv, AcquisitionInv, Acquiring, Reasons, GatewayTypeOK, Answers
<1>5. BadGatewayIsReal'
  BY DEF BadGatewayIsReal, AcquisitionInv, Reasons, GatewayTypeOK
<1> QED BY <1>1, <1>2, <1>3, <1>4, <1>5

(* open() goes on only while its signal is not aborted.                    *)
LEMMA LoopStep ==
  ASSUME GatewayInv, NEW c \in Clients, Loop(c)
  PROVE  GatewayInv'
<1> USE DEF GatewayInv, Loop, connVars
<1>1. GatewayTypeOK'
  <2>1. looping' \in BOOLEAN
    BY DEF GatewayTypeOK
  <2>2. at' \in [Clients -> {"header", "toolong", "loop", "joining",
                 "opening", "sleeping", "bridged", "done"} \cup Reasons]
    BY DEF GatewayTypeOK, Reasons
  <2>3. over' \in [Clients -> Muxes \cup {NoMux}]
    BY DEF GatewayTypeOK
  <2> QED BY <2>1, <2>2, <2>3 DEF GatewayTypeOK
<1>2. NoLeakedTunnel'
  BY DEF NoLeakedTunnel, GatewayTypeOK, AcquisitionInv, Reasons
<1>3. AcquisitionInv'
  BY DEF NoLeakedTunnel, AcquisitionInv, Acquiring, Reasons, GatewayTypeOK
<1>4. AnswerInv'
  BY DEF AnswerInv, AcquisitionInv, Acquiring, Reasons, GatewayTypeOK, Answers
<1>5. BadGatewayIsReal'
  BY DEF BadGatewayIsReal, AcquisitionInv, Reasons, GatewayTypeOK
<1> QED BY <1>1, <1>2, <1>3, <1>4, <1>5

(* The delay is over.                                                      *)
LEMMA WakesStep ==
  ASSUME GatewayInv, NEW c \in Clients, Wakes(c)
  PROVE  GatewayInv'
<1> USE DEF GatewayInv, Wakes, connVars
<1>1. GatewayTypeOK'
  BY DEF GatewayTypeOK, Answers, Reasons, AcquisitionInv
<1>2. NoLeakedTunnel'
  BY DEF NoLeakedTunnel, GatewayTypeOK, AcquisitionInv, Reasons
<1>3. AcquisitionInv'
  BY DEF NoLeakedTunnel, AcquisitionInv, Acquiring, Reasons, GatewayTypeOK
<1>4. AnswerInv'
  BY DEF AnswerInv, AcquisitionInv, Acquiring, Reasons, GatewayTypeOK, Answers
<1>5. BadGatewayIsReal'
  BY DEF BadGatewayIsReal, AcquisitionInv, Reasons, GatewayTypeOK
<1> QED BY <1>1, <1>2, <1>3, <1>4, <1>5

(* A tunnel opens for a client that was not answered.                      *)
LEMMA TunnelOpensStep ==
  ASSUME GatewayInv, NEW c \in Clients, TunnelOpens(c)
  PROVE  GatewayInv'
<1> USE DEF GatewayInv, TunnelOpens, connVars, ClearsTheTimer
<1>1. GatewayTypeOK'
  BY DEF GatewayTypeOK, Answers, Reasons, AcquisitionInv
<1>2. NoLeakedTunnel'
  BY DEF NoLeakedTunnel, GatewayTypeOK, AcquisitionInv, Reasons
<1>3. AcquisitionInv'
  BY DEF NoLeakedTunnel, AcquisitionInv, Acquiring, Reasons, GatewayTypeOK
<1>4. AnswerInv'
  BY DEF AnswerInv, AcquisitionInv, Acquiring, Reasons, GatewayTypeOK, Answers
<1>5. BadGatewayIsReal'
  BY DEF BadGatewayIsReal, AcquisitionInv, Reasons, GatewayTypeOK
<1> QED BY <1>1, <1>2, <1>3, <1>4, <1>5

(* The publisher refuses the service.                                      *)
LEMMA RefusedStep ==
  ASSUME GatewayInv, NEW c \in Clients, Refused(c)
  PROVE  GatewayInv'
<1> USE DEF GatewayInv, Refused, connVars
<1>1. GatewayTypeOK'
  BY DEF GatewayTypeOK, Answers, Reasons, AcquisitionInv
<1>2. NoLeakedTunnel'
  BY DEF NoLeakedTunnel, GatewayTypeOK, AcquisitionInv, Reasons
<1>3. AcquisitionInv'
  BY DEF NoLeakedTunnel, AcquisitionInv, Acquiring, Reasons, GatewayTypeOK
<1>4. AnswerInv'
  BY DEF AnswerInv, AcquisitionInv, Acquiring, Reasons, GatewayTypeOK, Answers
<1>5. BadGatewayIsReal'
  BY DEF BadGatewayIsReal, AcquisitionInv, Reasons, GatewayTypeOK
<1> QED BY <1>1, <1>2, <1>3, <1>4, <1>5

(* 502 is sent unless 503 was, and not to a socket that is gone.           *)
LEMMA RejectedStep ==
  ASSUME GatewayInv, NEW c \in Clients, Rejected(c)
  PROVE  GatewayInv'
<1> USE DEF GatewayInv, Rejected, connVars, MayAnswer, Reply
<1>1. GatewayTypeOK'
  BY DEF GatewayTypeOK, Answers, Reasons, AcquisitionInv
<1>2. NoLeakedTunnel'
  BY DEF NoLeakedTunnel, GatewayTypeOK, AcquisitionInv, Reasons
<1>3. AcquisitionInv'
  BY DEF NoLeakedTunnel, AcquisitionInv, Acquiring, Reasons, GatewayTypeOK
<1>4. AnswerInv'
  BY DEF AnswerInv, AcquisitionInv, Acquiring, Reasons, GatewayTypeOK, Answers
<1>5. BadGatewayIsReal'
  BY DEF BadGatewayIsReal, AcquisitionInv, Reasons, GatewayTypeOK
<1> QED BY <1>1, <1>2, <1>3, <1>4, <1>5

(* 503 is sent once and aborts the open.                                   *)
LEMMA AcquisitionTimesOutStep ==
  ASSUME GatewayInv, NEW c \in Clients, AcquisitionTimesOut(c)
  PROVE  GatewayInv'
<1> USE DEF GatewayInv, AcquisitionTimesOut, connVars, Abort, LetsGo,
           Outstanding, Reply
<1>1. GatewayTypeOK'
  BY DEF GatewayTypeOK, Answers, Reasons, AcquisitionInv
<1>2. NoLeakedTunnel'
  BY DEF NoLeakedTunnel, GatewayTypeOK, AcquisitionInv, Reasons
<1>3. AcquisitionInv'
  BY DEF NoLeakedTunnel, AcquisitionInv, Acquiring, Reasons, GatewayTypeOK
<1>4. AnswerInv'
  BY DEF AnswerInv, AcquisitionInv, Acquiring, Reasons, GatewayTypeOK, Answers
<1>5. BadGatewayIsReal'
  BY DEF BadGatewayIsReal, AcquisitionInv, Reasons, GatewayTypeOK
<1> QED BY <1>1, <1>2, <1>3, <1>4, <1>5

(* A late tunnel is destroyed.                                             *)
LEMMA LateAnswerStep ==
  ASSUME GatewayInv, LateAnswer
  PROVE  GatewayInv'
<1> USE DEF GatewayInv, LateAnswer, connVars, DestroysTheLate
<1>1. GatewayTypeOK'
  BY DEF GatewayTypeOK, Answers, Reasons, AcquisitionInv
<1>2. NoLeakedTunnel'
  BY DEF NoLeakedTunnel, GatewayTypeOK, AcquisitionInv, Reasons
<1>3. AcquisitionInv'
  BY DEF NoLeakedTunnel, AcquisitionInv, Acquiring, Reasons, GatewayTypeOK
<1>4. AnswerInv'
  BY DEF AnswerInv, AcquisitionInv, Acquiring, Reasons, GatewayTypeOK, Answers
<1>5. BadGatewayIsReal'
  BY DEF BadGatewayIsReal, AcquisitionInv, Reasons, GatewayTypeOK
<1> QED BY <1>1, <1>2, <1>3, <1>4, <1>5

(* The client hangs up.                                                    *)
LEMMA SocketBreaksStep ==
  ASSUME GatewayInv, NEW c \in Clients, SocketBreaks(c)
  PROVE  GatewayInv'
<1> USE DEF GatewayInv, SocketBreaks, connVars
<1>1. GatewayTypeOK'
  BY DEF GatewayTypeOK, Answers, Reasons, AcquisitionInv
<1>2. NoLeakedTunnel'
  BY DEF NoLeakedTunnel, GatewayTypeOK, AcquisitionInv, Reasons
<1>3. AcquisitionInv'
  BY DEF NoLeakedTunnel, AcquisitionInv, Acquiring, Reasons, GatewayTypeOK
<1>4. AnswerInv'
  BY DEF AnswerInv, AcquisitionInv, Acquiring, Reasons, GatewayTypeOK, Answers
<1>5. BadGatewayIsReal'
  BY DEF BadGatewayIsReal, AcquisitionInv, Reasons, GatewayTypeOK
<1> QED BY <1>1, <1>2, <1>3, <1>4, <1>5

(* The close event takes the tunnel with it.                               *)
LEMMA SocketClosesStep ==
  ASSUME GatewayInv, NEW c \in Clients, SocketCloses(c)
  PROVE  GatewayInv'
<1> USE DEF GatewayInv, SocketCloses, connVars, Abort, LetsGo,
     Outstanding
<1>1. GatewayTypeOK'
  BY DEF GatewayTypeOK, Answers, Reasons, AcquisitionInv
<1>2. NoLeakedTunnel'
  BY DEF NoLeakedTunnel, GatewayTypeOK, AcquisitionInv, Reasons
<1>3. AcquisitionInv'
  BY DEF NoLeakedTunnel, AcquisitionInv, Acquiring, Reasons, GatewayTypeOK
<1>4. AnswerInv'
  BY DEF AnswerInv, AcquisitionInv, Acquiring, Reasons, GatewayTypeOK, Answers
<1>5. BadGatewayIsReal'
  BY DEF BadGatewayIsReal, AcquisitionInv, Reasons, GatewayTypeOK
<1> QED BY <1>1, <1>2, <1>3, <1>4, <1>5

(* A tunnel ends.                                                          *)
LEMMA TunnelClosesStep ==
  ASSUME GatewayInv, TunnelCloses
  PROVE  GatewayInv'
<1> USE DEF GatewayInv, TunnelCloses, connVars, Without
<1>1. GatewayTypeOK'
  BY DEF GatewayTypeOK, Answers, Reasons, AcquisitionInv
<1>2. NoLeakedTunnel'
  BY DEF NoLeakedTunnel, GatewayTypeOK, AcquisitionInv, Reasons
<1>3. AcquisitionInv'
  BY DEF NoLeakedTunnel, AcquisitionInv, Acquiring, Reasons, GatewayTypeOK
<1>4. AnswerInv'
  BY DEF AnswerInv, AcquisitionInv, Acquiring, Reasons, GatewayTypeOK, Answers
<1>5. BadGatewayIsReal'
  BY DEF BadGatewayIsReal, AcquisitionInv, Reasons, GatewayTypeOK
<1> QED BY <1>1, <1>2, <1>3, <1>4, <1>5

(* Who joined the loop gets the new connection.                            *)
LEMMA ConnectsStep ==
  ASSUME GatewayInv, Connects
  PROVE  GatewayInv'
<1> USE DEF GatewayInv, Connects, connVars
<1>1. GatewayTypeOK'
  <2>1. at' \in [Clients -> {"header", "toolong", "loop", "joining",
                 "opening", "sleeping", "bridged", "done"} \cup Reasons]
    BY DEF GatewayTypeOK
  <2>2. /\ muxes' \in [Muxes -> {"none", "up", "down"}]
        /\ current' \in Muxes \cup {NoMux}
        /\ over' \in [Clients -> Muxes \cup {NoMux}]
    BY DEF GatewayTypeOK
  <2> QED BY <2>1, <2>2 DEF GatewayTypeOK
<1>2. NoLeakedTunnel'
  BY DEF NoLeakedTunnel, GatewayTypeOK, AcquisitionInv, Reasons
<1>3. AcquisitionInv'
  BY DEF NoLeakedTunnel, AcquisitionInv, Acquiring, Reasons, GatewayTypeOK
<1>4. AnswerInv'
  BY DEF AnswerInv, AcquisitionInv, Acquiring, Reasons, GatewayTypeOK, Answers
<1>5. BadGatewayIsReal'
  BY DEF BadGatewayIsReal, AcquisitionInv, Reasons, GatewayTypeOK
<1> QED BY <1>1, <1>2, <1>3, <1>4, <1>5

(* Who joined the loop is told that it has ended.                          *)
LEMMA ReconnectEndsStep ==
  ASSUME GatewayInv, ReconnectEnds
  PROVE  GatewayInv'
<1> USE DEF GatewayInv, ReconnectEnds, connVars
<1>1. GatewayTypeOK'
  BY DEF GatewayTypeOK, Answers, Reasons, AcquisitionInv
<1>2. NoLeakedTunnel'
  BY DEF NoLeakedTunnel, GatewayTypeOK, AcquisitionInv, Reasons
<1>3. AcquisitionInv'
  BY DEF NoLeakedTunnel, AcquisitionInv, Acquiring, Reasons, GatewayTypeOK
<1>4. AnswerInv'
  BY DEF AnswerInv, AcquisitionInv, Acquiring, Reasons, GatewayTypeOK, Answers
<1>5. BadGatewayIsReal'
  BY DEF BadGatewayIsReal, AcquisitionInv, Reasons, GatewayTypeOK
<1> QED BY <1>1, <1>2, <1>3, <1>4, <1>5

(* Tunnels and opens of the connection go with it.                         *)
LEMMA ConnectionDiesStep ==
  ASSUME GatewayInv, ConnectionDies
  PROVE  GatewayInv'
<1> USE DEF GatewayInv, ConnectionDies, connVars, Loses, Without,
     TriesAgain
<1>1. GatewayTypeOK'
  BY DEF GatewayTypeOK, Answers, Reasons, AcquisitionInv
<1>2. NoLeakedTunnel'
  BY DEF NoLeakedTunnel, GatewayTypeOK, AcquisitionInv, Reasons
<1>3. AcquisitionInv'
  BY DEF NoLeakedTunnel, AcquisitionInv, Acquiring, Reasons, GatewayTypeOK
<1>4. AnswerInv'
  BY DEF AnswerInv, AcquisitionInv, Acquiring, Reasons, GatewayTypeOK, Answers
<1>5. BadGatewayIsReal'
  BY DEF BadGatewayIsReal, AcquisitionInv, Reasons, GatewayTypeOK
<1> QED BY <1>1, <1>2, <1>3, <1>4, <1>5

(* stop() takes the connection and the loop.                               *)
LEMMA GatewayStopsStep ==
  ASSUME GatewayInv, GatewayStops
  PROVE  GatewayInv'
<1> USE DEF GatewayInv, GatewayStops, connVars, Loses, Without, TriesAgain
<1>1. GatewayTypeOK'
  <2>1. at' \in [Clients -> {"header", "toolong", "loop", "joining",
                 "opening", "sleeping", "bridged", "done"} \cup Reasons]
    <3>1. CASE current # NoMux
      BY <3>1 DEF GatewayTypeOK, Reasons
    <3>2. CASE current = NoMux
      BY <3>2 DEF GatewayTypeOK, Reasons
    <3> QED BY <3>1, <3>2
  <2>2. /\ muxes' \in [Muxes -> {"none", "up", "down"}]
        /\ current' \in Muxes \cup {NoMux}
        /\ socket' \in [Clients -> {"absent", "open", "ended", "destroyed",
                                    "closed"}]
        /\ late' \subseteq Clients \X Muxes
        /\ tunnels' \subseteq Clients \X Muxes
    <3>1. CASE current # NoMux
      BY <3>1 DEF GatewayTypeOK
    <3>2. CASE current = NoMux
      BY <3>2 DEF GatewayTypeOK
    <3> QED BY <3>1, <3>2
  <2> QED BY <2>1, <2>2 DEF GatewayTypeOK
<1>2. NoLeakedTunnel'
  BY DEF NoLeakedTunnel, GatewayTypeOK, AcquisitionInv, Reasons
<1>3. AcquisitionInv'
  BY DEF NoLeakedTunnel, AcquisitionInv, Acquiring, Reasons, GatewayTypeOK
<1>4. AnswerInv'
  BY DEF AnswerInv, AcquisitionInv, Acquiring, Reasons, GatewayTypeOK, Answers
<1>5. BadGatewayIsReal'
  BY DEF BadGatewayIsReal, AcquisitionInv, Reasons, GatewayTypeOK
<1> QED BY <1>1, <1>2, <1>3, <1>4, <1>5

-----------------------------------------------------------------------------
(* Every step preserves it.                                                *)
LEMMA GatewayNextSafe == GatewayInv /\ [GatewayNext]_gatewayVars => GatewayInv'
<1> SUFFICES ASSUME GatewayInv, [GatewayNext]_gatewayVars PROVE GatewayInv'
  OBVIOUS
<1>1. CASE UNCHANGED gatewayVars
  BY <1>1 DEF gatewayVars, connVars, clientVars, GatewayInv, GatewayTypeOK,
     NoLeakedTunnel,
     AcquisitionInv, AnswerInv, BadGatewayIsReal
<1>2. ASSUME NEW c \in Clients, Local(c) PROVE GatewayInv'
  BY <1>2, LoopStep, WakesStep, RejectedStep, SocketClosesStep,
     HeaderTimesOutStep, AcquisitionTimesOutStep DEF Local
<1>3. ASSUME NEW c \in Clients,
             Accepts(c) \/ Asks(c) \/ Misdirected(c) \/ TooLong(c)
             \/ TunnelOpens(c) \/ Refused(c) \/ SocketBreaks(c)
      PROVE  GatewayInv'
  BY <1>3, AcceptsStep, AsksStep, MisdirectedStep, TooLongStep,
     TunnelOpensStep, RefusedStep, SocketBreaksStep
<1>4. CASE LateAnswer \/ TunnelCloses \/ Connects \/ ReconnectEnds
           \/ ConnectionDies \/ GatewayStops
  BY <1>4, LateAnswerStep, TunnelClosesStep, ConnectsStep, ReconnectEndsStep,
     ConnectionDiesStep, GatewayStopsStep
<1> QED BY <1>1, <1>2, <1>3, <1>4 DEF GatewayNext

(* Every reachable state of the gateway satisfies GatewayInv.              *)
THEOREM GatewaySafe == GatewaySpec => []GatewayInv
<1>1. GatewayInit => GatewayInv
  BY GatewayInitSafe
<1>2. GatewayInv /\ [GatewayNext]_gatewayVars => GatewayInv'
  BY GatewayNextSafe
<1> QED BY <1>1, <1>2, PTL DEF GatewaySpec

(* A tunnel has its client, whose socket is not closed, and a connection   *)
(* that is up: the late answer of openWithAbort leaves none behind.        *)
THEOREM GatewayNoLeakedTunnel == GatewaySpec => []NoLeakedTunnel
<1>1. GatewayInv => NoLeakedTunnel
  BY DEF GatewayInv
<1> QED BY <1>1, GatewaySafe, PTL

(* A client gets one answer at most, and none before a tunnel's bytes.     *)
THEOREM GatewayOneAnswer == GatewaySpec => []OneAnswer
<1>1. ASSUME GatewayInv PROVE OneAnswer
  <2> SUFFICES ASSUME NEW c \in Clients
               PROVE  /\ Cardinality(answer[c]) <= 1
                      /\ answer[c] # {} => at[c] # "bridged"
    BY DEF OneAnswer
  <2>1. answer[c] = {} \/ \E a \in Answers : answer[c] = {a}
    BY <1>1 DEF GatewayInv, AnswerInv
  <2>2. Cardinality(answer[c]) <= 1
    <3>1. CASE answer[c] = {}
      <4>1. Cardinality({}) = 0
        BY FS_EmptySet
      <4> QED BY <3>1, <4>1
    <3>2. ASSUME NEW a \in Answers, answer[c] = {a}
          PROVE  Cardinality(answer[c]) <= 1
      <4>1. Cardinality({a}) = 1
        BY FS_Singleton
      <4> QED BY <3>2, <4>1
    <3> QED BY <2>1, <3>1, <3>2
  <2>3. answer[c] # {} => at[c] # "bridged"
    BY <1>1 DEF GatewayInv, AnswerInv
  <2> QED BY <2>2, <2>3
<1>2. GatewayInv => OneAnswer
  BY <1>1
<1> QED BY <1>2, GatewaySafe, PTL

(* 502 is the answer to a refusal or to the end of the subscriber: a lost  *)
(* connection is tried again and an aborted open is answered otherwise.    *)
THEOREM GatewayBadGatewayIsReal == GatewaySpec => []BadGatewayIsReal
<1>1. GatewayInv => BadGatewayIsReal
  BY DEF GatewayInv
<1> QED BY <1>1, GatewaySafe, PTL
=============================================================================
