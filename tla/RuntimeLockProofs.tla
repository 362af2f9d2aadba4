------------------------- MODULE RuntimeLockProofs -------------------------
(***************************************************************************)
(* Every reachable state of RuntimeLock satisfies LockInv, whatever the    *)
(* processes, the crashes, the number of attempts and the order in which   *)
(* the two stat calls of a claim check are served: two processes hold the  *)
(* lock together, an owner loses its lock file or a claimant unlinks a     *)
(* lock whose owner lives only after a check that stat'ed the canonical    *)
(* path first, while another claim was on the file, has passed.  The run   *)
(* lock_stat_race shows that this does happen.                             *)
(***************************************************************************)
EXTENDS RuntimeLock, FiniteSetTheorems, TLAPS

(* A claim that counts two links on the current lock is alone on it: the   *)
(* canonical path is one of the two links and the claim itself the other.  *)
LEMMA SoleClaimant ==
  ASSUME TypeOK, NEW p \in Procs, NEW q \in Procs,
         claim[p] = lock, claim[q] = lock, LinkCount(lock) = 2
  PROVE  p = q
<1> DEFINE C == Claimants(lock)
<1>1. IsFiniteSet(C) /\ Cardinality(C) \in Nat
  BY LockAssumption, FS_Subset, FS_CardinalityType DEF Claimants
<1>2. Cardinality(C) <= 1
  BY <1>1 DEF LinkCount
<1>3. IsFiniteSet({p}) /\ Cardinality({p}) = 1
  BY FS_Singleton
<1>4. {p} \subseteq C /\ q \in C
  BY DEF Claimants
<1>5. {p} = C
  BY <1>1, <1>2, <1>3, <1>4, FS_Subset
<1> QED
  BY <1>4, <1>5

(* The types, and who can have linked a lock: whatever is judged.          *)
LEMMA ProgressStep ==
  ASSUME TypeOK, ProgressInv, NEW p \in Procs,
         \/ Acquire(p) \/ Start(p)
         \/ ReleaseRead(p) \/ ReleaseUnlink(p) \/ Crash(p)
  PROVE  TypeOK' /\ ProgressInv'
<1> USE LockAssumption DEF TypeOK, ProgressInv, Past, PCs, Calls, Held, Files,
      Names, Goto, fileVars, statVars, history
<1>1. ASSUME Start(p) PROVE TypeOK' /\ ProgressInv'
  BY <1>1 DEF Start
<1>2. ASSUME ListOrphans(p) PROVE TypeOK' /\ ProgressInv'
  BY <1>2 DEF ListOrphans
<1>3. ASSUME SweepOrphan(p) PROVE TypeOK' /\ ProgressInv'
  BY <1>3 DEF SweepOrphan
<1>4. ASSUME SweepEnd(p) PROVE TypeOK' /\ ProgressInv'
  BY <1>4 DEF SweepEnd
<1>5. ASSUME WriteCandidate(p) PROVE TypeOK' /\ ProgressInv'
  BY <1>5 DEF WriteCandidate
<1>6. ASSUME LinkLock(p) PROVE TypeOK' /\ ProgressInv'
  BY <1>6 DEF LinkLock
<1>7. ASSUME DropCandidate(p) PROVE TypeOK' /\ ProgressInv'
  BY <1>7 DEF DropCandidate
<1>8. ASSUME ReadExisting(p) PROVE TypeOK' /\ ProgressInv'
  BY <1>8 DEF ReadExisting, Retry, NextAttempt
<1>9. ASSUME LinkClaim(p) PROVE TypeOK' /\ ProgressInv'
  BY <1>9 DEF LinkClaim, Retry, NextAttempt
<1>10. ASSUME ReadClaim(p) PROVE TypeOK' /\ ProgressInv'
  BY <1>10 DEF ReadClaim
<1>11. ASSUME ReadLockAgain(p) PROVE TypeOK' /\ ProgressInv'
  BY <1>11 DEF ReadLockAgain
<1>12. ASSUME StatClaim(p) PROVE TypeOK' /\ ProgressInv'
  BY <1>12 DEF StatClaim
<1>13. ASSUME StatLock(p) PROVE TypeOK' /\ ProgressInv'
  BY <1>13 DEF StatLock
<1>14. ASSUME JudgeClaim(p) PROVE TypeOK' /\ ProgressInv'
  BY <1>14 DEF JudgeClaim
<1>15. ASSUME UnlinkStale(p) PROVE TypeOK' /\ ProgressInv'
  BY <1>15 DEF UnlinkStale
<1>16. ASSUME GiveUp(p) PROVE TypeOK' /\ ProgressInv'
  BY <1>16 DEF GiveUp
<1>17. ASSUME Unclaim(p) PROVE TypeOK' /\ ProgressInv'
  BY <1>17 DEF Unclaim, Retry, NextAttempt
<1>18. ASSUME ReleaseRead(p) PROVE TypeOK' /\ ProgressInv'
  BY <1>18 DEF ReleaseRead
<1>19. ASSUME ReleaseUnlink(p) PROVE TypeOK' /\ ProgressInv'
  BY <1>19 DEF ReleaseUnlink
<1>20. ASSUME Crash(p) PROVE TypeOK' /\ ProgressInv'
  BY <1>20 DEF Crash
<1> QED
  BY <1>1, <1>2, <1>3, <1>4, <1>5, <1>6, <1>7, <1>8, <1>9, <1>10, <1>11,
     <1>12, <1>13, <1>14, <1>15, <1>16, <1>17, <1>18, <1>19, <1>20
     DEF Acquire

(* A process starts: it owns nothing and judges nothing.                   *)
LEMMA StartSafe ==
  ASSUME NEW p \in Procs, TypeOK, ProgressInv, Intact, Start(p)
  PROVE  Intact'
<1> USE LockAssumption DEF Intact, TypeOK, PCs, Calls, Held, Files, Goto,
      fileVars, statVars, history, Start
<1>1. OwnerKeepsLock'
  BY DEF OwnerKeepsLock, ProgressInv, Past
<1>2. ClaimInv'
  BY DEF ClaimInv, ClaimIsSole
<1>3. SoleInv'
  BY DEF SoleInv, SeenAlone, Judging
<1> QED
  BY <1>1, <1>2, <1>3

(* Listing the directory changes no file.                                  *)
LEMMA ListOrphansSafe ==
  ASSUME NEW p \in Procs, TypeOK, ProgressInv, Intact, ListOrphans(p)
  PROVE  Intact'
<1> USE LockAssumption DEF Intact, TypeOK, PCs, Calls, Held, Files, Goto,
      fileVars, statVars, history, ListOrphans, Names
<1>1. OwnerKeepsLock'
  BY DEF OwnerKeepsLock
<1>2. ClaimInv'
  BY DEF ClaimInv, ClaimIsSole
<1>3. SoleInv'
  BY DEF SoleInv, SeenAlone, Judging
<1> QED
  BY <1>1, <1>2, <1>3

(* Sweeping the names of dead processes leaves the lock and live claims.   *)
LEMMA SweepOrphanSafe ==
  ASSUME NEW p \in Procs, TypeOK, ProgressInv, Intact, SweepOrphan(p)
  PROVE  Intact'
<1> USE LockAssumption DEF Intact, TypeOK, PCs, Calls, Held, Files, Goto,
      fileVars, statVars, history, SweepOrphan, PidIsAlive, Names
<1>1. OwnerKeepsLock'
  BY DEF OwnerKeepsLock
<1>2. ClaimInv'
  BY DEF ClaimInv, ClaimIsSole
<1>3. SoleInv'
  BY DEF SoleInv, SeenAlone, Judging
<1> QED
  BY <1>1, <1>2, <1>3

(* The sweep ends.                                                         *)
LEMMA SweepEndSafe ==
  ASSUME NEW p \in Procs, TypeOK, ProgressInv, Intact, SweepEnd(p)
  PROVE  Intact'
<1> USE LockAssumption DEF Intact, TypeOK, PCs, Calls, Held, Files, Goto,
      fileVars, statVars, history, SweepEnd
<1>1. OwnerKeepsLock'
  BY DEF OwnerKeepsLock
<1>2. ClaimInv'
  BY DEF ClaimInv, ClaimIsSole
<1>3. SoleInv'
  BY DEF SoleInv, SeenAlone, Judging
<1> QED
  BY <1>1, <1>2, <1>3

(* Writing the .create file touches neither lock nor claim.                *)
LEMMA WriteCandidateSafe ==
  ASSUME NEW p \in Procs, TypeOK, ProgressInv, Intact, WriteCandidate(p)
  PROVE  Intact'
<1> USE LockAssumption DEF Intact, TypeOK, PCs, Calls, Held, Files, Goto,
      fileVars, statVars, history, WriteCandidate
<1>1. OwnerKeepsLock'
  BY DEF OwnerKeepsLock
<1>2. ClaimInv'
  BY DEF ClaimInv, ClaimIsSole
<1>3. SoleInv'
  BY DEF SoleInv, SeenAlone, Judging
<1> QED
  BY <1>1, <1>2, <1>3

(* The link that wins a free lock makes its process the owner; no claim    *)
(* names the new file yet, so no claim is sole on it.                      *)
LEMMA LinkLockSafe ==
  ASSUME NEW p \in Procs, TypeOK, ProgressInv, Intact, LinkLock(p)
  PROVE  Intact'
<1> USE LockAssumption DEF Intact, TypeOK, PCs, Calls, Held, Files, Goto,
      fileVars, statVars, history, LinkLock
<1>1. OwnerKeepsLock'
  BY DEF OwnerKeepsLock
<1>2. ClaimInv'
  BY DEF ClaimInv, ClaimIsSole
<1>3. SoleInv'
  BY DEF ProgressInv, Past, ClaimInv, SoleInv, SeenAlone, Judging, ClaimIsSole
<1> QED
  BY <1>1, <1>2, <1>3

(* Unlinking the .create file decides nothing: the link did.               *)
LEMMA DropCandidateSafe ==
  ASSUME NEW p \in Procs, TypeOK, ProgressInv, Intact, DropCandidate(p)
  PROVE  Intact'
<1> USE LockAssumption DEF Intact, TypeOK, PCs, Calls, Held, Files, Goto,
      fileVars, statVars, history, DropCandidate
<1>1. OwnerKeepsLock'
  BY DEF OwnerKeepsLock
<1>2. ClaimInv'
  BY DEF ClaimInv, ClaimIsSole
<1>3. SoleInv'
  BY DEF SoleInv, SeenAlone, Judging
<1> QED
  BY <1>1, <1>2, <1>3

(* The owner read from the lock is dead when the process goes on to        *)
(* claim.                                                                  *)
LEMMA ReadExistingSafe ==
  ASSUME NEW p \in Procs, TypeOK, ProgressInv, Intact, ReadExisting(p)
  PROVE  Intact'
<1> USE LockAssumption DEF Intact, TypeOK, PCs, Calls, Held, Files, Goto,
      fileVars, statVars, history, ReadExisting, PidIsAlive, Retry,
      NextAttempt
<1>1. OwnerKeepsLock'
  BY DEF OwnerKeepsLock
<1>2. ClaimInv'
  BY DEF ProgressInv, Past, ClaimInv, ClaimIsSole
<1>3. SoleInv'
  BY DEF SoleInv, SeenAlone, Judging
<1> QED
  BY <1>1, <1>2, <1>3

(* The claim names the file the lock names.                                *)
LEMMA LinkClaimSafe ==
  ASSUME NEW p \in Procs, TypeOK, ProgressInv, Intact, LinkClaim(p)
  PROVE  Intact'
<1> USE LockAssumption DEF Intact, TypeOK, PCs, Calls, Held, Files, Goto,
      fileVars, statVars, history, LinkClaim, Retry, NextAttempt
<1>1. OwnerKeepsLock'
  BY DEF OwnerKeepsLock
<1>2. ClaimInv'
  BY DEF ClaimInv, ClaimIsSole
<1>3. SoleInv'
  BY DEF SoleInv, SeenAlone, Judging
<1> QED
  BY <1>1, <1>2, <1>3

(* Reading the claim changes no file.                                      *)
LEMMA ReadClaimSafe ==
  ASSUME NEW p \in Procs, TypeOK, ProgressInv, Intact, ReadClaim(p)
  PROVE  Intact'
<1> USE LockAssumption DEF Intact, TypeOK, PCs, Calls, Held, Files, Goto,
      fileVars, statVars, history, ReadClaim
<1>1. OwnerKeepsLock'
  BY DEF OwnerKeepsLock
<1>2. ClaimInv'
  BY DEF ClaimInv, ClaimIsSole
<1>3. SoleInv'
  BY DEF SoleInv, SeenAlone, Judging
<1> QED
  BY <1>1, <1>2, <1>3

(* Only a claim on the file of the dead owner goes on to the stats.        *)
LEMMA ReadLockAgainSafe ==
  ASSUME NEW p \in Procs, TypeOK, ProgressInv, Intact, ReadLockAgain(p)
  PROVE  Intact'
<1> USE LockAssumption DEF Intact, TypeOK, PCs, Calls, Held, Files, Goto,
      fileVars, statVars, history, ReadLockAgain
<1>1. OwnerKeepsLock'
  BY DEF OwnerKeepsLock
<1>2. ClaimInv'
  BY DEF ClaimInv, ClaimIsSole
<1>3. SoleInv'
  BY DEF SoleInv, SeenAlone, Judging
<1> QED
  BY <1>1, <1>2, <1>3

(* A claim that counts two links is the only one on the current lock.      *)
LEMMA StatClaimSafe ==
  ASSUME NEW p \in Procs, TypeOK, ProgressInv, Intact, StatClaim(p)
  PROVE  Intact'
<1> USE LockAssumption DEF Intact, TypeOK, PCs, Calls, Held, Files, Goto,
      fileVars, statVars, history, StatClaim
<1>1. OwnerKeepsLock'
  BY DEF OwnerKeepsLock
<1>2. ClaimInv'
  BY DEF ClaimInv, ClaimIsSole
<1>3. SoleInv'
  <2>1. lock' = lock /\ claim' = claim /\ lockStat' = lockStat
    OBVIOUS
  <2>2. \A q \in Procs \ {p} : SeenAlone(q)' <=> SeenAlone(q)
    BY DEF SeenAlone, Judging
  <2>3. ASSUME SeenAlone(p)', claim[p] = lock, NEW q \in Procs, claim[q] = lock
        PROVE  q = p
    <3>1. LinkCount(lock) = 2
      BY <2>3 DEF SeenAlone
    <3> QED
      BY <3>1, <2>3, SoleClaimant
  <2>4. SeenAlone(p)' /\ lockStat[p] = "same" => SeenAlone(p)
    BY DEF SeenAlone, Judging
  <2> QED
    BY <2>1, <2>2, <2>3, <2>4 DEF SoleInv
<1> QED
  BY <1>1, <1>2, <1>3

(* The second stat compares the claim with the current lock.               *)
LEMMA StatLockSafe ==
  ASSUME NEW p \in Procs, TypeOK, ProgressInv, Intact, StatLock(p)
  PROVE  Intact'
<1> USE LockAssumption DEF Intact, TypeOK, PCs, Calls, Held, Files, Goto,
      fileVars, statVars, history, StatLock
<1>1. OwnerKeepsLock'
  BY DEF OwnerKeepsLock
<1>2. ClaimInv'
  BY DEF ClaimInv, ClaimIsSole
<1>3. SoleInv'
  <2>1. lock' = lock /\ claim' = claim
    OBVIOUS
  <2>2. \A q \in Procs \ {p} :
          (SeenAlone(q)' <=> SeenAlone(q)) /\ lockStat'[q] = lockStat[q]
    BY DEF SeenAlone, Judging
  <2>3. ASSUME SeenAlone(p)', claim[p] = lock, NEW q \in Procs,
               claim[q] = lock, SeenAlone(q)
        PROVE  q = p
    <3>1. CASE claimStat[p] = "sole"
      BY <2>3, <3>1 DEF SeenAlone, Judging, SoleInv, ClaimInv
    <3>2. CASE claimStat[p] = "none"
      <4>1. LinkCount(lock) = 2
        BY <2>3, <3>2 DEF SeenAlone
      <4> QED
        BY <4>1, <2>3, SoleClaimant
    <3> QED
      BY <2>3, <3>1, <3>2 DEF SeenAlone
  <2>4. lockStat'[p] = "same" => lock = claim[p]
    OBVIOUS
  <2> QED
    BY <2>1, <2>2, <2>3, <2>4 DEF SoleInv
<1> QED
  BY <1>1, <1>2, <1>3

(* Only the sole claimant goes on to unlink.                               *)
LEMMA JudgeClaimSafe ==
  ASSUME NEW p \in Procs, TypeOK, ProgressInv, Intact, JudgeClaim(p)
  PROVE  raced' \/ Intact'
<1> SUFFICES ASSUME ~raced' PROVE Intact'
  BY DEF TypeOK, JudgeClaim
<1> USE LockAssumption DEF Intact, TypeOK, PCs, Calls, Held, Files, Goto,
      fileVars, statVars, history, JudgeClaim
<1>1. OwnerKeepsLock'
  BY DEF OwnerKeepsLock
<1>2. ClaimInv'
  <2>1. pc'[p] = "unlinkStale" => ClaimIsSole(p)' /\ p \notin early'
    BY DEF ClaimIsSole
  <2> QED
    BY <2>1 DEF ClaimInv, ClaimIsSole
<1>3. SoleInv'
  BY DEF SoleInv, SeenAlone, Judging, ClaimIsSole
<1> QED
  BY <1>1, <1>2, <1>3

(* The sole claimant unlinks the lock of a dead owner, nobody else's.      *)
LEMMA UnlinkStaleSafe ==
  ASSUME NEW p \in Procs, TypeOK, ProgressInv, Intact, UnlinkStale(p)
  PROVE  Intact'
<1> USE LockAssumption DEF Intact, TypeOK, PCs, Calls, Held, Files, Goto,
      fileVars, statVars, history, UnlinkStale
<1>0. /\ SeenAlone(p) /\ lock = claim[p] /\ claim[p] = seen[p]
      /\ seen[p] \in Procs /\ pc[seen[p]] = "crashed"
  <2>1. /\ SeenAlone(p) /\ lockStat[p] = "same" /\ claim[p] = seen[p]
        /\ seen[p] \in Procs /\ pc[seen[p]] = "crashed"
    BY DEF ProgressInv, ClaimInv, ClaimIsSole, SeenAlone, Judging
  <2> QED
    BY <2>1 DEF SoleInv
<1>1. OwnerKeepsLock'
  <2>1. lock \notin alive
    BY <1>0 DEF ProgressInv
  <2> QED
    BY <2>1 DEF OwnerKeepsLock
<1>2. ClaimInv'
  BY DEF ClaimInv, ClaimIsSole
<1>3. SoleInv'
  <2>1. \A q \in Procs : SeenAlone(q)' => SeenAlone(q) /\ q # p
    BY DEF SeenAlone, Judging
  <2>2. \A q \in Procs : SeenAlone(q) => claim[q] # NoProc
    BY DEF SeenAlone, Judging, ClaimInv
  <2>3. \A q \in Procs : SeenAlone(q) /\ lockStat[q] = "same" => q = p
    BY <1>0 DEF SoleInv
  <2> QED
    BY <2>1, <2>2, <2>3 DEF SoleInv
<1> QED
  BY <1>1, <1>2, <1>3

(* Removing the claim after a failed unlink leaves the lock.               *)
LEMMA GiveUpSafe ==
  ASSUME NEW p \in Procs, TypeOK, ProgressInv, Intact, GiveUp(p)
  PROVE  Intact'
<1> USE LockAssumption DEF Intact, TypeOK, PCs, Calls, Held, Files, Goto,
      fileVars, statVars, history, GiveUp
<1>1. OwnerKeepsLock'
  BY DEF OwnerKeepsLock
<1>2. ClaimInv'
  BY DEF ClaimInv, ClaimIsSole
<1>3. SoleInv'
  BY DEF SoleInv, SeenAlone, Judging
<1> QED
  BY <1>1, <1>2, <1>3

(* Removing the claim leaves the lock.                                     *)
LEMMA UnclaimSafe ==
  ASSUME NEW p \in Procs, TypeOK, ProgressInv, Intact, Unclaim(p)
  PROVE  Intact'
<1> USE LockAssumption DEF Intact, TypeOK, PCs, Calls, Held, Files, Goto,
      fileVars, statVars, history, Unclaim, Retry, NextAttempt
<1>1. OwnerKeepsLock'
  BY DEF OwnerKeepsLock
<1>2. ClaimInv'
  BY DEF ClaimInv, ClaimIsSole
<1>3. SoleInv'
  BY DEF SoleInv, SeenAlone, Judging
<1> QED
  BY <1>1, <1>2, <1>3

(* The owner finds its own token.                                          *)
LEMMA ReleaseReadSafe ==
  ASSUME NEW p \in Procs, TypeOK, ProgressInv, Intact, ReleaseRead(p)
  PROVE  Intact'
<1> USE LockAssumption DEF Intact, TypeOK, PCs, Calls, Held, Files, Goto,
      fileVars, statVars, history, ReleaseRead
<1>1. OwnerKeepsLock'
  BY DEF OwnerKeepsLock
<1>2. ClaimInv'
  BY DEF ClaimInv, ClaimIsSole
<1>3. SoleInv'
  BY DEF SoleInv, SeenAlone, Judging
<1> QED
  BY <1>1, <1>2, <1>3

(* The release removes the releasing owner's own lock.                     *)
LEMMA ReleaseUnlinkSafe ==
  ASSUME NEW p \in Procs, TypeOK, ProgressInv, Intact, ReleaseUnlink(p)
  PROVE  Intact'
<1> USE LockAssumption DEF Intact, TypeOK, PCs, Calls, Held, Files, Goto,
      fileVars, statVars, history, ReleaseUnlink
<1>1. OwnerKeepsLock'
  BY DEF OwnerKeepsLock, ProgressInv
<1>2. ClaimInv'
  BY DEF ClaimInv, ClaimIsSole
<1>3. SoleInv'
  BY DEF OwnerKeepsLock, ProgressInv, ClaimInv, SoleInv, SeenAlone, Judging,
         ClaimIsSole
<1> QED
  BY <1>1, <1>2, <1>3

(* A process that dies leaves its files behind and stops judging.          *)
LEMMA CrashSafe ==
  ASSUME NEW p \in Procs, TypeOK, ProgressInv, Intact, Crash(p)
  PROVE  Intact'
<1> USE LockAssumption DEF Intact, TypeOK, PCs, Calls, Held, Files, Goto,
      fileVars, statVars, history, Crash
<1>1. OwnerKeepsLock'
  BY DEF OwnerKeepsLock
<1>2. ClaimInv'
  BY DEF ClaimInv, ClaimIsSole
<1>3. SoleInv'
  BY DEF SoleInv, SeenAlone, Judging
<1> QED
  BY <1>1, <1>2, <1>3

(* When the model begins no process runs and no claim exists.              *)
LEMMA LockInitSafe == Init => LockInv
<1> SUFFICES ASSUME Init PROVE LockInv
  OBVIOUS
<1> USE LockAssumption DEF Init, PCs, Calls, Held, Files
<1>1. TypeOK
  BY DEF TypeOK
<1>2. Intact
  BY DEF Intact, OwnerKeepsLock, ClaimInv, SoleInv, SeenAlone, Judging
<1>3. ProgressInv
  BY DEF ProgressInv, Past
<1> QED
  BY <1>1, <1>2, <1>3 DEF LockInv

(* The next-state relation preserves the invariant.                        *)
LEMMA LockNextSafe == LockInv /\ [Next]_vars => LockInv'
<1> SUFFICES ASSUME LockInv, [Next]_vars PROVE LockInv'
  OBVIOUS
<1>1. ASSUME NEW p \in Procs,
             \/ Acquire(p) \/ Start(p)
             \/ ReleaseRead(p) \/ ReleaseUnlink(p) \/ Crash(p)
      PROVE  LockInv'
  <2>1. TypeOK' /\ ProgressInv'
    BY <1>1, ProgressStep DEF LockInv
  <2>2. CASE raced
    <3>1. raced'
      BY <1>1, <2>2
         DEF Acquire, history, Start, ReleaseRead, ReleaseUnlink, Crash,
             ListOrphans, SweepOrphan, SweepEnd, WriteCandidate,
             LinkLock, DropCandidate, ReadExisting, LinkClaim, ReadClaim,
             ReadLockAgain, StatClaim, StatLock, JudgeClaim, UnlinkStale,
             GiveUp, Unclaim
    <3> QED
      BY <2>1, <3>1 DEF LockInv
  <2>3. CASE TypeOK /\ ProgressInv /\ Intact
    <3>1. ASSUME Acquire(p) PROVE raced' \/ Intact'
      BY <2>3, <3>1, ListOrphansSafe, SweepOrphanSafe, SweepEndSafe,
         WriteCandidateSafe, LinkLockSafe, DropCandidateSafe,
         ReadExistingSafe, LinkClaimSafe, ReadClaimSafe, ReadLockAgainSafe,
         StatClaimSafe, StatLockSafe, JudgeClaimSafe, UnlinkStaleSafe,
         GiveUpSafe, UnclaimSafe DEF Acquire
    <3>2. ASSUME Start(p) \/ ReleaseRead(p) \/ ReleaseUnlink(p) \/ Crash(p)
          PROVE  Intact'
      BY <2>3, <3>2, StartSafe, ReleaseReadSafe, ReleaseUnlinkSafe, CrashSafe
    <3> QED
      BY <1>1, <2>1, <3>1, <3>2 DEF LockInv
  <2> QED
    BY <2>2, <2>3 DEF LockInv
<1>2. ASSUME UNCHANGED vars PROVE LockInv'
  <2> USE <1>2 DEF vars, fileVars, statVars, history
  <2>1. TypeOK' /\ ProgressInv'
    BY DEF LockInv, TypeOK, ProgressInv, Past
  <2>2. Intact => Intact'
    BY DEF Intact, OwnerKeepsLock, ClaimInv, ClaimIsSole, SoleInv, SeenAlone,
           Judging
  <2> QED
    BY <2>1, <2>2 DEF LockInv
<1> QED
  BY <1>1, <1>2 DEF Next

-----------------------------------------------------------------------------

(* LockInv holds in every reachable state: the induction the theorems      *)
(* below rest on.                                                          *)
THEOREM LockInvariant == Spec => []LockInv
<1> QED
  BY LockInitSafe, LockNextSafe, PTL DEF Spec

(* Two processes hold the lock of one state directory together only if the *)
(* race was run: both would have won it, and the canonical path names the  *)
(* file of each.                                                           *)
THEOREM LockExclusion == Spec => []OnlyTheRaceBreaksExclusion
<1>1. LockInv => OnlyTheRaceBreaksExclusion
  <2> SUFFICES ASSUME LockInv, ~raced, NEW p \in Holders, NEW q \in Holders
               PROVE  p = q
    BY DEF OnlyTheRaceBreaksExclusion, MutualExclusion
  <2>1. /\ p \in alive /\ p \in won /\ pc[p] # "done"
        /\ q \in alive /\ q \in won /\ pc[q] # "done"
    BY DEF Holders, LockInv, TypeOK, ProgressInv, Held
  <2> QED
    BY <2>1 DEF LockInv, Intact, OwnerKeepsLock
<1> QED
  BY <1>1, LockInvariant, PTL

(* Unless the race was run, the lock of a live owner stays in place until  *)
(* the owner releases it.                                                  *)
THEOREM LockStays == Spec => [](raced \/ OwnerKeepsLock)
<1>1. LockInv => raced \/ OwnerKeepsLock
  BY DEF LockInv, Intact
<1> QED
  BY <1>1, LockInvariant, PTL

(* Unless the race was run, a claimant about to unlink the lock unlinks    *)
(* the file it claimed, and its owner is dead.                             *)
THEOREM LockReclaimsStale == Spec => [](raced \/ OnlyStaleIsUnlinked)
<1>1. LockInv => raced \/ OnlyStaleIsUnlinked
  <2> SUFFICES ASSUME LockInv, ~raced, NEW p \in alive, pc[p] = "unlinkStale"
               PROVE  lock = claim[p] /\ lock \notin alive
    BY DEF OnlyStaleIsUnlinked
  <2>1. /\ p \in Procs /\ SeenAlone(p)
        /\ lockStat[p] = "same" /\ claim[p] = seen[p]
    BY DEF LockInv, TypeOK, Intact, ClaimInv, ClaimIsSole, SeenAlone, Judging
  <2>2. lock = claim[p]
    BY <2>1 DEF LockInv, Intact, SoleInv
  <2>3. seen[p] \in Procs /\ pc[seen[p]] = "crashed"
    BY DEF LockInv, Intact, ClaimInv
  <2> QED
    BY <2>1, <2>2, <2>3 DEF LockInv, ProgressInv
<1> QED
  BY <1>1, LockInvariant, PTL

-----------------------------------------------------------------------------
(* A process that runs alone, whatever the order of the stat calls.        *)

\* Whose files are there: a claim is held only between its link and its
\* removal, a .create file only around the link of the lock, and who has
\* released the lock does not have it again.
FilesInv ==
  \A q \in Procs :
    /\ pc[q] \in {"idle", "list", "sweep", "read", "claim", "done", "failed"}
                   \cup Held => claim[q] = NoProc
    /\ q \in cand => pc[q] \in {"link", "drop", "crashed"}
    /\ pc[q] = "done" => lock # q

\* A process that runs alone: the sweep takes every name another process left
\* before the first link is tried, so the lock is free, its own or stale, and
\* the process's claim on a stale lock is the only one.
Lone(p) ==
  /\ \A q \in alive \ {p} : pc[q] \in {"done", "failed"}
  /\ pc[p] = "sweep" =>
       \A q \in Procs :
         /\ q \in cand => <<"create", q>> \in orphans[p]
         /\ claim[q] # NoProc => <<"reclaim", q>> \in orphans[p]
  /\ pc[p] \notin {"list", "sweep"} =>
       \A q \in Procs \ {p} : q \notin cand /\ claim[q] = NoProc
  /\ pc[p] \in {"candidate", "link"} /\ claim[p] # NoProc => lock = NoProc
  /\ pc[p] = "drop" => p \in won \/ (lock # NoProc /\ claim[p] = NoProc)
  /\ pc[p] \in {"read", "claim"} => lock # NoProc
  /\ pc[p] = "claim" => lock = seen[p]
  /\ pc[p] \in {"readClaim", "readLock", "stat", "unlinkStale"} =>
       claim[p] = lock /\ lock = seen[p] /\ lock # NoProc
  /\ pc[p] = "stat" => claimStat[p] # "shared" /\ lockStat[p] # "other"
  /\ pc[p] = "unclaim" => p \in won
  /\ pc[p] \notin {"giveUp", "failed"}

SoloInv == \A p \in solo : pc[p] # "crashed" => Lone(p)

LoneInv == TypeOK /\ ProgressInv /\ FilesInv /\ SoloInv

(* Only a process that runs alone acts while it does.                      *)
LEMMA OnlyTheLoneActs ==
  ASSUME LoneInv, NEW p \in Procs, NEW s \in solo, pc[s] # "crashed",
         pc[p] \in Calls \cup Held
  PROVE  s = p /\ Lone(p)
<1>1. p \in alive /\ Lone(s)
  BY DEF LoneInv, ProgressInv, SoloInv, Calls, Held
<1>2. s # p => pc[p] \in {"done", "failed"}
  BY <1>1 DEF Lone
<1> QED
  BY <1>1, <1>2 DEF Calls, Held

(* Listing the directory finds every name there is.                        *)
LEMMA ListOrphansLone ==
  ASSUME NEW p \in Procs, LoneInv, ListOrphans(p)
  PROVE  LoneInv'
<1> USE LockAssumption DEF LoneInv, TypeOK, PCs, Calls, Held, Files, Goto,
      fileVars, statVars, history, ListOrphans, Names
<1>1. TypeOK' /\ ProgressInv'
  BY ProgressStep DEF Acquire
<1>2. FilesInv'
  BY DEF FilesInv, ProgressInv, Past
<1>3. SoloInv'
  <2> SUFFICES ASSUME NEW s \in solo, pc'[s] # "crashed" PROVE Lone(s)'
    BY DEF SoloInv
  <2>1. s = p /\ Lone(p)
    BY OnlyTheLoneActs
  <2> QED
    BY <2>1 DEF Lone, FilesInv
<1> QED
  BY <1>1, <1>2, <1>3

(* A name that stays after its turn is of nobody who left one.             *)
LEMMA SweepOrphanLone ==
  ASSUME NEW p \in Procs, LoneInv, SweepOrphan(p)
  PROVE  LoneInv'
<1> USE LockAssumption DEF LoneInv, TypeOK, PCs, Calls, Held, Files, Goto,
      fileVars, statVars, history, SweepOrphan, Names, PidIsAlive
<1>1. TypeOK' /\ ProgressInv'
  BY ProgressStep DEF Acquire
<1>2. FilesInv'
  BY DEF FilesInv, ProgressInv, Past
<1>3. SoloInv'
  <2> SUFFICES ASSUME NEW s \in solo, pc[s] # "crashed" PROVE Lone(s)'
    BY DEF SoloInv
  <2>1. s = p /\ Lone(p)
    BY OnlyTheLoneActs
  <2>2. PICK n \in orphans[p] :
          /\ orphans' = [orphans EXCEPT ![p] = @ \ {n}]
          /\ cand' = IF n[1] = "create" /\ n[2] \notin alive
                       THEN cand \ {n[2]} ELSE cand
          /\ claim' = IF n[1] = "reclaim" /\ n[2] \notin alive
                        THEN [claim EXCEPT ![n[2]] = NoProc] ELSE claim
    OBVIOUS
  <2>3. n \in Names /\ n = <<n[1], n[2]>> /\ n[2] \in Procs
    BY <2>2
  <2>4. n[2] \in alive => n[2] \notin cand /\ claim[n[2]] = NoProc
    BY <2>1, <2>3 DEF Lone, FilesInv
  <2>5. n[2] \notin cand' \/ n[1] = "reclaim"
    BY <2>2, <2>3, <2>4
  <2>6. claim'[n[2]] = NoProc \/ n[1] = "create"
    BY <2>2, <2>3, <2>4
  <2>7. ASSUME NEW q \in Procs
        PROVE  /\ q \in cand' => <<"create", q>> \in orphans'[p]
               /\ claim'[q] # NoProc => <<"reclaim", q>> \in orphans'[p]
    <3>1. /\ q \in cand => <<"create", q>> \in orphans[p]
          /\ claim[q] # NoProc => <<"reclaim", q>> \in orphans[p]
      BY <2>1 DEF Lone
    <3>2. q \in cand' => q \in cand
      BY <2>2
    <3>3. claim'[q] # NoProc => claim[q] # NoProc
      BY <2>2, <2>3
    <3>4. <<"create", q>> = n => q \notin cand'
      BY <2>5
    <3>5. <<"reclaim", q>> = n => claim'[q] = NoProc
      BY <2>6
    <3> QED
      BY <2>2, <3>1, <3>2, <3>3, <3>4, <3>5
  <2> QED
    BY <2>1, <2>7 DEF Lone
<1> QED
  BY <1>1, <1>2, <1>3

(* Nothing is left when the sweep ends.                                    *)
LEMMA SweepEndLone ==
  ASSUME NEW p \in Procs, LoneInv, SweepEnd(p)
  PROVE  LoneInv'
<1> USE LockAssumption DEF LoneInv, TypeOK, PCs, Calls, Held, Files, Goto,
      fileVars, statVars, history, SweepEnd, Names
<1>1. TypeOK' /\ ProgressInv'
  BY ProgressStep DEF Acquire
<1>2. FilesInv'
  BY DEF FilesInv, ProgressInv, Past
<1>3. SoloInv'
  <2> SUFFICES ASSUME NEW s \in solo, pc'[s] # "crashed" PROVE Lone(s)'
    BY DEF SoloInv
  <2>1. s = p /\ Lone(p)
    BY OnlyTheLoneActs
  <2> QED
    BY <2>1 DEF Lone, FilesInv
<1> QED
  BY <1>1, <1>2, <1>3

(* The .create file is the process's own.                                  *)
LEMMA WriteCandidateLone ==
  ASSUME NEW p \in Procs, LoneInv, WriteCandidate(p)
  PROVE  LoneInv'
<1> USE LockAssumption DEF LoneInv, TypeOK, PCs, Calls, Held, Files, Goto,
      fileVars, statVars, history, WriteCandidate
<1>1. TypeOK' /\ ProgressInv'
  BY ProgressStep DEF Acquire
<1>2. FilesInv'
  BY DEF FilesInv, ProgressInv, Past
<1>3. SoloInv'
  <2> SUFFICES ASSUME NEW s \in solo, pc'[s] # "crashed" PROVE Lone(s)'
    BY DEF SoloInv
  <2>1. s = p /\ Lone(p)
    BY OnlyTheLoneActs
  <2> QED
    BY <2>1 DEF Lone, FilesInv
<1> QED
  BY <1>1, <1>2, <1>3

(* The link finds the lock free, or somebody's file.                       *)
LEMMA LinkLockLone ==
  ASSUME NEW p \in Procs, LoneInv, LinkLock(p)
  PROVE  LoneInv'
<1> USE LockAssumption DEF LoneInv, TypeOK, PCs, Calls, Held, Files, Goto,
      fileVars, statVars, history, LinkLock
<1>1. TypeOK' /\ ProgressInv'
  BY ProgressStep DEF Acquire
<1>2. FilesInv'
  BY DEF FilesInv, ProgressInv, Past
<1>3. SoloInv'
  <2> SUFFICES ASSUME NEW s \in solo, pc'[s] # "crashed" PROVE Lone(s)'
    BY DEF SoloInv
  <2>1. s = p /\ Lone(p)
    BY OnlyTheLoneActs
  <2> QED
    BY <2>1 DEF Lone, FilesInv
<1> QED
  BY <1>1, <1>2, <1>3

(* Who won owns the lock, or gives up its claim first.                     *)
LEMMA DropCandidateLone ==
  ASSUME NEW p \in Procs, LoneInv, DropCandidate(p)
  PROVE  LoneInv'
<1> USE LockAssumption DEF LoneInv, TypeOK, PCs, Calls, Held, Files, Goto,
      fileVars, statVars, history, DropCandidate
<1>1. TypeOK' /\ ProgressInv'
  BY ProgressStep DEF Acquire
<1>2. FilesInv'
  BY DEF FilesInv, ProgressInv, Past
<1>3. SoloInv'
  <2> SUFFICES ASSUME NEW s \in solo, pc'[s] # "crashed" PROVE Lone(s)'
    BY DEF SoloInv
  <2>1. s = p /\ Lone(p)
    BY OnlyTheLoneActs
  <2> QED
    BY <2>1 DEF Lone, FilesInv
<1> QED
  BY <1>1, <1>2, <1>3

(* The lock that is there belongs to a dead process.                       *)
LEMMA ReadExistingLone ==
  ASSUME NEW p \in Procs, LoneInv, ReadExisting(p)
  PROVE  LoneInv'
<1> USE LockAssumption DEF LoneInv, TypeOK, PCs, Calls, Held, Files, Goto,
      fileVars, statVars, history, ReadExisting, Retry, NextAttempt, PidIsAlive
<1>1. TypeOK' /\ ProgressInv'
  BY ProgressStep DEF Acquire
<1>2. FilesInv'
  BY DEF FilesInv, ProgressInv, Past
<1>3. SoloInv'
  <2> SUFFICES ASSUME NEW s \in solo, pc'[s] # "crashed" PROVE Lone(s)'
    BY DEF SoloInv
  <2>1. s = p /\ Lone(p)
    BY OnlyTheLoneActs
  <2>2. lock # NoProc /\ lock \in Procs
    BY <2>1 DEF Lone
  <2>3. lock \notin alive
    <3>1. ASSUME lock \in alive PROVE FALSE
      <4>1. lock \in won /\ pc[lock] \notin {"read", "failed"}
        BY <2>2, <3>1 DEF ProgressInv, Past
      <4>2. pc[lock] = "done"
        BY <2>1, <3>1, <4>1 DEF Lone
      <4> QED
        BY <2>2, <4>2 DEF FilesInv
    <3> QED
      BY <3>1
  <2> QED
    BY <2>1, <2>2, <2>3 DEF Lone, FilesInv
<1> QED
  BY <1>1, <1>2, <1>3

(* The claim is on the lock that was read.                                 *)
LEMMA LinkClaimLone ==
  ASSUME NEW p \in Procs, LoneInv, LinkClaim(p)
  PROVE  LoneInv'
<1> USE LockAssumption DEF LoneInv, TypeOK, PCs, Calls, Held, Files, Goto,
      fileVars, statVars, history, LinkClaim, Retry, NextAttempt
<1>1. TypeOK' /\ ProgressInv'
  BY ProgressStep DEF Acquire
<1>2. FilesInv'
  BY DEF FilesInv, ProgressInv, Past
<1>3. SoloInv'
  <2> SUFFICES ASSUME NEW s \in solo, pc'[s] # "crashed" PROVE Lone(s)'
    BY DEF SoloInv
  <2>1. s = p /\ Lone(p)
    BY OnlyTheLoneActs
  <2> QED
    BY <2>1 DEF Lone, FilesInv
<1> QED
  BY <1>1, <1>2, <1>3

(* Reading the claim changes no file.                                      *)
LEMMA ReadClaimLone ==
  ASSUME NEW p \in Procs, LoneInv, ReadClaim(p)
  PROVE  LoneInv'
<1> USE LockAssumption DEF LoneInv, TypeOK, PCs, Calls, Held, Files, Goto,
      fileVars, statVars, history, ReadClaim
<1>1. TypeOK' /\ ProgressInv'
  BY ProgressStep DEF Acquire
<1>2. FilesInv'
  BY DEF FilesInv, ProgressInv, Past
<1>3. SoloInv'
  <2> SUFFICES ASSUME NEW s \in solo, pc'[s] # "crashed" PROVE Lone(s)'
    BY DEF SoloInv
  <2>1. s = p /\ Lone(p)
    BY OnlyTheLoneActs
  <2> QED
    BY <2>1 DEF Lone, FilesInv
<1> QED
  BY <1>1, <1>2, <1>3

(* The lock is still the one that was read.                                *)
LEMMA ReadLockAgainLone ==
  ASSUME NEW p \in Procs, LoneInv, ReadLockAgain(p)
  PROVE  LoneInv'
<1> USE LockAssumption DEF LoneInv, TypeOK, PCs, Calls, Held, Files, Goto,
      fileVars, statVars, history, ReadLockAgain
<1>1. TypeOK' /\ ProgressInv'
  BY ProgressStep DEF Acquire
<1>2. FilesInv'
  BY DEF FilesInv, ProgressInv, Past
<1>3. SoloInv'
  <2> SUFFICES ASSUME NEW s \in solo, pc'[s] # "crashed" PROVE Lone(s)'
    BY DEF SoloInv
  <2>1. s = p /\ Lone(p)
    BY OnlyTheLoneActs
  <2> QED
    BY <2>1 DEF Lone, FilesInv
<1> QED
  BY <1>1, <1>2, <1>3

(* The only claim counts two links.                                        *)
LEMMA StatClaimLone ==
  ASSUME NEW p \in Procs, LoneInv, StatClaim(p)
  PROVE  LoneInv'
<1> USE LockAssumption DEF LoneInv, TypeOK, PCs, Calls, Held, Files, Goto,
      fileVars, statVars, history, StatClaim
<1>1. TypeOK' /\ ProgressInv'
  BY ProgressStep DEF Acquire
<1>2. FilesInv'
  BY DEF FilesInv, ProgressInv, Past
<1>3. SoloInv'
  <2> SUFFICES ASSUME NEW s \in solo, pc[s] # "crashed" PROVE Lone(s)'
    BY DEF SoloInv
  <2>1. s = p /\ Lone(p)
    BY OnlyTheLoneActs
  <2>2. claim[p] = lock /\ lock # NoProc
    BY <2>1 DEF Lone
  <2>3. Claimants(lock) = {p}
    BY <2>1, <2>2 DEF Claimants, Lone
  <2>4. lock \notin cand
    BY <2>1 DEF Lone, FilesInv
  <2>5. LinkCount(claim[p]) = 2
    <3>1. Cardinality({p}) = 1
      BY FS_Singleton
    <3> QED
      BY <2>2, <2>3, <2>4, <3>1 DEF LinkCount
  <2> QED
    BY <2>1, <2>5 DEF Lone
<1> QED
  BY <1>1, <1>2, <1>3

(* The lock is still the file claimed.                                     *)
LEMMA StatLockLone ==
  ASSUME NEW p \in Procs, LoneInv, StatLock(p)
  PROVE  LoneInv'
<1> USE LockAssumption DEF LoneInv, TypeOK, PCs, Calls, Held, Files, Goto,
      fileVars, statVars, history, StatLock
<1>1. TypeOK' /\ ProgressInv'
  BY ProgressStep DEF Acquire
<1>2. FilesInv'
  BY DEF FilesInv, ProgressInv, Past
<1>3. SoloInv'
  <2> SUFFICES ASSUME NEW s \in solo, pc'[s] # "crashed" PROVE Lone(s)'
    BY DEF SoloInv
  <2>1. s = p /\ Lone(p)
    BY OnlyTheLoneActs
  <2> QED
    BY <2>1 DEF Lone, FilesInv
<1> QED
  BY <1>1, <1>2, <1>3

(* The claim is the only one.                                              *)
LEMMA JudgeClaimLone ==
  ASSUME NEW p \in Procs, LoneInv, JudgeClaim(p)
  PROVE  LoneInv'
<1> USE LockAssumption DEF LoneInv, TypeOK, PCs, Calls, Held, Files, Goto,
      fileVars, statVars, history, JudgeClaim, ClaimIsSole
<1>1. TypeOK' /\ ProgressInv'
  BY ProgressStep DEF Acquire
<1>2. FilesInv'
  BY DEF FilesInv, ProgressInv, Past
<1>3. SoloInv'
  <2> SUFFICES ASSUME NEW s \in solo, pc'[s] # "crashed" PROVE Lone(s)'
    BY DEF SoloInv
  <2>1. s = p /\ Lone(p)
    BY OnlyTheLoneActs
  <2> QED
    BY <2>1 DEF Lone, FilesInv
<1> QED
  BY <1>1, <1>2, <1>3

(* The lock is free for the link.                                          *)
LEMMA UnlinkStaleLone ==
  ASSUME NEW p \in Procs, LoneInv, UnlinkStale(p)
  PROVE  LoneInv'
<1> USE LockAssumption DEF LoneInv, TypeOK, PCs, Calls, Held, Files, Goto,
      fileVars, statVars, history, UnlinkStale
<1>1. TypeOK' /\ ProgressInv'
  BY ProgressStep DEF Acquire
<1>2. FilesInv'
  BY DEF FilesInv, ProgressInv, Past
<1>3. SoloInv'
  <2> SUFFICES ASSUME NEW s \in solo, pc'[s] # "crashed" PROVE Lone(s)'
    BY DEF SoloInv
  <2>1. s = p /\ Lone(p)
    BY OnlyTheLoneActs
  <2> QED
    BY <2>1 DEF Lone, FilesInv
<1> QED
  BY <1>1, <1>2, <1>3

(* A process that runs alone finds the lock it unlinks.                    *)
LEMMA GiveUpLone ==
  ASSUME NEW p \in Procs, LoneInv, GiveUp(p)
  PROVE  LoneInv'
<1> USE LockAssumption DEF LoneInv, TypeOK, PCs, Calls, Held, Files, Goto,
      fileVars, statVars, history, GiveUp
<1>1. TypeOK' /\ ProgressInv'
  BY ProgressStep DEF Acquire
<1>2. FilesInv'
  BY DEF FilesInv, ProgressInv, Past
<1>3. SoloInv'
  <2> SUFFICES ASSUME NEW s \in solo, pc'[s] # "crashed" PROVE Lone(s)'
    BY DEF SoloInv
  <2>1. s = p /\ Lone(p)
    BY OnlyTheLoneActs
  <2> QED
    BY <2>1 DEF Lone, FilesInv
<1> QED
  BY <1>1, <1>2, <1>3

(* The lock was won.                                                       *)
LEMMA UnclaimLone ==
  ASSUME NEW p \in Procs, LoneInv, Unclaim(p)
  PROVE  LoneInv'
<1> USE LockAssumption DEF LoneInv, TypeOK, PCs, Calls, Held, Files, Goto,
      fileVars, statVars, history, Unclaim, Retry, NextAttempt
<1>1. TypeOK' /\ ProgressInv'
  BY ProgressStep DEF Acquire
<1>2. FilesInv'
  BY DEF FilesInv, ProgressInv, Past
<1>3. SoloInv'
  <2> SUFFICES ASSUME NEW s \in solo, pc'[s] # "crashed" PROVE Lone(s)'
    BY DEF SoloInv
  <2>1. s = p /\ Lone(p)
    BY OnlyTheLoneActs
  <2> QED
    BY <2>1 DEF Lone, FilesInv
<1> QED
  BY <1>1, <1>2, <1>3

(* The owner finds its own token.                                          *)
LEMMA ReleaseReadLone ==
  ASSUME NEW p \in Procs, LoneInv, ReleaseRead(p)
  PROVE  LoneInv'
<1> USE LockAssumption DEF LoneInv, TypeOK, PCs, Calls, Held, Files, Goto,
      fileVars, statVars, history, ReleaseRead
<1>1. TypeOK' /\ ProgressInv'
  BY ProgressStep DEF Acquire
<1>2. FilesInv'
  BY DEF FilesInv, ProgressInv, Past
<1>3. SoloInv'
  <2> SUFFICES ASSUME NEW s \in solo, pc'[s] # "crashed" PROVE Lone(s)'
    BY DEF SoloInv
  <2>1. s = p /\ Lone(p)
    BY OnlyTheLoneActs
  <2> QED
    BY <2>1 DEF Lone, FilesInv
<1> QED
  BY <1>1, <1>2, <1>3

(* A lock that was released is free.                                       *)
LEMMA ReleaseUnlinkLone ==
  ASSUME NEW p \in Procs, LoneInv, ReleaseUnlink(p)
  PROVE  LoneInv'
<1> USE LockAssumption DEF LoneInv, TypeOK, PCs, Calls, Held, Files, Goto,
      fileVars, statVars, history, ReleaseUnlink
<1>1. TypeOK' /\ ProgressInv'
  BY ProgressStep DEF Acquire
<1>2. FilesInv'
  BY DEF FilesInv, ProgressInv, Past
<1>3. SoloInv'
  <2> SUFFICES ASSUME NEW s \in solo, pc'[s] # "crashed" PROVE Lone(s)'
    BY DEF SoloInv
  <2>1. s = p /\ Lone(p)
    BY OnlyTheLoneActs
  <2> QED
    BY <2>1 DEF Lone, FilesInv
<1> QED
  BY <1>1, <1>2, <1>3

(* A process that starts is alone when the others that run have finished.  *)
LEMMA StartLone ==
  ASSUME NEW p \in Procs, LoneInv, Start(p)
  PROVE  LoneInv'
<1> USE LockAssumption DEF LoneInv, TypeOK, PCs, Calls, Held, Files, Goto,
      fileVars, statVars, history, Start
<1>1. TypeOK' /\ ProgressInv'
  BY ProgressStep DEF Acquire
<1>2. FilesInv'
  BY DEF FilesInv
<1>3. SoloInv'
  <2> SUFFICES ASSUME NEW s \in solo', pc'[s] # "crashed" PROVE Lone(s)'
    BY DEF SoloInv
  <2>1. /\ s = p /\ pc'[p] = "list"
        /\ \A q \in Procs \ {p} : q \in alive => pc[q] \in {"done", "failed"}
    OBVIOUS
  <2> QED
    BY <2>1 DEF Lone
<1> QED
  BY <1>1, <1>2, <1>3

(* A process that dies leaves a lone one alone.                            *)
LEMMA CrashLone ==
  ASSUME NEW p \in Procs, LoneInv, Crash(p)
  PROVE  LoneInv'
<1> USE LockAssumption DEF LoneInv, TypeOK, PCs, Calls, Held, Files, Goto,
      fileVars, statVars, history, Crash
<1>1. TypeOK' /\ ProgressInv'
  BY ProgressStep DEF Acquire
<1>2. FilesInv'
  BY DEF FilesInv
<1>3. SoloInv'
  <2> SUFFICES ASSUME NEW s \in solo, pc'[s] # "crashed" PROVE Lone(s)'
    BY DEF SoloInv
  <2>1. s # p /\ Lone(s)
    BY DEF SoloInv
  <2> QED
    BY <2>1 DEF Lone
<1> QED
  BY <1>1, <1>2, <1>3

(* A process that runs alone acquires the lock, whatever names and locks   *)
(* the processes before it left, wherever they died; this needs no order   *)
(* of the stat calls.                                                      *)
THEOREM LockLoneStarterWins == Spec => []LoneStarterWins
<1>1. Init => LoneInv
  <2> SUFFICES ASSUME Init PROVE LoneInv
    OBVIOUS
  <2> USE LockAssumption DEF Init, PCs, Calls, Held, Files
  <2>1. TypeOK
    BY DEF TypeOK
  <2>2. ProgressInv
    BY DEF ProgressInv, Past
  <2>3. FilesInv /\ SoloInv
    BY DEF FilesInv, SoloInv
  <2> QED
    BY <2>1, <2>2, <2>3 DEF LoneInv
<1>2. LoneInv /\ [Next]_vars => LoneInv'
  <2> SUFFICES ASSUME LoneInv, [Next]_vars PROVE LoneInv'
    OBVIOUS
  <2>1. ASSUME NEW p \in Procs, Acquire(p) PROVE LoneInv'
    BY <2>1, ListOrphansLone, SweepOrphanLone, SweepEndLone,
       WriteCandidateLone, LinkLockLone, DropCandidateLone, ReadExistingLone,
       LinkClaimLone, ReadClaimLone, ReadLockAgainLone, StatClaimLone,
       StatLockLone, JudgeClaimLone, UnlinkStaleLone, GiveUpLone,
       UnclaimLone DEF Acquire
  <2>2. ASSUME NEW p \in Procs,
               Start(p) \/ ReleaseRead(p) \/ ReleaseUnlink(p) \/ Crash(p)
        PROVE  LoneInv'
    BY <2>2, StartLone, ReleaseReadLone, ReleaseUnlinkLone, CrashLone
  <2>3. ASSUME UNCHANGED vars PROVE LoneInv'
    BY <2>3
       DEF vars, fileVars, statVars, history, LoneInv, TypeOK, ProgressInv,
           Past, FilesInv, SoloInv, Lone
  <2> QED
    BY <2>1, <2>2, <2>3 DEF Next
<1>3. LoneInv => LoneStarterWins
  BY DEF LoneInv, SoloInv, Lone, LoneStarterWins
<1> QED
  BY <1>1, <1>2, <1>3, PTL DEF Spec

=============================================================================
