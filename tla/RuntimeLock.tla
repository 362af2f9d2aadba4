----------------------------- MODULE RuntimeLock -----------------------------
(***************************************************************************)
(* The per-state runtime lock (src/runtime/runtime-lock.ts): processes on  *)
(* one machine that acquire, reclaim and release one lock file.            *)
(*                                                                         *)
(* An action is one system call with the code that runs on its result, so  *)
(* the calls of different processes interleave freely and a process can    *)
(* die between any two of them.  A lock file is named by the process that  *)
(* created it: its token is random and it writes its pid into no other     *)
(* file.  Process ids are not reused.                                      *)
(*                                                                         *)
(* Promise.all hands both stat calls of the claim check to the I/O thread  *)
(* pool, which may serve them in either order.                             *)
(***************************************************************************)
EXTENDS Integers, FiniteSets

CONSTANTS
  Procs,         \* processes, each acquires the lock at most once
  Ghosts,        \* those of them that died before the model begins
  NoProc,        \* no file
  MaxAttempts    \* attempts before acquire gives up (16 in the code)

ASSUME LockAssumption ==
  /\ IsFiniteSet(Procs)
  /\ Ghosts \subseteq Procs /\ NoProc \notin Procs
  /\ MaxAttempts \in Nat \ {0}

VARIABLES
  lock,      \* the file the canonical path names, or NoProc
  cand,      \* processes whose .create file exists
  claim,     \* the file each process's .reclaim link names, or NoProc
  alive,     \* processes that run
  pc,        \* the next call of each process
  orphans,   \* names a starting process has listed and not yet handled
  seen,      \* "existing": the owner a process read from the lock
  won,       \* processes whose link of the lock succeeded
  claimStat, \* what stat(claimPath) returned: two links ("sole") or not
  lockStat,  \* what stat(lockPath) returned: the claim's file or not
  attempt,   \* retries so far
  solo,      \* history: no other process ran since this one started
  early,     \* history: those whose stat(lockPath) was served first, while
             \* the claim it is compared with was not the only one
  raced      \* history: one of them has passed the check

fileVars == <<lock, cand, claim>>
statVars == <<claimStat, lockStat>>
history == <<solo, early, raced>>
vars == <<fileVars, alive, pc, orphans, seen, won, statVars, attempt,
          history>>

Calls == {"list", "sweep", "candidate", "link", "drop", "read", "claim",
          "readClaim", "readLock", "stat", "unlinkStale", "unclaim",
          "giveUp"}
Held == {"owner", "release"}
PCs == Calls \cup Held \cup {"idle", "done", "failed", "crashed"}
Names == {"create", "reclaim"} \X Procs
Files == Procs \cup {NoProc}

TypeOK ==
  /\ lock \in Files /\ cand \in SUBSET Procs /\ claim \in [Procs -> Files]
  /\ alive \in SUBSET Procs /\ pc \in [Procs -> PCs]
  /\ orphans \in [Procs -> SUBSET Names]
  /\ seen \in [Procs -> Files] /\ won \in SUBSET Procs
  /\ claimStat \in [Procs -> {"none", "sole", "shared"}]
  /\ lockStat \in [Procs -> {"none", "same", "other"}]
  /\ attempt \in [Procs -> Nat]
  /\ solo \in SUBSET Procs /\ early \in SUBSET Procs /\ raced \in BOOLEAN

\* A ghost may have left the lock, or the lock and its .create link.
Init ==
  /\ lock \in Ghosts \cup {NoProc}
  /\ cand \in SUBSET Ghosts
  /\ claim = [p \in Procs |-> NoProc]
  /\ alive = {}
  /\ pc = [p \in Procs |-> IF p \in Ghosts THEN "crashed" ELSE "idle"]
  /\ orphans = [p \in Procs |-> {}]
  /\ seen = [p \in Procs |-> NoProc]
  /\ won = {}
  /\ claimStat = [p \in Procs |-> "none"]
  /\ lockStat = [p \in Procs |-> "none"]
  /\ attempt = [p \in Procs |-> 0]
  /\ solo = {} /\ early = {} /\ raced = FALSE

-----------------------------------------------------------------------------
(* Helpers.                                                                *)

\* The claims on a file, and its link count: the claims, the canonical path and
\* its creator's .create link.
Claimants(f) == {p \in Procs : claim[p] = f}
LinkCount(f) == Cardinality(Claimants(f)) + (IF lock = f THEN 1 ELSE 0)
                                          + (IF f \in cand THEN 1 ELSE 0)

\* pidIsAlive.
EverybodyIsAlive(q) == TRUE
PidIsAlive(q) == q \in alive

Goto(p, label) == pc' = [pc EXCEPT ![p] = label]

\* waitForLockRetry, and the next round of the loop.
AttemptKept(p) == attempt[p]
NextAttempt(p) == attempt[p] + 1

Retry(p) ==
  IF attempt[p] >= MaxAttempts - 1
    THEN Goto(p, "failed") /\ UNCHANGED attempt
    ELSE /\ Goto(p, "candidate")
         /\ attempt' = [attempt EXCEPT ![p] = NextAttempt(p)]

-----------------------------------------------------------------------------
(* acquireRuntimeLock.                                                     *)

Start(p) ==
  /\ pc[p] = "idle"
  /\ alive' = alive \cup {p}
  /\ Goto(p, "list")
  /\ solo' = IF \A q \in Procs \ {p} :
                    q \in alive => pc[q] \in {"done", "failed"}
               THEN {p} ELSE {}
  /\ UNCHANGED <<fileVars, orphans, seen, won, statVars, attempt, early,
                 raced>>

\* removeOrphanedClaims: readdir, then one unlink for each name of a process
\* that is dead when its turn comes.
ListOrphans(p) ==
  /\ pc[p] = "list"
  /\ orphans' = [orphans EXCEPT ![p] =
       {n \in Names : IF n[1] = "create" THEN n[2] \in cand
                                         ELSE claim[n[2]] # NoProc}]
  /\ Goto(p, "sweep")
  /\ UNCHANGED <<fileVars, alive, seen, won, statVars, attempt, history>>

SweepOrphan(p) ==
  /\ pc[p] = "sweep"
  /\ \E n \in orphans[p] :
       /\ orphans' = [orphans EXCEPT ![p] = @ \ {n}]
       /\ cand' = IF n[1] = "create" /\ ~PidIsAlive(n[2])
                    THEN cand \ {n[2]} ELSE cand
       /\ claim' = IF n[1] = "reclaim" /\ ~PidIsAlive(n[2])
                     THEN [claim EXCEPT ![n[2]] = NoProc] ELSE claim
  /\ UNCHANGED <<lock, alive, pc, seen, won, statVars, attempt, history>>

SweepEnd(p) ==
  /\ pc[p] = "sweep" /\ orphans[p] = {}
  /\ Goto(p, "candidate")
  /\ UNCHANGED <<fileVars, alive, orphans, seen, won, statVars, attempt,
                 history>>

\* installRuntimeLock: write the .create file, link it to the canonical path,
\* unlink it.  The first attempt and the replacement of a stale lock share it;
\* a process that holds a claim is replacing.
WriteCandidate(p) ==
  /\ pc[p] = "candidate"
  /\ cand' = cand \cup {p}
  /\ Goto(p, "link")
  /\ UNCHANGED <<lock, claim, alive, orphans, seen, won, statVars, attempt,
                 history>>

LinkLock(p) ==
  /\ pc[p] = "link"
  /\ IF lock = NoProc THEN lock' = p /\ won' = won \cup {p}
                      ELSE UNCHANGED <<lock, won>>
  /\ Goto(p, "drop")
  /\ UNCHANGED <<cand, claim, alive, orphans, seen, statVars, attempt,
                 history>>

DropCandidate(p) ==
  /\ pc[p] = "drop"
  /\ cand' = cand \ {p}
  /\ Goto(p, IF claim[p] # NoProc THEN "unclaim"
             ELSE IF p \in won THEN "owner" ELSE "read")
  /\ UNCHANGED <<lock, claim, alive, orphans, seen, won, statVars, attempt,
                 history>>

\* readLock(lockPath), and pidIsAlive of the owner found there.
ReadExisting(p) ==
  /\ pc[p] = "read"
  /\ seen' = [seen EXCEPT ![p] = lock]
  /\ IF lock = NoProc THEN Retry(p)
     ELSE /\ Goto(p, IF PidIsAlive(lock) THEN "failed" ELSE "claim")
          /\ UNCHANGED attempt
  /\ UNCHANGED <<fileVars, alive, orphans, won, statVars, history>>

-----------------------------------------------------------------------------
(* replaceStaleLock and ownsOnlyStaleClaim.                                *)

LinkClaim(p) ==
  /\ pc[p] = "claim"
  /\ claim' = [claim EXCEPT ![p] = lock]
  /\ IF lock = NoProc THEN Retry(p)
                      ELSE Goto(p, "readClaim") /\ UNCHANGED attempt
  /\ UNCHANGED <<lock, cand, alive, orphans, seen, won, statVars, history>>

\* Reading the claim gives its creator's token, reading the lock another's when
\* it has been replaced.
ReadClaim(p) ==
  /\ pc[p] = "readClaim"
  /\ Goto(p, "readLock")
  /\ UNCHANGED <<fileVars, alive, orphans, seen, won, statVars, attempt,
                 history>>

ReadLockAgain(p) ==
  /\ pc[p] = "readLock"
  /\ Goto(p, IF claim[p] = seen[p] /\ lock = seen[p] THEN "stat"
             ELSE "unclaim")
  /\ claimStat' = [claimStat EXCEPT ![p] = "none"]
  /\ lockStat' = [lockStat EXCEPT ![p] = "none"]
  /\ early' = early \ {p}
  /\ UNCHANGED <<fileVars, alive, orphans, seen, won, attempt, solo, raced>>

StatClaim(p) ==
  /\ pc[p] = "stat" /\ claimStat[p] = "none"
  /\ claimStat' = [claimStat EXCEPT ![p] =
       IF LinkCount(claim[p]) = 2 THEN "sole" ELSE "shared"]
  /\ UNCHANGED <<fileVars, alive, pc, orphans, seen, won, lockStat, attempt,
                 history>>

StatLock(p) ==
  /\ pc[p] = "stat" /\ lockStat[p] = "none"
  /\ lockStat' = [lockStat EXCEPT ![p] =
       IF lock = claim[p] THEN "same" ELSE "other"]
  /\ early' = IF claimStat[p] = "none" /\ LinkCount(claim[p]) # 2
                THEN early \cup {p} ELSE early
  /\ UNCHANGED <<fileVars, alive, pc, orphans, seen, won, claimStat, attempt,
                 solo, raced>>

LinksIgnored(p) == lockStat[p] = "same"
ClaimIsSole(p) == claimStat[p] = "sole" /\ lockStat[p] = "same"

JudgeClaim(p) ==
  /\ pc[p] = "stat" /\ claimStat[p] # "none" /\ lockStat[p] # "none"
  /\ Goto(p, IF ClaimIsSole(p) THEN "unlinkStale" ELSE "unclaim")
  /\ raced' = (raced \/ (ClaimIsSole(p) /\ p \in early))
  /\ UNCHANGED <<fileVars, alive, orphans, seen, won, statVars, attempt, solo,
                 early>>

UnlinkStale(p) ==
  /\ pc[p] = "unlinkStale"
  /\ lock' = NoProc
  /\ Goto(p, IF lock = NoProc THEN "giveUp" ELSE "candidate")
  /\ UNCHANGED <<cand, claim, alive, orphans, seen, won, statVars, attempt,
                 history>>

\* unlink(lockPath) found nothing and threw: the claim goes, acquire rejects.
GiveUp(p) ==
  /\ pc[p] = "giveUp"
  /\ claim' = [claim EXCEPT ![p] = NoProc]
  /\ Goto(p, "failed")
  /\ UNCHANGED <<lock, cand, alive, orphans, seen, won, statVars, attempt,
                 history>>

\* The finally block: the claim goes whether the lock was won or not.
Unclaim(p) ==
  /\ pc[p] = "unclaim"
  /\ claim' = [claim EXCEPT ![p] = NoProc]
  /\ IF p \in won THEN Goto(p, "owner") /\ UNCHANGED attempt ELSE Retry(p)
  /\ UNCHANGED <<lock, cand, alive, orphans, seen, won, statVars, history>>

-----------------------------------------------------------------------------
(* release, and the death of a process.                                    *)

\* readLock finds the process's own token, or release throws.
ReleaseRead(p) ==
  /\ pc[p] = "owner"
  /\ lock = p
  /\ Goto(p, "release")
  /\ UNCHANGED <<fileVars, alive, orphans, seen, won, statVars, attempt,
                 history>>

\* The unlink throws when there is no lock, and release may be tried again.
ReleaseUnlink(p) ==
  /\ pc[p] = "release"
  /\ lock' = NoProc
  /\ Goto(p, IF lock = NoProc THEN "owner" ELSE "done")
  /\ UNCHANGED <<cand, claim, alive, orphans, seen, won, statVars, attempt,
                 history>>

Crash(p) ==
  /\ p \in alive
  /\ alive' = alive \ {p}
  /\ Goto(p, "crashed")
  /\ UNCHANGED <<fileVars, orphans, seen, won, statVars, attempt, history>>

Acquire(p) ==
  \/ ListOrphans(p) \/ SweepOrphan(p) \/ SweepEnd(p)
  \/ WriteCandidate(p) \/ LinkLock(p) \/ DropCandidate(p) \/ ReadExisting(p)
  \/ LinkClaim(p) \/ ReadClaim(p) \/ ReadLockAgain(p)
  \/ StatClaim(p) \/ StatLock(p) \/ JudgeClaim(p)
  \/ UnlinkStale(p) \/ GiveUp(p) \/ Unclaim(p)

Next == \E p \in Procs :
  Start(p) \/ Acquire(p) \/ ReleaseRead(p) \/ ReleaseUnlink(p) \/ Crash(p)

Spec == Init /\ [][Next]_vars

\* A system call returns; nobody is made to start, to release or to die.
FairSpec == Spec /\ \A p \in Procs : WF_vars(Acquire(p))

-----------------------------------------------------------------------------
(* Safety.                                                                 *)

Holders == {p \in alive : pc[p] \in Held}

\* Two processes never hold the lock of one state directory together.
MutualExclusion == \A p, q \in Holders : p = q

\* One thing alone breaks the exclusion: a claim check that looks at the
\* canonical path first, while another claim is on the file it finds there,
\* and counts the links of its own claim after that other claim, or the path,
\* is gone.  No other order of system calls, deaths and releases does.
OnlyTheRaceBreaksExclusion == raced \/ MutualExclusion

\* The lock of a live owner stays in place: the canonical path names its file
\* from the link until its own release, whatever claims are made meanwhile.
OwnerKeepsLock ==
  \A p \in alive : p \in won /\ pc[p] # "done" => lock = p

\* A claimant deletes no lock but one whose owner is dead.
OnlyStaleIsUnlinked ==
  \A p \in alive :
    pc[p] = "unlinkStale" => lock = claim[p] /\ lock \notin alive

\* The inductive invariant.  A file that was ever a lock belongs to a process
\* past its link, so a dead owner stays dead.  Unless that race was run, an
\* owner's file stays (OwnerKeepsLock); a claimant works against a dead owner;
\* of the claims on the current lock at most one has been seen alone, in
\* either order of the stats, and the lock it was compared with is still there.
Judging(p) == p \in alive /\ pc[p] \in {"stat", "unlinkStale"}
Past(f) == pc[f] \in {"drop", "unclaim", "done", "crashed"} \cup Held
SeenAlone(p) ==
  /\ Judging(p) /\ p \notin early
  /\ claimStat[p] = "sole" \/ (claimStat[p] = "none" /\ lockStat[p] = "same")

ProgressInv ==
  /\ \A p \in won : Past(p)
  /\ lock # NoProc => lock \in won \cup Ghosts
  /\ \A p \in Procs : claim[p] # NoProc => claim[p] \in won \cup Ghosts
  /\ \A p \in Ghosts : pc[p] = "crashed" /\ p \notin alive
  /\ \A p \in Procs : pc[p] \in Held => p \in won
  /\ \A p \in Procs : pc[p] \in {"idle", "crashed"} <=> p \notin alive

ClaimInv ==
  \A p \in alive :
    /\ pc[p] \in {"claim", "readClaim", "readLock", "stat", "unlinkStale"} =>
         seen[p] \in Procs /\ pc[seen[p]] = "crashed"
    /\ pc[p] \in {"stat", "unlinkStale"} => claim[p] = seen[p]
    /\ pc[p] = "stat" /\ lockStat[p] = "none" => p \notin early
    /\ pc[p] = "unlinkStale" => ClaimIsSole(p) /\ p \notin early

SoleInv ==
  /\ \A p, q \in Procs :
       /\ SeenAlone(p) /\ claim[p] = lock
       /\ SeenAlone(q) /\ claim[q] = lock
       => p = q
  /\ \A p \in Procs : SeenAlone(p) /\ lockStat[p] = "same" => lock = claim[p]

Intact == OwnerKeepsLock /\ ClaimInv /\ SoleInv

LockInv == TypeOK /\ ProgressInv /\ (raced \/ Intact)

\* A crash never locks the state directory for good: a process that runs alone
\* acquires the lock, whatever candidates, claims and lock files earlier
\* processes left at whatever point they died.
LoneStarterWins == \A p \in solo : pc[p] # "failed"

\* acquireRuntimeLock settles: it holds the lock or throws, however the other
\* processes interleave, crash or race for a stale lock.
AcquireSettles ==
  \A p \in Procs : pc[p] \in Calls ~> pc[p] \in {"owner", "failed", "crashed"}

=============================================================================
