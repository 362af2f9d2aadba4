------------------------ MODULE DesktopRuntimeProofs ------------------------
(***************************************************************************)
(* The safety of the desktop runtime for any sets of configurations and    *)
(* bootstrap lists and any number of reconfigurations and connections: a   *)
(* role runs under its own lock on the current node, no lock is forgotten, *)
(* services are shown only of the publisher the subscriber is connected    *)
(* to, and stop leaves nothing but locks whose release was refused.        *)
(***************************************************************************)
EXTENDS DesktopRuntime, TLAPS

\* Where each task of the runtime can be.
TaskInv ==
  /\ mode = "launch" => pc \in {"prepare", "start"}
  /\ mode = "apply" => pc \notin {"done", "dead"}
  /\ mode \in {"stop", "abandon"} => pc \in {"cleanup", "done", "dead"}
  /\ mode = "launch" => changed = Configured(opt)
  /\ mode = "apply" /\ pc \in {"drain", "cleanup", "prepare"} =>
       /\ moved => changed = Roles
       /\ \A r \in Roles \ changed : target[r] = opt[r]

\* A lock variable names the lock of the role's own configuration.
LockInv ==
  \A r \in Roles : lock[r] # None =>
    lock[r] = opt[r] /\ <<r, lock[r]>> \in held

\* A role's task runs inside the runtime's, and has its lock to start.
StageInv ==
  /\ \A r \in Roles :
       /\ stage[r] \in {"starting", "reading"} => pc = "start"
       /\ stage[r] = "closing" => pc = "cleanup"
       /\ stage[r] = "releasing" => pc \in {"start", "cleanup"}
       /\ stage[r] \in {"starting", "releasing"} => run[r] = None
       /\ stage[r] = "starting" /\ prep[r] = "ok" => lock[r] # None
  /\ read["start"] # None => stage["subscriber"] = "reading"

\* A role is prepared when it is to change, and does not run.
PrepareInv ==
  \A r \in Roles :
    /\ prep[r] = "busy" => pc = "prepare" /\ r \in changed /\ opt[r] # None
    /\ pc = "prepare" /\ r \in changed =>
         run[r] = None /\ (prep[r] = "ok" => lock[r] # None)

\* The roles that the cleanup in progress, or the last one, is about.
Scope == IF mode = "apply" THEN changed ELSE Roles

\* What a cleanup has been through does not run, and has no lock but one
\* whose release was refused, which a reconfiguration counts as a failure.
CleanupInv ==
  /\ pc = "cleanup" =>
       /\ todo \subseteq Scope
       /\ \A r \in Scope \ todo :
            /\ stage[r] # "closing" => run[r] = None
            /\ stage[r] = "idle" =>
                 /\ lock[r] = None \/ <<r, lock[r]>> \in refused
                 /\ mode = "apply" /\ ~failure => lock[r] = None
  /\ pc \in {"done", "dead"} =>
       \A r \in Roles :
         run[r] = None /\ (lock[r] = None \/ <<r, lock[r]>> \in refused)

\* The registry kept is of the publisher of the subscriber that runs, and of
\* the generation refreshed last.
RegistryInv ==
  /\ run["subscriber"] # None => peer # None
  /\ conn.up => conn.gen # 0
  /\ registry # None =>
       /\ refreshed = registry.gen
       /\ run["subscriber"] # None => registry.key = peer
  /\ stage["subscriber"] = "starting" => registry = None
  /\ pc = "prepare" /\ "subscriber" \in changed => registry = None

IInv ==
  /\ TypeOK /\ TaskInv /\ NoOrphanLock /\ LockInv /\ StageInv /\ PrepareInv
  /\ CleanupInv /\ RunsOnItsOwn /\ RegistryInv /\ FreshServices

-----------------------------------------------------------------------------
(* The reads and what is shown of them.                                    *)

(* What is shown is of a subscriber and a connection.                      *)
LEMMA ShowType ==
  ASSUME NEW link \in Links, NEW reg, NEW current \in BOOLEAN, TypeOK
  PROVE  Show(link, reg, current) \in
           [available : BOOLEAN, key : Publishers \cup {None},
            gen : 0..MaxGenerations]
<1>1. peer \in Publishers \cup {None}
  BY DEF TypeOK
<1>2. link.up \in BOOLEAN /\ link.gen \in 0..MaxGenerations
  BY DEF Links
<1>3. (link.up /\ reg # None /\ current) \in BOOLEAN
  BY <1>2
<1> QED BY <1>1, <1>2, <1>3 DEF Show

(* An update begins a read over the connection, or shows the registry of   *)
(* the generation that was refreshed last.                                 *)
LEMMA UpdateEffect ==
  ASSUME TypeOK, NEW x \in Readers, NEW link \in Links, NEW o \in Publishers,
         link.up => link.gen # 0, UpdateSubscriber(x, link, o)
  PROVE  /\ observed' \in 1..MaxGenerations \cup {None}
         /\ resetFor' \in 1..MaxGenerations \cup {None}
         /\ retryDue' \in BOOLEAN
         /\ UNCHANGED <<registry, refreshed, resetDue>>
         /\ read' \in [Readers -> Reads \cup {None}]
         /\ \A y \in Readers :
              read'[y] = read[y] \/ (y = x /\ link.up /\ read'[y].key = o)
         /\ shown' \in [available : BOOLEAN, key : Publishers \cup {None},
                        gen : 0..MaxGenerations]
         /\ \/ shown' = shown
            \/ /\ shown'.available =>
                    link.up /\ registry # None /\ refreshed = link.gen
               /\ shown'.key = o /\ shown'.gen = link.gen
<1>1. link.gen \in 0..MaxGenerations /\ link.up \in BOOLEAN
  BY DEF Links
<1>2. link.up => link.gen \in 1..MaxGenerations
  BY <1>1, DesktopAssumption
<1>3. /\ observed' \in 1..MaxGenerations \cup {None}
      /\ resetFor' \in 1..MaxGenerations \cup {None}
      /\ retryDue' \in BOOLEAN
      /\ UNCHANGED <<registry, refreshed, resetDue>>
  BY <1>2 DEF UpdateSubscriber, Fresh, TypeOK
<1>4. CASE ReadsNow(link)
  <2>1. /\ read' = [read EXCEPT ![x] = [key |-> o, gen |-> link.gen]]
        /\ shown' = shown
    BY <1>4 DEF UpdateSubscriber
  <2>2. link.up /\ [key |-> o, gen |-> link.gen] \in Reads
    BY <1>2, <1>4 DEF ReadsNow, Reads
  <2>3. /\ read' \in [Readers -> Reads \cup {None}]
        /\ \A y \in Readers :
             read'[y] = read[y] \/ (y = x /\ link.up /\ read'[y].key = o)
    BY <2>1, <2>2 DEF TypeOK
  <2> QED BY <1>3, <2>1, <2>3 DEF TypeOK
<1>5. CASE ~ReadsNow(link)
  <2> DEFINE s == Show(link, registry, refreshed = link.gen)
  <2>1. read' = read /\ shown' = [s EXCEPT !.key = o]
    BY <1>5 DEF UpdateSubscriber
  <2>2. s \in [available : BOOLEAN, key : Publishers \cup {None},
               gen : 0..MaxGenerations]
    BY ShowType
  <2>3. /\ s.available => link.up /\ registry # None /\ refreshed = link.gen
        /\ s.gen = link.gen
    BY DEF Show
  <2> HIDE DEF s
  <2>4. shown' \in [available : BOOLEAN, key : Publishers \cup {None},
                    gen : 0..MaxGenerations]
    BY <2>1, <2>2
  <2>5. /\ shown'.available =>
             link.up /\ registry # None /\ refreshed = link.gen
        /\ shown'.key = o /\ shown'.gen = link.gen
    BY <2>1, <2>2, <2>3
  <2> QED BY <1>3, <2>1, <2>4, <2>5 DEF TypeOK
<1> QED BY <1>4, <1>5

-----------------------------------------------------------------------------
(* The invariant holds at first and is kept by each action.                *)

(* Time passes.                                                            *)
LEMMA RetryFallsDueStep ==
  ASSUME IInv, RetryFallsDue
  PROVE  IInv'
<1>10. TypeOK'
  BY DEF IInv, RetryFallsDue, taskVars, roleVars, lockVars, genVars,
     viewVars, TypeOK, Rounds
<1>11. TaskInv'
  BY DEF IInv, RetryFallsDue, taskVars, roleVars, lockVars, genVars,
     viewVars, TaskInv
<1>12. NoOrphanLock'
  BY DEF IInv, RetryFallsDue, taskVars, roleVars, lockVars, genVars,
     viewVars, NoOrphanLock
<1>13. LockInv'
  BY DEF IInv, RetryFallsDue, taskVars, roleVars, lockVars, genVars,
     viewVars, LockInv
<1>14. StageInv'
  BY DEF IInv, RetryFallsDue, taskVars, roleVars, lockVars, genVars,
     viewVars, StageInv
<1>15. PrepareInv'
  BY DEF IInv, RetryFallsDue, taskVars, roleVars, lockVars, genVars,
     viewVars, PrepareInv
<1>16. CleanupInv'
  BY DEF IInv, RetryFallsDue, taskVars, roleVars, lockVars, genVars,
     viewVars, CleanupInv, Scope
<1>17. RunsOnItsOwn'
  BY DEF IInv, RetryFallsDue, taskVars, roleVars, lockVars, genVars,
     viewVars, RunsOnItsOwn
<1>18. RegistryInv'
  BY DEF IInv, RetryFallsDue, taskVars, roleVars, lockVars, genVars,
     viewVars, RegistryInv, Readers
<1>19. FreshServices'
  BY DEF IInv, RetryFallsDue, taskVars, roleVars, lockVars, genVars,
     viewVars, FreshServices
<1> QED BY <1>10, <1>11, <1>12, <1>13, <1>14, <1>15, <1>16, <1>17, <1>18,
     <1>19 DEF IInv

(* Time passes.                                                            *)
LEMMA ResetFallsDueStep ==
  ASSUME IInv, ResetFallsDue
  PROVE  IInv'
<1>10. TypeOK'
  BY DEF IInv, ResetFallsDue, taskVars, roleVars, lockVars, genVars,
     viewVars, TypeOK, Rounds
<1>11. TaskInv'
  BY DEF IInv, ResetFallsDue, taskVars, roleVars, lockVars, genVars,
     viewVars, TaskInv
<1>12. NoOrphanLock'
  BY DEF IInv, ResetFallsDue, taskVars, roleVars, lockVars, genVars,
     viewVars, NoOrphanLock
<1>13. LockInv'
  BY DEF IInv, ResetFallsDue, taskVars, roleVars, lockVars, genVars,
     viewVars, LockInv
<1>14. StageInv'
  BY DEF IInv, ResetFallsDue, taskVars, roleVars, lockVars, genVars,
     viewVars, StageInv
<1>15. PrepareInv'
  BY DEF IInv, ResetFallsDue, taskVars, roleVars, lockVars, genVars,
     viewVars, PrepareInv
<1>16. CleanupInv'
  BY DEF IInv, ResetFallsDue, taskVars, roleVars, lockVars, genVars,
     viewVars, CleanupInv, Scope
<1>17. RunsOnItsOwn'
  BY DEF IInv, ResetFallsDue, taskVars, roleVars, lockVars, genVars,
     viewVars, RunsOnItsOwn
<1>18. RegistryInv'
  BY DEF IInv, ResetFallsDue, taskVars, roleVars, lockVars, genVars,
     viewVars, RegistryInv, Readers
<1>19. FreshServices'
  BY DEF IInv, ResetFallsDue, taskVars, roleVars, lockVars, genVars,
     viewVars, FreshServices
<1> QED BY <1>10, <1>11, <1>12, <1>13, <1>14, <1>15, <1>16, <1>17, <1>18,
     <1>19 DEF IInv

(* The next connection has a new generation.                               *)
LEMMA SubscriberConnectsStep ==
  ASSUME IInv, SubscriberConnects
  PROVE  IInv'
<1>1. conn' \in Links
  BY DesktopAssumption DEF IInv, TypeOK, Links, SubscriberConnects
<1>10. TypeOK'
  BY <1>1 DEF IInv, SubscriberConnects, taskVars, roleVars, lockVars,
     genVars, viewVars, TypeOK, Rounds
<1>11. TaskInv'
  BY DEF IInv, SubscriberConnects, taskVars, roleVars, lockVars, genVars,
     viewVars, TaskInv
<1>12. NoOrphanLock'
  BY DEF IInv, SubscriberConnects, taskVars, roleVars, lockVars, genVars,
     viewVars, NoOrphanLock
<1>13. LockInv'
  BY DEF IInv, SubscriberConnects, taskVars, roleVars, lockVars, genVars,
     viewVars, LockInv
<1>14. StageInv'
  BY DEF IInv, SubscriberConnects, taskVars, roleVars, lockVars, genVars,
     viewVars, StageInv
<1>15. PrepareInv'
  BY DEF IInv, SubscriberConnects, taskVars, roleVars, lockVars, genVars,
     viewVars, PrepareInv
<1>16. CleanupInv'
  BY DEF IInv, SubscriberConnects, taskVars, roleVars, lockVars, genVars,
     viewVars, CleanupInv, Scope
<1>17. RunsOnItsOwn'
  BY DEF IInv, SubscriberConnects, taskVars, roleVars, lockVars, genVars,
     viewVars, RunsOnItsOwn
<1>18. RegistryInv'
  BY DEF IInv, SubscriberConnects, taskVars, roleVars, lockVars, genVars,
     viewVars, RegistryInv, Readers, TypeOK, Links
<1>19. FreshServices'
  BY DEF IInv, SubscriberConnects, taskVars, roleVars, lockVars, genVars,
     viewVars, FreshServices
<1> QED BY <1>10, <1>11, <1>12, <1>13, <1>14, <1>15, <1>16, <1>17, <1>18,
     <1>19 DEF IInv

(* The connection is lost.                                                 *)
LEMMA SubscriberDisconnectsStep ==
  ASSUME IInv, SubscriberDisconnects
  PROVE  IInv'
<1>1. conn' \in Links
  BY DesktopAssumption DEF IInv, TypeOK, Links, SubscriberDisconnects
<1>10. TypeOK'
  BY <1>1 DEF IInv, SubscriberDisconnects, taskVars, roleVars, lockVars,
     genVars, viewVars, TypeOK, Rounds
<1>11. TaskInv'
  BY DEF IInv, SubscriberDisconnects, taskVars, roleVars, lockVars, genVars,
     viewVars, TaskInv
<1>12. NoOrphanLock'
  BY DEF IInv, SubscriberDisconnects, taskVars, roleVars, lockVars, genVars,
     viewVars, NoOrphanLock
<1>13. LockInv'
  BY DEF IInv, SubscriberDisconnects, taskVars, roleVars, lockVars, genVars,
     viewVars, LockInv
<1>14. StageInv'
  BY DEF IInv, SubscriberDisconnects, taskVars, roleVars, lockVars, genVars,
     viewVars, StageInv
<1>15. PrepareInv'
  BY DEF IInv, SubscriberDisconnects, taskVars, roleVars, lockVars, genVars,
     viewVars, PrepareInv
<1>16. CleanupInv'
  BY DEF IInv, SubscriberDisconnects, taskVars, roleVars, lockVars, genVars,
     viewVars, CleanupInv, Scope
<1>17. RunsOnItsOwn'
  BY DEF IInv, SubscriberDisconnects, taskVars, roleVars, lockVars, genVars,
     viewVars, RunsOnItsOwn
<1>18. RegistryInv'
  BY DEF IInv, SubscriberDisconnects, taskVars, roleVars, lockVars, genVars,
     viewVars, RegistryInv, Readers, TypeOK, Links
<1>19. FreshServices'
  BY DEF IInv, SubscriberDisconnects, taskVars, roleVars, lockVars, genVars,
     viewVars, FreshServices
<1> QED BY <1>10, <1>11, <1>12, <1>13, <1>14, <1>15, <1>16, <1>17, <1>18,
     <1>19 DEF IInv

(* Stop is only noted.                                                     *)
LEMMA StopStep ==
  ASSUME IInv, Stop
  PROVE  IInv'
<1>10. TypeOK'
  BY DEF IInv, Stop, taskVars, roleVars, lockVars, genVars, viewVars,
     TypeOK, Rounds
<1>11. TaskInv'
  BY DEF IInv, Stop, taskVars, roleVars, lockVars, genVars, viewVars,
     TaskInv
<1>12. NoOrphanLock'
  BY DEF IInv, Stop, taskVars, roleVars, lockVars, genVars, viewVars,
     NoOrphanLock
<1>13. LockInv'
  BY DEF IInv, Stop, taskVars, roleVars, lockVars, genVars, viewVars,
     LockInv
<1>14. StageInv'
  BY DEF IInv, Stop, taskVars, roleVars, lockVars, genVars, viewVars,
     StageInv
<1>15. PrepareInv'
  BY DEF IInv, Stop, taskVars, roleVars, lockVars, genVars, viewVars,
     PrepareInv
<1>16. CleanupInv'
  BY DEF IInv, Stop, taskVars, roleVars, lockVars, genVars, viewVars,
     CleanupInv, Scope
<1>17. RunsOnItsOwn'
  BY DEF IInv, Stop, taskVars, roleVars, lockVars, genVars, viewVars,
     RunsOnItsOwn
<1>18. RegistryInv'
  BY DEF IInv, Stop, taskVars, roleVars, lockVars, genVars, viewVars,
     RegistryInv, Readers
<1>19. FreshServices'
  BY DEF IInv, Stop, taskVars, roleVars, lockVars, genVars, viewVars,
     FreshServices
<1> QED BY <1>10, <1>11, <1>12, <1>13, <1>14, <1>15, <1>16, <1>17, <1>18,
     <1>19 DEF IInv

(* The cleanup of a role begins.                                           *)
LEMMA CleanRoleStep ==
  ASSUME IInv, NEW r \in Roles, CleanRole(r)
  PROVE  IInv'
<1>10. TypeOK'
  BY DEF IInv, CleanRole, taskVars, roleVars, lockVars, genVars, viewVars,
     TypeOK, Rounds
<1>11. TaskInv'
  BY DEF IInv, CleanRole, taskVars, roleVars, lockVars, genVars, viewVars,
     TaskInv
<1>12. NoOrphanLock'
  BY DEF IInv, CleanRole, taskVars, roleVars, lockVars, genVars, viewVars,
     NoOrphanLock
<1>13. LockInv'
  BY DEF IInv, CleanRole, taskVars, roleVars, lockVars, genVars, viewVars,
     LockInv
<1>14. StageInv'
  BY DEF IInv, CleanRole, taskVars, roleVars, lockVars, genVars, viewVars,
     StageInv, TypeOK
<1>15. PrepareInv'
  BY DEF IInv, CleanRole, taskVars, roleVars, lockVars, genVars, viewVars,
     PrepareInv
<1>16. CleanupInv'
  BY DEF IInv, CleanRole, taskVars, roleVars, lockVars, genVars, viewVars,
     CleanupInv, Scope, TypeOK
<1>17. RunsOnItsOwn'
  BY DEF IInv, CleanRole, taskVars, roleVars, lockVars, genVars, viewVars,
     RunsOnItsOwn
<1>18. RegistryInv'
  BY DEF IInv, CleanRole, taskVars, roleVars, lockVars, genVars, viewVars,
     RegistryInv, Readers, TypeOK
<1>19. FreshServices'
  BY DEF IInv, CleanRole, taskVars, roleVars, lockVars, genVars, viewVars,
     FreshServices
<1> QED BY <1>10, <1>11, <1>12, <1>13, <1>14, <1>15, <1>16, <1>17, <1>18,
     <1>19 DEF IInv

(* A role that has stopped does not run.                                   *)
LEMMA RoleStoppedStep ==
  ASSUME IInv, NEW r \in Roles, RoleStopped(r)
  PROVE  IInv'
<1>1. /\ stage' \in [Roles -> {"idle", "starting", "reading", "closing",
                             "releasing"}]
      /\ stage'[r] = "releasing"
      /\ \A t \in Roles \ {r} : stage'[t] = stage[t]
  BY DEF IInv, TypeOK, RoleStopped
<1>2. /\ run' \in [Roles -> Rounds \cup {None}] /\ run'[r] = None
      /\ \A t \in Roles \ {r} : run'[t] = run[t]
  BY DEF IInv, TypeOK, RoleStopped
<1>3. conn' \in Links /\ failure' \in BOOLEAN /\ (failure => failure')
  <2>1. NoLink \in Links
    BY DesktopAssumption DEF NoLink, Links
  <2>2. conn' \in Links
    BY <2>1 DEF IInv, TypeOK, RoleStopped
  <2>3. failure' = failure \/ failure' = TRUE
    BY DEF RoleStopped
  <2> QED BY <2>2, <2>3 DEF IInv, TypeOK
<1>4. stage[r] = "closing" /\ pc = "cleanup"
  BY DEF IInv, StageInv, RoleStopped
<1>5. IF r = "subscriber" THEN ~conn'.up ELSE conn' = conn
  BY DEF RoleStopped, NoLink
<1>10. TypeOK'
  BY <1>1, <1>2, <1>3 DEF IInv, RoleStopped, taskVars, roleVars, lockVars,
     genVars, viewVars, TypeOK, Rounds
<1>11. TaskInv'
  BY DEF IInv, RoleStopped, taskVars, roleVars, lockVars, genVars, viewVars,
     TaskInv
<1>12. NoOrphanLock'
  BY DEF IInv, RoleStopped, taskVars, roleVars, lockVars, genVars, viewVars,
     NoOrphanLock
<1>13. LockInv'
  BY DEF IInv, RoleStopped, taskVars, roleVars, lockVars, genVars, viewVars,
     LockInv
<1>14. StageInv'
  BY <1>1, <1>2, <1>4 DEF IInv, RoleStopped, taskVars, roleVars, lockVars,
     genVars, viewVars, StageInv, Roles
<1>15. PrepareInv'
  BY <1>2 DEF IInv, RoleStopped, taskVars, roleVars, lockVars, genVars,
     viewVars, PrepareInv
<1>16. CleanupInv'
  <2>1. /\ UNCHANGED <<pc, mode, changed, todo, lock, refused>>
        /\ pc = "cleanup"
    BY <1>4 DEF RoleStopped, lockVars
  <2>2. todo' \subseteq Scope' /\ Scope' = Scope
    BY <2>1 DEF IInv, CleanupInv, Scope
  <2>3. ASSUME NEW t \in Scope' \ todo', t # r
        PROVE  /\ stage'[t] # "closing" => run'[t] = None
               /\ stage'[t] = "idle" =>
                    /\ lock'[t] = None \/ <<t, lock'[t]>> \in refused'
                    /\ mode' = "apply" /\ ~failure' => lock'[t] = None
    <3>1. t \in Roles \ {r} /\ t \in Scope \ todo
      BY <2>1, <2>2, <2>3 DEF IInv, TypeOK, Scope
    <3> QED BY <1>1, <1>2, <1>3, <2>1, <3>1 DEF IInv, CleanupInv
  <2> QED BY <1>1, <1>2, <2>1, <2>2, <2>3 DEF CleanupInv
<1>17. RunsOnItsOwn'
  BY <1>2 DEF IInv, RoleStopped, taskVars, roleVars, lockVars, genVars,
     viewVars, RunsOnItsOwn
<1>18. RegistryInv'
  BY <1>1, <1>2, <1>5 DEF IInv, RoleStopped, taskVars, roleVars, lockVars,
     genVars, viewVars, RegistryInv, Readers, Roles
<1>19. FreshServices'
  BY DEF IInv, RoleStopped, taskVars, roleVars, lockVars, genVars, viewVars,
     FreshServices
<1> QED BY <1>10, <1>11, <1>12, <1>13, <1>14, <1>15, <1>16, <1>17, <1>18,
     <1>19 DEF IInv

(* A lock is forgotten only with its file, or kept.                        *)
LEMMA LockReleasedStep ==
  ASSUME IInv, NEW r \in Roles, LockReleased(r)
  PROVE  IInv'
<1>1. /\ stage' \in [Roles -> {"idle", "starting", "reading", "closing",
                             "releasing"}]
      /\ stage'[r] = "idle"
      /\ \A t \in Roles \ {r} : stage'[t] = stage[t]
  BY DEF IInv, TypeOK, LockReleased
<1>2. stage[r] = "releasing" /\ run[r] = None /\ pc \in {"start", "cleanup"}
  BY DEF IInv, StageInv, LockReleased
<1>3. /\ lock \in [Roles -> Configs \cup {None}] /\ lock[r] = lock[r]
      /\ held \subseteq Roles \X Configs /\ refused \subseteq held
  BY DEF IInv, TypeOK
<1>4. /\ lock' \in [Roles -> Configs \cup {None}]
      /\ \A t \in Roles \ {r} : lock'[t] = lock[t]
      /\ held' \subseteq held /\ refused' \subseteq held'
      /\ \A t \in Roles \ {r}, c \in Configs :
           /\ <<t, c>> \in held => <<t, c>> \in held'
           /\ <<t, c>> \in refused => <<t, c>> \in refused'
      /\ failure' \in BOOLEAN /\ (failure => failure')
      /\ \/ lock'[r] = None /\ \A h \in held' : h # <<r, lock[r]>>
         \/ /\ lock' = lock /\ held' = held /\ failure'
            /\ <<r, lock[r]>> \in refused'
  <2>1. CASE /\ lock' = [lock EXCEPT ![r] = None]
             /\ held' = held \ {<<r, lock[r]>>}
             /\ refused' = refused \ {<<r, lock[r]>>}
             /\ UNCHANGED failure
    BY <1>3, <2>1 DEF IInv, TypeOK
  <2>2. CASE /\ lock[r] # None
             /\ lock' = KeptLock(r)
             /\ refused' = refused \cup {<<r, lock[r]>>}
             /\ failure' = TRUE /\ UNCHANGED held
    BY <1>3, <2>2 DEF IInv, LockInv, KeptLock
  <2> QED BY <2>1, <2>2 DEF LockReleased
<1>5. UNCHANGED <<stopped, mode, pc, round, target, targetBoot, changed,
                  moved, awaited, todo, opt, boot, prep, run, peer, ranOn, dht,
                  conn, read, genVars, viewVars>>
  BY DEF LockReleased
<1>10. TypeOK'
  BY <1>1, <1>4, <1>5 DEF IInv, LockReleased, taskVars, roleVars, lockVars,
     genVars, viewVars, TypeOK, Rounds
<1>11. TaskInv'
  BY <1>5 DEF IInv, LockReleased, taskVars, roleVars, lockVars, genVars,
     viewVars, TaskInv
<1>12. NoOrphanLock'
  BY <1>3, <1>4 DEF IInv, LockReleased, taskVars, roleVars, lockVars,
     genVars, viewVars, NoOrphanLock
<1>13. LockInv'
  BY <1>3, <1>4, <1>5 DEF IInv, LockReleased, taskVars, roleVars, lockVars,
     genVars, viewVars, LockInv
<1>14. StageInv'
  BY <1>1, <1>2, <1>4, <1>5 DEF IInv, LockReleased, taskVars, roleVars,
     lockVars, genVars, viewVars, StageInv, Roles
<1>15. PrepareInv'
  BY <1>2, <1>4, <1>5 DEF IInv, LockReleased, taskVars, roleVars, lockVars,
     genVars, viewVars, PrepareInv, StageInv
<1>16. CleanupInv'
  <2>1. CASE pc = "cleanup"
    <3>1. todo' \subseteq Scope' /\ Scope' = Scope
      BY <1>5, <2>1 DEF IInv, CleanupInv, Scope
    <3>2. ASSUME NEW t \in Scope' \ todo', t # r
          PROVE  /\ stage'[t] # "closing" => run'[t] = None
                 /\ stage'[t] = "idle" =>
                      /\ lock'[t] = None \/ <<t, lock'[t]>> \in refused'
                      /\ mode' = "apply" /\ ~failure' => lock'[t] = None
      <4>1. t \in Roles \ {r} /\ t \in Scope \ todo
        BY <1>5, <3>1, <3>2 DEF IInv, TypeOK, Scope
      <4> QED BY <1>1, <1>3, <1>4, <1>5, <2>1, <4>1 DEF IInv, CleanupInv
    <3>3. /\ run'[r] = None
          /\ lock'[r] = None \/ <<r, lock'[r]>> \in refused'
          /\ ~failure' => lock'[r] = None
      BY <1>2, <1>4, <1>5
    <3> QED BY <1>5, <2>1, <3>1, <3>2, <3>3 DEF CleanupInv
  <2>2. CASE pc = "start"
    BY <1>5, <2>2 DEF CleanupInv
  <2> QED BY <1>2, <2>1, <2>2
<1>17. RunsOnItsOwn'
  BY <1>2, <1>3, <1>4, <1>5 DEF IInv, LockReleased, taskVars, roleVars,
     lockVars, genVars, viewVars, RunsOnItsOwn
<1>18. RegistryInv'
  BY <1>1, <1>5 DEF IInv, LockReleased, taskVars, roleVars, lockVars,
     genVars, viewVars, RegistryInv, Readers, Roles
<1>19. FreshServices'
  BY <1>5 DEF IInv, LockReleased, taskVars, roleVars, lockVars, genVars,
     viewVars, FreshServices
<1> QED BY <1>10, <1>11, <1>12, <1>13, <1>14, <1>15, <1>16, <1>17, <1>18,
     <1>19 DEF IInv

(* The start is over when both tasks are.                                  *)
LEMMA StartedStep ==
  ASSUME IInv, Started
  PROVE  IInv'
<1>10. TypeOK'
  BY DEF IInv, Started, taskVars, roleVars, lockVars, genVars, viewVars,
     Settle, TypeOK, Rounds
<1>11. TaskInv'
  BY DEF IInv, Started, taskVars, roleVars, lockVars, genVars, viewVars,
     Settle, TaskInv
<1>12. NoOrphanLock'
  BY DEF IInv, Started, taskVars, roleVars, lockVars, genVars, viewVars,
     Settle, NoOrphanLock
<1>13. LockInv'
  BY DEF IInv, Started, taskVars, roleVars, lockVars, genVars, viewVars,
     Settle, LockInv
<1>14. StageInv'
  BY DEF IInv, Started, taskVars, roleVars, lockVars, genVars, viewVars,
     Settle, StageInv
<1>15. PrepareInv'
  BY DEF IInv, Started, taskVars, roleVars, lockVars, genVars, viewVars,
     Settle, PrepareInv
<1>16. CleanupInv'
  BY DEF IInv, Started, taskVars, roleVars, lockVars, genVars, viewVars,
     Settle, CleanupInv, Scope
<1>17. RunsOnItsOwn'
  BY DEF IInv, Started, taskVars, roleVars, lockVars, genVars, viewVars,
     Settle, RunsOnItsOwn
<1>18. RegistryInv'
  BY DEF IInv, Started, taskVars, roleVars, lockVars, genVars, viewVars,
     Settle, RegistryInv, Readers
<1>19. FreshServices'
  BY DEF IInv, Started, taskVars, roleVars, lockVars, genVars, viewVars,
     Settle, FreshServices
<1> QED BY <1>10, <1>11, <1>12, <1>13, <1>14, <1>15, <1>16, <1>17, <1>18,
     <1>19 DEF IInv

(* A reconfiguration cleans up what it changes.                            *)
LEMMA BeginCleanupStep ==
  ASSUME IInv, BeginCleanup
  PROVE  IInv'
<1>1. phase' \in [Roles -> {"absent", "starting", "running", "stopping",
                             "failed", "stopped"}]
  BY DEF IInv, TypeOK, BeginCleanup, Leaving
<1>2. mode = "apply"
  BY DEF BeginCleanup, IInv, TypeOK, TaskInv
<1>10. TypeOK'
  BY <1>1 DEF IInv, BeginCleanup, taskVars, roleVars, lockVars, genVars,
     viewVars, TypeOK, Rounds
<1>11. TaskInv'
  BY DEF IInv, BeginCleanup, taskVars, roleVars, lockVars, genVars,
     viewVars, TaskInv
<1>12. NoOrphanLock'
  BY DEF IInv, BeginCleanup, taskVars, roleVars, lockVars, genVars,
     viewVars, NoOrphanLock
<1>13. LockInv'
  BY DEF IInv, BeginCleanup, taskVars, roleVars, lockVars, genVars,
     viewVars, LockInv
<1>14. StageInv'
  BY DEF IInv, BeginCleanup, taskVars, roleVars, lockVars, genVars,
     viewVars, StageInv
<1>15. PrepareInv'
  BY DEF IInv, BeginCleanup, taskVars, roleVars, lockVars, genVars,
     viewVars, PrepareInv
<1>16. CleanupInv'
  BY <1>2 DEF IInv, BeginCleanup, taskVars, roleVars, lockVars, genVars,
     viewVars, CleanupInv, Scope
<1>17. RunsOnItsOwn'
  BY DEF IInv, BeginCleanup, taskVars, roleVars, lockVars, genVars,
     viewVars, RunsOnItsOwn
<1>18. RegistryInv'
  BY DEF IInv, BeginCleanup, taskVars, roleVars, lockVars, genVars,
     viewVars, RegistryInv, Readers
<1>19. FreshServices'
  BY DEF IInv, BeginCleanup, taskVars, roleVars, lockVars, genVars,
     viewVars, FreshServices
<1> QED BY <1>10, <1>11, <1>12, <1>13, <1>14, <1>15, <1>16, <1>17, <1>18,
     <1>19 DEF IInv

(* A cleanup that failed ends the reconfiguration.                         *)
LEMMA GiveUpStep ==
  ASSUME IInv, GiveUp
  PROVE  IInv'
<1>1. phase' \in [Roles -> {"absent", "starting", "running", "stopping",
                             "failed", "stopped"}]
  BY DEF IInv, TypeOK, GiveUp
<1>10. TypeOK'
  BY <1>1 DEF IInv, GiveUp, taskVars, roleVars, lockVars, genVars, viewVars,
     Rejected, Settle, Cleaned, TypeOK, Rounds
<1>11. TaskInv'
  BY DEF IInv, GiveUp, taskVars, roleVars, lockVars, genVars, viewVars,
     Rejected, Settle, Cleaned, TaskInv
<1>12. NoOrphanLock'
  BY DEF IInv, GiveUp, taskVars, roleVars, lockVars, genVars, viewVars,
     Rejected, Settle, Cleaned, NoOrphanLock
<1>13. LockInv'
  BY DEF IInv, GiveUp, taskVars, roleVars, lockVars, genVars, viewVars,
     Rejected, Settle, Cleaned, LockInv
<1>14. StageInv'
  BY DEF IInv, GiveUp, taskVars, roleVars, lockVars, genVars, viewVars,
     Rejected, Settle, Cleaned, StageInv, TypeOK
<1>15. PrepareInv'
  BY DEF IInv, GiveUp, taskVars, roleVars, lockVars, genVars, viewVars,
     Rejected, Settle, Cleaned, PrepareInv
<1>16. CleanupInv'
  BY DEF IInv, GiveUp, taskVars, roleVars, lockVars, genVars, viewVars,
     Rejected, Settle, Cleaned, CleanupInv, Scope
<1>17. RunsOnItsOwn'
  BY DEF IInv, GiveUp, taskVars, roleVars, lockVars, genVars, viewVars,
     Rejected, Settle, Cleaned, RunsOnItsOwn
<1>18. RegistryInv'
  BY DEF IInv, GiveUp, taskVars, roleVars, lockVars, genVars, viewVars,
     Rejected, Settle, Cleaned, RegistryInv, Readers
<1>19. FreshServices'
  BY DEF IInv, GiveUp, taskVars, roleVars, lockVars, genVars, viewVars,
     Rejected, Settle, Cleaned, FreshServices
<1> QED BY <1>10, <1>11, <1>12, <1>13, <1>14, <1>15, <1>16, <1>17, <1>18,
     <1>19 DEF IInv

(* Stop cleans up every role.                                              *)
LEMMA BeginStopStep ==
  ASSUME IInv, BeginStop
  PROVE  IInv'
<1>1. phase' \in [Roles -> {"absent", "starting", "running", "stopping",
                             "failed", "stopped"}]
  BY DEF IInv, TypeOK, BeginStop, Leaving
<1>10. TypeOK'
  BY <1>1 DEF IInv, BeginStop, taskVars, roleVars, lockVars, genVars,
     viewVars, EveryRole, TypeOK, Rounds
<1>11. TaskInv'
  BY DEF IInv, BeginStop, taskVars, roleVars, lockVars, genVars, viewVars,
     EveryRole, TaskInv
<1>12. NoOrphanLock'
  BY DEF IInv, BeginStop, taskVars, roleVars, lockVars, genVars, viewVars,
     EveryRole, NoOrphanLock
<1>13. LockInv'
  BY DEF IInv, BeginStop, taskVars, roleVars, lockVars, genVars, viewVars,
     EveryRole, LockInv
<1>14. StageInv'
  BY DEF IInv, BeginStop, taskVars, roleVars, lockVars, genVars, viewVars,
     EveryRole, StageInv
<1>15. PrepareInv'
  BY DEF IInv, BeginStop, taskVars, roleVars, lockVars, genVars, viewVars,
     EveryRole, PrepareInv
<1>16. CleanupInv'
  BY DEF IInv, BeginStop, taskVars, roleVars, lockVars, genVars, viewVars,
     EveryRole, CleanupInv, Scope
<1>17. RunsOnItsOwn'
  BY DEF IInv, BeginStop, taskVars, roleVars, lockVars, genVars, viewVars,
     EveryRole, RunsOnItsOwn
<1>18. RegistryInv'
  BY DEF IInv, BeginStop, taskVars, roleVars, lockVars, genVars, viewVars,
     EveryRole, RegistryInv, Readers
<1>19. FreshServices'
  BY DEF IInv, BeginStop, taskVars, roleVars, lockVars, genVars, viewVars,
     EveryRole, FreshServices
<1> QED BY <1>10, <1>11, <1>12, <1>13, <1>14, <1>15, <1>16, <1>17, <1>18,
     <1>19 DEF IInv

(* The node goes when no role runs.                                        *)
LEMMA FinishStopStep ==
  ASSUME IInv, FinishStop
  PROVE  IInv'
<1>1. phase' \in [Roles -> {"absent", "starting", "running", "stopping",
                             "failed", "stopped"}]
  BY DEF IInv, TypeOK, FinishStop
<1>2. /\ ~shown'.available
      /\ shown' \in [available : BOOLEAN, key : Publishers \cup {None},
                     gen : 0..MaxGenerations]
  BY DEF IInv, TypeOK, FinishStop
<1>10. TypeOK'
  BY <1>1, <1>2 DEF IInv, FinishStop, taskVars, roleVars, lockVars, genVars,
     viewVars, Cleaned, TypeOK, Rounds
<1>11. TaskInv'
  BY DEF IInv, FinishStop, taskVars, roleVars, lockVars, genVars, viewVars,
     Cleaned, TaskInv
<1>12. NoOrphanLock'
  BY DEF IInv, FinishStop, taskVars, roleVars, lockVars, genVars, viewVars,
     Cleaned, NoOrphanLock
<1>13. LockInv'
  BY DEF IInv, FinishStop, taskVars, roleVars, lockVars, genVars, viewVars,
     Cleaned, LockInv
<1>14. StageInv'
  BY DEF IInv, FinishStop, taskVars, roleVars, lockVars, genVars, viewVars,
     Cleaned, StageInv
<1>15. PrepareInv'
  BY DEF IInv, FinishStop, taskVars, roleVars, lockVars, genVars, viewVars,
     Cleaned, PrepareInv
<1>16. CleanupInv'
  BY DEF IInv, FinishStop, taskVars, roleVars, lockVars, genVars, viewVars,
     Cleaned, CleanupInv, Scope
<1>17. RunsOnItsOwn'
  BY DEF IInv, FinishStop, taskVars, roleVars, lockVars, genVars, viewVars,
     Cleaned, RunsOnItsOwn, CleanupInv, Scope
<1>18. RegistryInv'
  BY DEF IInv, FinishStop, taskVars, roleVars, lockVars, genVars, viewVars,
     Cleaned, RegistryInv, Readers
<1>19. FreshServices'
  BY <1>2 DEF IInv, FinishStop, taskVars, roleVars, lockVars, genVars,
     viewVars, Cleaned, FreshServices
<1> QED BY <1>10, <1>11, <1>12, <1>13, <1>14, <1>15, <1>16, <1>17, <1>18,
     <1>19 DEF IInv

(* A launch that failed is over.                                           *)
LEMMA AbandonedStep ==
  ASSUME IInv, Abandoned
  PROVE  IInv'
<1>10. TypeOK'
  BY DEF IInv, Abandoned, taskVars, roleVars, lockVars, genVars, viewVars,
     Cleaned, TypeOK, Rounds
<1>11. TaskInv'
  BY DEF IInv, Abandoned, taskVars, roleVars, lockVars, genVars, viewVars,
     Cleaned, TaskInv
<1>12. NoOrphanLock'
  BY DEF IInv, Abandoned, taskVars, roleVars, lockVars, genVars, viewVars,
     Cleaned, NoOrphanLock
<1>13. LockInv'
  BY DEF IInv, Abandoned, taskVars, roleVars, lockVars, genVars, viewVars,
     Cleaned, LockInv
<1>14. StageInv'
  BY DEF IInv, Abandoned, taskVars, roleVars, lockVars, genVars, viewVars,
     Cleaned, StageInv
<1>15. PrepareInv'
  BY DEF IInv, Abandoned, taskVars, roleVars, lockVars, genVars, viewVars,
     Cleaned, PrepareInv
<1>16. CleanupInv'
  BY DEF IInv, Abandoned, taskVars, roleVars, lockVars, genVars, viewVars,
     Cleaned, CleanupInv, Scope
<1>17. RunsOnItsOwn'
  BY DEF IInv, Abandoned, taskVars, roleVars, lockVars, genVars, viewVars,
     Cleaned, RunsOnItsOwn
<1>18. RegistryInv'
  BY DEF IInv, Abandoned, taskVars, roleVars, lockVars, genVars, viewVars,
     Cleaned, RegistryInv, Readers
<1>19. FreshServices'
  BY DEF IInv, Abandoned, taskVars, roleVars, lockVars, genVars, viewVars,
     Cleaned, FreshServices
<1> QED BY <1>10, <1>11, <1>12, <1>13, <1>14, <1>15, <1>16, <1>17, <1>18,
     <1>19 DEF IInv

(* A reconfiguration changes some roles.                                   *)
LEMMA ReconfigureStep ==
  ASSUME IInv, NEW s \in Targets, NEW c, NEW b,
         c = s.roles, b = s.boot, Reconfigure(c, b)
  PROVE  IInv'
<1>1. /\ c \in [Roles -> Configs \cup {None}] /\ b \in Boots
      /\ round + 1 \in Rounds /\ ChangedRoles(c, b) \subseteq Roles
  BY DesktopAssumption
     DEF IInv, TypeOK, Settings, Rounds, Reconfigure, ChangedRoles
<1>2. mode = "apply"
  BY DEF Reconfigure, IInv, TypeOK, TaskInv
<1>3. awaited' \in BOOLEAN /\ moved' \in BOOLEAN
  BY DEF Reconfigure, TransportChanged
<1>4. /\ round' \in Rounds /\ target' \in [Roles -> Configs \cup {None}]
      /\ targetBoot' \in Boots /\ changed' \subseteq Roles
      /\ failure' \in BOOLEAN
      /\ pc' = "drain"
      /\ UNCHANGED <<stopped, mode, todo, roleVars, lockVars, conn, read,
                     genVars, viewVars>>
  BY <1>1 DEF Reconfigure
<1>10. TypeOK'
  BY <1>3, <1>4 DEF IInv, TypeOK, roleVars, lockVars, genVars, viewVars
<1>11. TaskInv'
  BY <1>2 DEF IInv, Reconfigure, taskVars, roleVars, lockVars, genVars,
     viewVars, TransportChanged, ChangedRoles, TaskInv
<1>12. NoOrphanLock'
  BY DEF IInv, Reconfigure, taskVars, roleVars, lockVars, genVars, viewVars,
     TransportChanged, ChangedRoles, NoOrphanLock
<1>13. LockInv'
  BY DEF IInv, Reconfigure, taskVars, roleVars, lockVars, genVars, viewVars,
     TransportChanged, ChangedRoles, LockInv
<1>14. StageInv'
  BY DEF IInv, Reconfigure, taskVars, roleVars, lockVars, genVars, viewVars,
     TransportChanged, ChangedRoles, StageInv
<1>15. PrepareInv'
  BY <1>2 DEF IInv, Reconfigure, taskVars, roleVars, lockVars, genVars,
     viewVars, TransportChanged, ChangedRoles, PrepareInv
<1>16. CleanupInv'
  BY <1>2 DEF IInv, Reconfigure, taskVars, roleVars, lockVars, genVars,
     viewVars, TransportChanged, ChangedRoles, CleanupInv, Scope
<1>17. RunsOnItsOwn'
  BY DEF IInv, Reconfigure, taskVars, roleVars, lockVars, genVars, viewVars,
     TransportChanged, ChangedRoles, RunsOnItsOwn
<1>18. RegistryInv'
  BY DEF IInv, Reconfigure, taskVars, roleVars, lockVars, genVars, viewVars,
     TransportChanged, ChangedRoles, RegistryInv, Readers
<1>19. FreshServices'
  BY DEF IInv, Reconfigure, taskVars, roleVars, lockVars, genVars, viewVars,
     TransportChanged, ChangedRoles, FreshServices
<1> QED BY <1>10, <1>11, <1>12, <1>13, <1>14, <1>15, <1>16, <1>17, <1>18,
     <1>19 DEF IInv

(* The new configuration is taken over by roles without a lock.            *)
LEMMA AdoptStep ==
  ASSUME IInv, Adopt
  PROVE  IInv'
<1>1. /\ pc = "cleanup" /\ mode = "apply" /\ ~failure /\ todo = {}
      /\ \A r \in Roles : stage[r] = "idle"
      /\ changed \subseteq Roles /\ target \in [Roles -> Configs \cup {None}]
      /\ moved => changed = Roles
      /\ \A r \in Roles \ changed : target[r] = opt[r]
  BY DEF IInv, TypeOK, TaskInv, Adopt, Cleaned
<1>2. \A r \in changed : lock[r] = None /\ run[r] = None
  BY <1>1 DEF IInv, CleanupInv, Scope
<1>3. /\ opt' = target /\ pc' = "prepare"
      /\ \A r \in Roles :
           lock'[r] = IF r \in changed THEN None ELSE lock[r]
      /\ UNCHANGED <<mode, changed, moved, target, held, run, peer, ranOn,
                     dht>>
  BY DEF Adopt
<1>4. /\ prep' \in [Roles -> {"none", "busy", "ok", "failed"}]
      /\ \A r \in changed : prep'[r] # "ok"
      /\ \A r \in Roles : prep'[r] = "busy" =>
           r \in changed /\ target[r] # None
  <2>1. \A r \in Roles : prep[r] # "busy"
    BY <1>1 DEF IInv, PrepareInv
  <2>2. prep \in [Roles -> {"none", "busy", "ok", "failed"}]
    BY DEF IInv, TypeOK
  <2> QED BY <1>1, <2>1, <2>2 DEF Adopt
<1>5. /\ phase' \in [Roles -> {"absent", "starting", "running", "stopping",
                              "failed", "stopped"}]
      /\ lock' \in [Roles -> Configs \cup {None}]
      /\ shown' \in [available : BOOLEAN, key : Publishers \cup {None},
                     gen : 0..MaxGenerations]
  <2>1. NoServices \in [available : BOOLEAN, key : Publishers \cup {None},
                        gen : 0..MaxGenerations]
    BY DesktopAssumption DEF NoServices
  <2>2. shown' \in [available : BOOLEAN, key : Publishers \cup {None},
                    gen : 0..MaxGenerations]
    BY <2>1 DEF IInv, TypeOK, Adopt
  <2>3. lock' \in [Roles -> Configs \cup {None}]
    BY DEF IInv, TypeOK, Adopt
  <2>4. phase' \in [Roles -> {"absent", "starting", "running", "stopping",
                            "failed", "stopped"}]
    BY DEF IInv, TypeOK, Adopt, InitialPhase
  <2> QED BY <2>2, <2>3, <2>4
<1>6. \A h \in held : h[1] \in Roles /\ h[2] # None
  BY DesktopAssumption DEF IInv, TypeOK
<1>10. TypeOK'
  <2>1. /\ registry' \in {None, registry} /\ refreshed' \in {None, refreshed}
        /\ observed' \in {None, observed} /\ resetFor' \in {None, resetFor}
        /\ retryDue' \in BOOLEAN /\ resetDue' \in BOOLEAN
    BY DEF IInv, TypeOK, Adopt, genVars
  <2>2. /\ UNCHANGED <<stopped, mode, round, target, targetBoot, changed,
                       moved, awaited, todo, failure, boot, stage, run, peer,
                       ranOn, dht, held, refused, conn, read>>
        /\ opt' = target
    BY DEF Adopt
  <2> QED BY <1>3, <1>4, <1>5, <2>1, <2>2 DEF IInv, TypeOK
<1>11. TaskInv'
  BY <1>1, <1>3 DEF IInv, Adopt, taskVars, roleVars, lockVars, genVars,
     viewVars, Cleaned, TaskInv
<1>12. NoOrphanLock'
  BY <1>2, <1>3, <1>6 DEF IInv, Adopt, taskVars, roleVars, lockVars,
     genVars, viewVars, Cleaned, NoOrphanLock
<1>13. LockInv'
  BY <1>1, <1>3 DEF IInv, Adopt, taskVars, roleVars, lockVars, genVars,
     viewVars, Cleaned, LockInv, TypeOK
<1>14. StageInv'
  BY DEF IInv, Adopt, taskVars, roleVars, lockVars, genVars, viewVars,
     Cleaned, StageInv, TypeOK
<1>15. PrepareInv'
  BY <1>2, <1>3, <1>4 DEF IInv, Adopt, taskVars, roleVars, lockVars,
     genVars, viewVars, Cleaned, PrepareInv
<1>16. CleanupInv'
  BY DEF IInv, Adopt, taskVars, roleVars, lockVars, genVars, viewVars,
     Cleaned, CleanupInv, Scope
<1>17. RunsOnItsOwn'
  BY <1>1, <1>2, <1>3 DEF IInv, Adopt, taskVars, roleVars, lockVars,
     genVars, viewVars, Cleaned, RunsOnItsOwn, TypeOK
<1>18. RegistryInv'
  BY DEF IInv, Adopt, taskVars, roleVars, lockVars, genVars, viewVars,
     Cleaned, RegistryInv, Readers, TypeOK, Roles
<1>19. FreshServices'
  BY DEF IInv, Adopt, taskVars, roleVars, lockVars, genVars, viewVars,
     Cleaned, FreshServices, NoServices
<1> QED BY <1>10, <1>11, <1>12, <1>13, <1>14, <1>15, <1>16, <1>17, <1>18,
     <1>19 DEF IInv

(* A lock is taken by a role that has none.                                *)
LEMMA PrepareStep ==
  ASSUME IInv, NEW r \in Roles, Prepare(r)
  PROVE  IInv'
<1>1. /\ prep' \in [Roles -> {"none", "busy", "ok", "failed"}]
      /\ prep'[r] \in {"ok", "failed"}
      /\ \A t \in Roles \ {r} : prep'[t] = prep[t]
  BY DEF IInv, TypeOK, Prepare
<1>3. /\ pc = "prepare" /\ r \in changed /\ opt[r] # None /\ run[r] = None
      /\ opt[r] \in Configs
      /\ UNCHANGED <<stopped, taskVars, opt, boot, stage, run, peer, ranOn,
                     dht, refused, conn, read, genVars, viewVars>>
  BY DEF IInv, TypeOK, PrepareInv, Prepare
<1>2. /\ lock' \in [Roles -> Configs \cup {None}]
      /\ held' \subseteq Roles \X Configs /\ held \subseteq held'
      /\ \A t \in Roles \ {r} : lock'[t] = lock[t]
      /\ \/ lock' = lock /\ held' = held /\ (prep'[r] = "ok" => lock[r] # None)
         \/ /\ lock[r] = None /\ lock'[r] = opt[r]
            /\ held' = held \cup {<<r, opt[r]>>}
  <2>1. CASE lock[r] # None /\ UNCHANGED <<lock, held>>
    BY <2>1 DEF IInv, TypeOK
  <2>2. CASE /\ lock[r] = None /\ lock' = [lock EXCEPT ![r] = opt[r]]
             /\ held' = held \cup {<<r, opt[r]>>}
    BY <1>3, <2>2 DEF IInv, TypeOK
  <2>3. CASE /\ prep' = [prep EXCEPT ![r] = "failed"]
             /\ UNCHANGED <<lock, held>>
    BY <2>3 DEF IInv, TypeOK
  <2> QED BY <2>1, <2>2, <2>3 DEF Prepare, NotTaken
<1>4. /\ \A h \in held : h[1] \in Roles /\ h[2] # None
      /\ <<r, opt[r]>>[1] = r /\ <<r, opt[r]>>[2] = opt[r]
  BY DesktopAssumption DEF IInv, TypeOK
<1>5. stage[r] # "starting"
  BY <1>3 DEF IInv, StageInv
<1>10. TypeOK'
  BY <1>1, <1>2, <1>3 DEF IInv, Prepare, taskVars, roleVars, lockVars,
     genVars, viewVars, TypeOK, Rounds
<1>11. TaskInv'
  BY <1>3 DEF IInv, Prepare, taskVars, roleVars, lockVars, genVars,
     viewVars, TaskInv
<1>12. NoOrphanLock'
  BY <1>2, <1>4 DEF IInv, Prepare, taskVars, roleVars, lockVars, genVars,
     viewVars, NoOrphanLock
<1>13. LockInv'
  BY <1>2, <1>3 DEF IInv, Prepare, taskVars, roleVars, lockVars, genVars,
     viewVars, LockInv
<1>14. StageInv'
  BY <1>1, <1>2, <1>3, <1>5 DEF IInv, Prepare, taskVars, roleVars, lockVars,
     genVars, viewVars, StageInv
<1>15. PrepareInv'
  BY <1>1, <1>2, <1>3 DEF IInv, Prepare, taskVars, roleVars, lockVars,
     genVars, viewVars, PrepareInv
<1>16. CleanupInv'
  BY <1>3 DEF IInv, Prepare, taskVars, roleVars, lockVars, genVars,
     viewVars, CleanupInv, Scope
<1>17. RunsOnItsOwn'
  BY <1>2, <1>3 DEF IInv, Prepare, taskVars, roleVars, lockVars, genVars,
     viewVars, RunsOnItsOwn, PrepareInv
<1>18. RegistryInv'
  BY <1>3 DEF IInv, Prepare, taskVars, roleVars, lockVars, genVars,
     viewVars, RegistryInv, Readers
<1>19. FreshServices'
  BY <1>3 DEF IInv, Prepare, taskVars, roleVars, lockVars, genVars,
     viewVars, FreshServices
<1> QED BY <1>10, <1>11, <1>12, <1>13, <1>14, <1>15, <1>16, <1>17, <1>18,
     <1>19 DEF IInv

(* A role that fails to start has its lock released.                       *)
LEMMA RoleFailsToStartStep ==
  ASSUME IInv, NEW r \in Roles, RoleFailsToStart(r)
  PROVE  IInv'
<1>1. /\ stage' \in [Roles -> {"idle", "starting", "reading", "closing",
                             "releasing"}]
      /\ stage'[r] = "releasing"
      /\ \A t \in Roles \ {r} : stage'[t] = stage[t]
  BY DEF IInv, TypeOK, RoleFailsToStart
<1>2. /\ phase' \in [Roles -> {"absent", "starting", "running", "stopping",
                              "failed", "stopped"}]
      /\ shown' \in [available : BOOLEAN, key : Publishers \cup {None},
                     gen : 0..MaxGenerations]
  <2>1. NoServices \in [available : BOOLEAN, key : Publishers \cup {None},
                        gen : 0..MaxGenerations]
    BY DesktopAssumption DEF NoServices
  <2>2. shown' \in [available : BOOLEAN, key : Publishers \cup {None},
                    gen : 0..MaxGenerations]
    BY <2>1 DEF IInv, TypeOK, RoleFailsToStart
  <2> QED BY <2>2 DEF IInv, TypeOK, RoleFailsToStart
<1>10. TypeOK'
  BY <1>1, <1>2 DEF IInv, RoleFailsToStart, taskVars, roleVars, lockVars,
     genVars, viewVars, TypeOK, Rounds
<1>11. TaskInv'
  BY DEF IInv, RoleFailsToStart, taskVars, roleVars, lockVars, genVars,
     viewVars, TaskInv
<1>12. NoOrphanLock'
  BY DEF IInv, RoleFailsToStart, taskVars, roleVars, lockVars, genVars,
     viewVars, NoOrphanLock
<1>13. LockInv'
  BY DEF IInv, RoleFailsToStart, taskVars, roleVars, lockVars, genVars,
     viewVars, LockInv
<1>14. StageInv'
  BY <1>1 DEF IInv, RoleFailsToStart, taskVars, roleVars, lockVars, genVars,
     viewVars, StageInv, Roles
<1>15. PrepareInv'
  BY DEF IInv, RoleFailsToStart, taskVars, roleVars, lockVars, genVars,
     viewVars, PrepareInv
<1>16. CleanupInv'
  BY <1>1 DEF IInv, RoleFailsToStart, taskVars, roleVars, lockVars, genVars,
     viewVars, CleanupInv, Scope, StageInv
<1>17. RunsOnItsOwn'
  BY DEF IInv, RoleFailsToStart, taskVars, roleVars, lockVars, genVars,
     viewVars, RunsOnItsOwn
<1>18. RegistryInv'
  BY <1>1 DEF IInv, RoleFailsToStart, taskVars, roleVars, lockVars, genVars,
     viewVars, RegistryInv, Readers, Roles
<1>19. FreshServices'
  BY DEF IInv, RoleFailsToStart, taskVars, roleVars, lockVars, genVars,
     viewVars, FreshServices, NoServices
<1> QED BY <1>10, <1>11, <1>12, <1>13, <1>14, <1>15, <1>16, <1>17, <1>18,
     <1>19 DEF IInv

(* The node is replaced while no role runs on it.                          *)
LEMMA TransportStep ==
  ASSUME IInv, Transport
  PROVE  IInv'
<1>1. /\ pc = "prepare" /\ mode \in {"launch", "apply"}
      /\ \A r \in Roles : prep[r] # "busy" /\ stage[r] = "idle"
      /\ changed \subseteq Roles
      /\ stage \in [Roles -> {"idle", "starting", "reading", "closing",
                              "releasing"}]
  BY DEF IInv, TypeOK, TaskInv, StageInv, Transport
<1>2. UNCHANGED <<stopped, round, target, targetBoot, changed, moved,
                  awaited, failure, opt, prep, run, peer, ranOn, lockVars, conn,
                  read, genVars, shown>>
  BY DEF Transport
<1>3. \A r \in changed : run[r] = None /\ (prep[r] = "ok" => lock[r] # None)
  BY <1>1 DEF IInv, PrepareInv
<1>4. mode = "launch" \/ moved => \A r \in Roles : run[r] = None
  <2>1. CASE mode = "launch"
    <3>1. changed = Configured(opt)
      BY <2>1 DEF IInv, TaskInv
    <3>2. ASSUME NEW r \in Roles, run[r] # None PROVE opt[r] # None
      <4>1. <<r, opt[r]>> \in held /\ held \subseteq Roles \X Configs
        BY <3>2 DEF IInv, TypeOK, RunsOnItsOwn
      <4> QED BY <4>1, DesktopAssumption
    <3> QED BY <1>3, <3>1, <3>2 DEF Configured
  <2>2. CASE mode = "apply" /\ moved
    BY <1>1, <1>3, <2>2 DEF IInv, TaskInv
  <2> QED BY <1>1, <2>1, <2>2
<1>5. CASE /\ IF moved THEN dht' = round /\ boot' = targetBoot
                       ELSE UNCHANGED <<dht, boot>>
           /\ IF stopped THEN Settle /\ UNCHANGED stage ELSE StartRoles
           /\ UNCHANGED <<phase, todo>>
  <2>1. /\ dht' \in Rounds \cup {None} /\ boot' \in Boots
        /\ moved \/ dht' = dht
    BY <1>5 DEF IInv, TypeOK
  <2>2. /\ pc' \in {"idle", "start"}
        /\ \/ pc' = "idle" /\ mode' = "apply"
           \/ pc' = "start" /\ mode' = mode
    BY <1>5 DEF Settle, StartRoles
  <2>3. /\ stage' \in [Roles -> {"idle", "starting", "reading", "closing",
                                "releasing"}]
        /\ \A r \in Roles :
             \/ stage'[r] = "idle"
             \/ /\ stage'[r] = "starting" /\ r \in changed /\ pc' = "start"
    BY <1>1, <1>5 DEF Settle, StartRoles
  <2>4. TypeOK'
    BY <1>1, <1>2, <1>5, <2>1, <2>2, <2>3
       DEF IInv, TypeOK, lockVars, genVars
  <2>5. TaskInv'
    BY <1>1, <1>2, <2>2 DEF IInv, TaskInv
  <2>6. NoOrphanLock' /\ LockInv' /\ FreshServices'
    BY <1>2 DEF IInv, NoOrphanLock, LockInv, FreshServices, lockVars, genVars
  <2>7. StageInv'
    BY <1>1, <1>2, <1>3, <2>3 DEF IInv, StageInv, lockVars, Roles
  <2>8. PrepareInv' /\ CleanupInv'
    BY <1>1, <1>2, <2>2 DEF PrepareInv, CleanupInv
  <2>9. RunsOnItsOwn'
    BY <1>2, <1>4, <2>1 DEF IInv, RunsOnItsOwn, lockVars
  <2>10. RegistryInv'
    BY <1>1, <1>2, <2>2, <2>3 DEF IInv, RegistryInv, genVars, Roles
  <2> QED BY <2>4, <2>5, <2>6, <2>7, <2>8, <2>9, <2>10 DEF IInv
<1>6. CASE \/ /\ mode = "launch" /\ TransportFailure
              /\ mode' = "abandon" /\ pc' = "cleanup" /\ todo' = Roles
              /\ UNCHANGED dht
           \/ /\ mode = "apply" /\ moved /\ TransportFailure /\ Rejected
              /\ dht' \in {None, dht}
              /\ UNCHANGED todo
  <2>1. /\ boot' = boot /\ stage' = stage
        /\ phase' \in [Roles -> {"absent", "starting", "running", "stopping",
                                 "failed", "stopped"}]
    BY <1>6 DEF TransportFailure
  <2>2. /\ dht' \in Rounds \cup {None} /\ \A r \in Roles : run[r] = None
    BY <1>4, <1>6 DEF IInv, TypeOK
  <2>3. \/ pc' = "cleanup" /\ mode' = "abandon" /\ todo' = Roles
        \/ pc' = "idle" /\ mode' = "apply" /\ todo' = todo
    BY <1>6 DEF Rejected, Settle
  <2>4. TypeOK'
    BY <1>2, <2>1, <2>2, <2>3 DEF IInv, TypeOK, lockVars, genVars
  <2>5. TaskInv'
    BY <1>2, <2>3 DEF IInv, TaskInv
  <2>6. NoOrphanLock' /\ LockInv' /\ FreshServices'
    BY <1>2 DEF IInv, NoOrphanLock, LockInv, FreshServices, lockVars, genVars
  <2>7. StageInv'
    BY <1>1, <1>2, <2>1 DEF IInv, StageInv, Roles
  <2>8. PrepareInv' /\ CleanupInv'
    BY <1>1, <1>2, <2>3 DEF PrepareInv, CleanupInv, Scope
  <2>9. RunsOnItsOwn'
    BY <1>2, <2>2 DEF RunsOnItsOwn
  <2>10. RegistryInv'
    BY <1>1, <1>2, <2>1, <2>3 DEF IInv, RegistryInv, genVars, Roles
  <2> QED BY <2>4, <2>5, <2>6, <2>7, <2>8, <2>9, <2>10 DEF IInv
<1> QED BY <1>5, <1>6 DEF Transport

(* A read that ends leaves everything but itself and the role's start.     *)
LEMMA ReadEndsEffect ==
  ASSUME IInv, NEW x \in Readers, ReadEnds(x)
  PROVE  /\ read' \in [Readers -> Reads \cup {None}]
         /\ \A y \in Readers : read'[y] = None \/ read'[y] = read[y]
         /\ stage' \in [Roles -> {"idle", "starting", "reading", "closing",
                                  "releasing"}]
         /\ \A r \in Roles :
              \/ stage'[r] = stage[r]
              \/ stage[r] = "reading" /\ stage'[r] = "idle"
         /\ awaited' \in BOOLEAN
         /\ TaskInv' /\ NoOrphanLock' /\ LockInv' /\ StageInv' /\ PrepareInv'
         /\ CleanupInv' /\ RunsOnItsOwn'
<1>1. /\ read' = [read EXCEPT ![x] = None] /\ read[x] # None
      /\ UNCHANGED <<mode, pc, round, target, targetBoot, changed, moved,
                     todo, failure, opt, boot, prep, run, peer, ranOn, dht,
                     lockVars>>
  BY DEF ReadEnds
<1>2. /\ read' \in [Readers -> Reads \cup {None}] /\ read'[x] = None
      /\ \A y \in Readers \ {x} : read'[y] = read[y]
  BY <1>1 DEF IInv, TypeOK
<1>3. /\ "subscriber" \in Roles /\ "start" \in Readers
      /\ stage \in [Roles -> {"idle", "starting", "reading", "closing",
                              "releasing"}]
  BY DEF Roles, Readers, IInv, TypeOK
<1>4. \/ x = "poll" /\ stage' = stage /\ awaited' = FALSE
      \/ /\ x = "start" /\ stage["subscriber"] = "reading"
         /\ stage' = [stage EXCEPT !["subscriber"] = "idle"]
         /\ awaited' = awaited
  BY <1>1 DEF ReadEnds, Readers, IInv, StageInv
<1>5. /\ stage' \in [Roles -> {"idle", "starting", "reading", "closing",
                               "releasing"}]
      /\ \A r \in Roles :
           \/ stage'[r] = stage[r]
           \/ stage[r] = "reading" /\ stage'[r] = "idle"
      /\ read'["start"] # None => stage'["subscriber"] = "reading"
  <2>1. CASE x = "poll" /\ stage' = stage
    BY <1>2, <1>3, <2>1 DEF IInv, StageInv
  <2>2. CASE /\ x = "start" /\ stage["subscriber"] = "reading"
             /\ stage' = [stage EXCEPT !["subscriber"] = "idle"]
    BY <1>2, <1>3, <2>2
  <2> QED BY <1>4, <2>1, <2>2
<1>6. awaited' \in BOOLEAN
  BY <1>4 DEF IInv, TypeOK
<1>7. TaskInv' /\ NoOrphanLock' /\ LockInv'
  BY <1>1 DEF IInv, TaskInv, NoOrphanLock, LockInv, lockVars
<1>8. StageInv'
  BY <1>1, <1>5 DEF IInv, StageInv, lockVars
<1>9. PrepareInv' /\ RunsOnItsOwn'
  BY <1>1 DEF IInv, PrepareInv, RunsOnItsOwn, lockVars
<1>10. CleanupInv'
  <2>1. pc \in {"cleanup", "done", "dead"} => stage' = stage
    BY <1>4 DEF IInv, StageInv, Roles
  <2> QED BY <1>1, <2>1 DEF IInv, CleanupInv, Scope, lockVars
<1> QED BY <1>2, <1>5, <1>6, <1>7, <1>8, <1>9, <1>10

(* The answer to a read whose subscriber is gone changes nothing else.     *)
LEMMA AnswerLostStep ==
  ASSUME IInv, NEW x \in Readers, AnswerLost(x)
  PROVE  IInv'
<1>1. /\ read' \in [Readers -> Reads \cup {None}]
      /\ \A y \in Readers : read'[y] = None \/ read'[y] = read[y]
      /\ stage' \in [Roles -> {"idle", "starting", "reading", "closing",
                               "releasing"}]
      /\ \A r \in Roles :
           \/ stage'[r] = stage[r]
           \/ stage[r] = "reading" /\ stage'[r] = "idle"
      /\ awaited' \in BOOLEAN
      /\ TaskInv' /\ NoOrphanLock' /\ LockInv' /\ StageInv' /\ PrepareInv'
      /\ CleanupInv' /\ RunsOnItsOwn'
  BY ReadEndsEffect DEF AnswerLost
<1>2. UNCHANGED <<stopped, mode, pc, round, target, targetBoot, changed,
                  moved, todo, failure, opt, boot, prep, run, peer, ranOn, dht,
                  lockVars, conn, genVars, viewVars>>
  BY DEF AnswerLost, ReadEnds
<1>3. TypeOK'
  BY <1>1, <1>2 DEF IInv, TypeOK, lockVars, genVars, viewVars
<1>4. RegistryInv' /\ FreshServices'
  BY <1>1, <1>2
     DEF IInv, RegistryInv, FreshServices, genVars, viewVars, Roles
<1> QED BY <1>1, <1>3, <1>4 DEF IInv

(* What an answer may do to the registry and to what is shown.             *)
LEMMA AnswerEffect ==
  ASSUME IInv, NEW x \in Readers, run["subscriber"] # None, read[x] # None,
         IF AnswerCounts(x)
           THEN Accept(x) \/ Fail(x, FALSE) \/ Fail(x, TRUE)
           ELSE /\ shown' = Show(conn, registry, refreshed = conn.gen)
                /\ UNCHANGED <<conn, genVars>>
  PROVE  /\ conn' \in Links /\ conn'.gen = conn.gen /\ (conn'.up => conn.up)
         /\ \/ registry' = registry /\ refreshed' = refreshed
            \/ /\ registry' = read[x] /\ refreshed' = read[x].gen
               /\ read[x] \in Reads /\ read[x].key = peer
         /\ observed' \in 1..MaxGenerations \cup {None}
         /\ resetFor' \in 1..MaxGenerations \cup {None}
         /\ retryDue' \in BOOLEAN /\ resetDue' \in BOOLEAN
         /\ shown' \in [available : BOOLEAN, key : Publishers \cup {None},
                        gen : 0..MaxGenerations]
         /\ shown'.key = peer /\ shown'.gen = conn.gen
         /\ shown'.available => registry' # None /\ refreshed' = conn.gen
<1>1. /\ read[x] \in Reads /\ conn \in Links /\ conn.up \in BOOLEAN
      /\ read[x].gen \in 1..MaxGenerations
  BY DEF IInv, TypeOK, Reads, Links
<1>2. /\ observed \in 1..MaxGenerations \cup {None}
      /\ resetFor \in 1..MaxGenerations \cup {None}
      /\ retryDue \in BOOLEAN /\ resetDue \in BOOLEAN
  BY DEF IInv, TypeOK
<1>3. ASSUME NEW link \in Links, NEW reg, NEW current \in BOOLEAN,
             link.gen = conn.gen, shown' = Show(link, reg, current)
      PROVE  /\ shown' \in [available : BOOLEAN, key : Publishers \cup {None},
                            gen : 0..MaxGenerations]
             /\ shown'.key = peer /\ shown'.gen = conn.gen
             /\ shown'.available => reg # None /\ current
  <2>1. Show(link, reg, current) \in
          [available : BOOLEAN, key : Publishers \cup {None},
           gen : 0..MaxGenerations]
    BY ShowType DEF IInv
  <2> QED BY <1>3, <2>1 DEF Show
<1>4. CASE AnswerCounts(x) /\ Accept(x)
  <2>1. /\ conn' = conn /\ registry' = read[x] /\ refreshed' = read[x].gen
        /\ observed' = observed /\ resetFor' = resetFor
        /\ retryDue' \in BOOLEAN /\ resetDue' \in BOOLEAN
        /\ shown' = Show(conn, read[x], read[x].gen = conn.gen)
    BY <1>4 DEF Accept
  <2>2. read[x].key = peer /\ read[x].gen = conn.gen
    BY <1>4 DEF AnswerCounts, Accept, FromItsPublisher
  <2>3. /\ shown' \in [available : BOOLEAN, key : Publishers \cup {None},
                       gen : 0..MaxGenerations]
        /\ shown'.key = peer /\ shown'.gen = conn.gen
        /\ shown'.available => read[x] # None /\ read[x].gen = conn.gen
    BY <1>1, <1>3, <2>1
  <2> QED BY <1>1, <1>2, <2>1, <2>2, <2>3
<1>5. ASSUME NEW timedOut \in BOOLEAN, Fail(x, timedOut)
      PROVE  /\ conn' \in Links /\ conn'.gen = conn.gen
             /\ conn'.up => conn.up \/ conn.gen # read[x].gen
             /\ registry' = registry /\ refreshed' = refreshed
             /\ observed' = observed
             /\ resetFor' \in 1..MaxGenerations \cup {None}
             /\ retryDue' \in BOOLEAN /\ resetDue' \in BOOLEAN
             /\ shown' = Show(conn', registry, refreshed = conn.gen)
  <2>1. /\ conn' = conn \/ conn' = [conn EXCEPT !.up = conn.gen # read[x].gen]
        /\ resetFor' = resetFor \/ resetFor' = read[x].gen
        /\ resetDue' = resetDue \/ resetDue' = FALSE
        /\ retryDue' = FALSE
        /\ registry' = registry /\ refreshed' = refreshed
        /\ observed' = observed
        /\ shown' = Show(conn', registry, refreshed = conn.gen)
    BY <1>5 DEF Fail
  <2>2. /\ conn' \in Links /\ conn'.gen = conn.gen
        /\ conn'.up => conn.up \/ conn.gen # read[x].gen
    <3>1. CASE conn' = conn
      BY <1>1, <3>1
    <3>2. CASE conn' = [conn EXCEPT !.up = conn.gen # read[x].gen]
      <4>1. (conn.gen # read[x].gen) \in BOOLEAN
        OBVIOUS
      <4> QED BY <1>1, <3>2, <4>1 DEF Links
    <3> QED BY <2>1, <3>1, <3>2
  <2> QED BY <1>1, <1>2, <2>1, <2>2
<1>6. CASE AnswerCounts(x) /\ (Fail(x, FALSE) \/ Fail(x, TRUE))
  <2>1. /\ conn' \in Links /\ conn'.gen = conn.gen
        /\ registry' = registry /\ refreshed' = refreshed
        /\ observed' = observed
        /\ resetFor' \in 1..MaxGenerations \cup {None}
        /\ retryDue' \in BOOLEAN /\ resetDue' \in BOOLEAN
        /\ shown' = Show(conn', registry, refreshed = conn.gen)
    BY <1>5, <1>6
  <2>2. conn.up
    BY <1>6 DEF AnswerCounts
  <2>3. /\ shown' \in [available : BOOLEAN, key : Publishers \cup {None},
                       gen : 0..MaxGenerations]
        /\ shown'.key = peer /\ shown'.gen = conn.gen
        /\ shown'.available => registry # None /\ refreshed = conn.gen
    BY <1>3, <2>1
  <2> QED BY <1>2, <2>1, <2>2, <2>3
<1>7. CASE ~AnswerCounts(x)
  <2>1. /\ shown' = Show(conn, registry, refreshed = conn.gen)
        /\ UNCHANGED <<conn, genVars>>
    BY <1>7
  <2>2. /\ shown' \in [available : BOOLEAN, key : Publishers \cup {None},
                       gen : 0..MaxGenerations]
        /\ shown'.key = peer /\ shown'.gen = conn.gen
        /\ shown'.available => registry # None /\ refreshed = conn.gen
    BY <1>1, <1>3, <2>1
  <2> QED BY <1>1, <1>2, <2>1, <2>2 DEF genVars
<1> QED BY <1>4, <1>6, <1>7

(* A registry is taken over only from the connection that is up.           *)
LEMMA AnsweredStep ==
  ASSUME IInv, NEW x \in Readers, Answered(x)
  PROVE  IInv'
<1>1. /\ read' \in [Readers -> Reads \cup {None}]
      /\ \A y \in Readers : read'[y] = None \/ read'[y] = read[y]
      /\ stage' \in [Roles -> {"idle", "starting", "reading", "closing",
                               "releasing"}]
      /\ \A r \in Roles :
           \/ stage'[r] = stage[r]
           \/ stage[r] = "reading" /\ stage'[r] = "idle"
      /\ awaited' \in BOOLEAN
      /\ TaskInv' /\ NoOrphanLock' /\ LockInv' /\ StageInv' /\ PrepareInv'
      /\ CleanupInv' /\ RunsOnItsOwn'
  BY ReadEndsEffect DEF Answered
<1>2. UNCHANGED <<stopped, mode, pc, round, target, targetBoot, changed,
                  moved, todo, failure, opt, boot, prep, run, peer, ranOn, dht,
                  lockVars>>
  BY DEF Answered, ReadEnds
<1>3. /\ run["subscriber"] # None /\ read[x] # None
      /\ IF AnswerCounts(x)
           THEN Accept(x) \/ Fail(x, FALSE) \/ Fail(x, TRUE)
           ELSE /\ shown' = Show(conn, registry, refreshed = conn.gen)
                /\ UNCHANGED <<conn, genVars>>
  BY DEF Answered
<1>4. /\ conn' \in Links /\ conn'.gen = conn.gen /\ (conn'.up => conn.up)
      /\ \/ registry' = registry /\ refreshed' = refreshed
         \/ /\ registry' = read[x] /\ refreshed' = read[x].gen
            /\ read[x] \in Reads /\ read[x].key = peer
      /\ observed' \in 1..MaxGenerations \cup {None}
      /\ resetFor' \in 1..MaxGenerations \cup {None}
      /\ retryDue' \in BOOLEAN /\ resetDue' \in BOOLEAN
      /\ shown' \in [available : BOOLEAN, key : Publishers \cup {None},
                     gen : 0..MaxGenerations]
      /\ shown'.key = peer /\ shown'.gen = conn.gen
      /\ shown'.available => registry' # None /\ refreshed' = conn.gen
  BY <1>3, AnswerEffect
<1>5. /\ registry' \in Reads \cup {None}
      /\ refreshed' \in 1..MaxGenerations \cup {None}
  BY <1>4 DEF IInv, TypeOK, Reads
<1>6. phase' \in [Roles -> {"absent", "starting", "running", "stopping",
                            "failed", "stopped"}]
  BY DEF IInv, TypeOK, Answered
<1>7. TypeOK'
  BY <1>1, <1>2, <1>4, <1>5, <1>6 DEF IInv, TypeOK, lockVars
<1>8. RegistryInv'
  <2>1. stage["subscriber"] # "starting" /\ stage'["subscriber"] # "starting"
    BY <1>1, <1>3 DEF IInv, StageInv, Roles
  <2>2. pc = "prepare" => "subscriber" \notin changed
    BY <1>3 DEF IInv, PrepareInv, Roles
  <2>3. registry' # None =>
          refreshed' = registry'.gen /\ registry'.key = peer
    BY <1>3, <1>4 DEF IInv, RegistryInv
  <2>4. /\ conn'.up => conn'.gen # 0
        /\ run["subscriber"] # None => peer # None
    BY <1>4 DEF IInv, RegistryInv
  <2> QED BY <1>2, <2>1, <2>2, <2>3, <2>4 DEF RegistryInv
<1>9. FreshServices'
  <2>1. SUFFICES ASSUME shown'.available
                 PROVE  registry' = [key |-> shown'.key, gen |-> shown'.gen]
    BY DEF FreshServices
  <2>2. registry' # None /\ refreshed' = conn.gen /\ registry' \in Reads
    BY <1>4, <1>5, <2>1
  <2>3. registry'.gen = conn.gen /\ registry'.key = peer
    BY <1>3, <1>4, <2>2 DEF IInv, RegistryInv
  <2> QED BY <1>4, <2>2, <2>3 DEF Reads
<1> QED BY <1>1, <1>7, <1>8, <1>9 DEF IInv

(* A poll reads, or shows what it has, of the subscriber that runs.        *)
LEMMA PollStep ==
  ASSUME IInv, Poll
  PROVE  IInv'
<1>1. UNCHANGED <<stopped, taskVars, roleVars, lockVars, conn>>
  BY DEF Poll
<1>2. /\ observed' \in 1..MaxGenerations \cup {None}
      /\ resetFor' \in 1..MaxGenerations \cup {None}
      /\ retryDue' \in BOOLEAN
      /\ UNCHANGED <<registry, refreshed, resetDue>>
      /\ read' \in [Readers -> Reads \cup {None}]
      /\ \A y \in Readers :
           \/ read'[y] = read[y]
           \/ y = "poll" /\ conn.up /\ read'[y].key = peer
      /\ shown' \in [available : BOOLEAN, key : Publishers \cup {None},
                     gen : 0..MaxGenerations]
      /\ \/ shown' = shown
         \/ /\ shown'.available => registry # None /\ refreshed = conn.gen
            /\ shown'.key = peer /\ shown'.gen = conn.gen
            /\ run["subscriber"] # None
  <2>1. CASE run["subscriber"] = None
    BY <2>1 DEF Poll, genVars, IInv, TypeOK
  <2>2. CASE run["subscriber"] # None
    <3>1. /\ "poll" \in Readers /\ conn \in Links
          /\ peer \in Publishers
          /\ conn.up => conn.gen # 0
      BY <2>2 DEF Readers, IInv, TypeOK, RegistryInv
    <3>2. UpdateSubscriber("poll", conn, peer)
      BY <2>2 DEF Poll
    <3>3. TypeOK
      BY DEF IInv
    <3>4. /\ observed' \in 1..MaxGenerations \cup {None}
          /\ resetFor' \in 1..MaxGenerations \cup {None}
          /\ retryDue' \in BOOLEAN
          /\ UNCHANGED <<registry, refreshed, resetDue>>
          /\ read' \in [Readers -> Reads \cup {None}]
          /\ \A y \in Readers :
               \/ read'[y] = read[y]
               \/ y = "poll" /\ conn.up /\ read'[y].key = peer
          /\ shown' \in [available : BOOLEAN, key : Publishers \cup {None},
                         gen : 0..MaxGenerations]
          /\ \/ shown' = shown
             \/ /\ shown'.available =>
                     conn.up /\ registry # None /\ refreshed = conn.gen
                /\ shown'.key = peer /\ shown'.gen = conn.gen
      BY <3>1, <3>2, <3>3, UpdateEffect
    <3> QED BY <2>2, <3>4
  <2> QED BY <2>1, <2>2
<1>3. phase' \in [Roles -> {"absent", "starting", "running", "stopping",
                            "failed", "stopped"}]
  BY DEF IInv, TypeOK, Poll
<1>4. TypeOK'
  BY <1>1, <1>2, <1>3 DEF IInv, TypeOK, taskVars, roleVars, lockVars
<1>5. TaskInv' /\ NoOrphanLock' /\ LockInv'
  BY <1>1
     DEF IInv, TaskInv, NoOrphanLock, LockInv, taskVars, roleVars, lockVars
<1>6. StageInv'
  BY <1>1, <1>2
     DEF IInv, StageInv, taskVars, roleVars, lockVars, Readers
<1>7. PrepareInv' /\ CleanupInv' /\ RunsOnItsOwn'
  BY <1>1 DEF IInv, PrepareInv, CleanupInv, Scope, RunsOnItsOwn,
              taskVars, roleVars, lockVars
<1>8. RegistryInv'
  BY <1>1, <1>2 DEF IInv, RegistryInv, taskVars, roleVars
<1>9. FreshServices'
  <2>1. CASE shown' = shown
    BY <1>2, <2>1 DEF IInv, FreshServices
  <2>2. CASE /\ shown'.available => registry # None /\ refreshed = conn.gen
             /\ shown'.key = peer /\ shown'.gen = conn.gen
             /\ run["subscriber"] # None
    <3>1. registry # None =>
            /\ registry \in Reads /\ registry.gen = refreshed
            /\ registry.key = peer
      BY <2>2 DEF IInv, TypeOK, RegistryInv
    <3> QED BY <1>2, <2>2, <3>1 DEF FreshServices, Reads
  <2> QED BY <1>2, <2>1, <2>2
<1> QED BY <1>4, <1>5, <1>6, <1>7, <1>8, <1>9 DEF IInv

(* A role starts under its lock, on the node, with no registry yet.        *)
LEMMA RoleStartsStep ==
  ASSUME IInv, NEW r \in Roles, RoleStarts(r)
  PROVE  IInv'
<1>1. /\ stage[r] = "starting" /\ prep[r] = "ok" /\ pc = "start"
      /\ run[r] = None /\ lock[r] # None
      /\ UNCHANGED <<stopped, taskVars, opt, boot, prep, dht, lockVars>>
  BY DEF RoleStarts, IInv, StageInv
<1>2. /\ run' \in [Roles -> Rounds \cup {None}] /\ run'[r] = round
      /\ ranOn' \in [Roles -> Rounds \cup {None}] /\ ranOn'[r] = dht
      /\ round \in Rounds
      /\ \A t \in Roles \ {r} : run'[t] = run[t] /\ ranOn'[t] = ranOn[t]
  BY DEF RoleStarts, IInv, TypeOK
<1>3. /\ stage' \in [Roles -> {"idle", "starting", "reading", "closing",
                               "releasing"}]
      /\ stage'[r] = IF read' = read THEN "idle" ELSE "reading"
      /\ \A t \in Roles \ {r} : stage'[t] = stage[t]
      /\ phase' \in [Roles -> {"absent", "starting", "running", "stopping",
                               "failed", "stopped"}]
  BY DEF RoleStarts, IInv, TypeOK
<1>4. TaskInv' /\ NoOrphanLock' /\ LockInv'
  BY <1>1 DEF IInv, TaskInv, NoOrphanLock, LockInv, taskVars, lockVars
<1>5. PrepareInv' /\ CleanupInv'
  BY <1>1 DEF IInv, PrepareInv, CleanupInv, taskVars, lockVars
<1>6. RunsOnItsOwn'
  BY <1>1, <1>2 DEF IInv, RunsOnItsOwn, LockInv, lockVars
<1>7. CASE r = "publisher"
  <2>1. UNCHANGED <<peer, conn, read, genVars, shown>>
    BY <1>7 DEF RoleStarts
  <2>2. "subscriber" \in Roles \ {r}
    BY <1>7 DEF Roles
  <2>3. TypeOK'
    BY <1>1, <1>2, <1>3, <2>1
       DEF IInv, TypeOK, taskVars, lockVars, genVars
  <2>4. StageInv'
    BY <1>1, <1>2, <1>3, <2>1, <2>2
       DEF IInv, StageInv, taskVars, lockVars
  <2>5. RegistryInv' /\ FreshServices'
    BY <1>1, <1>2, <1>3, <2>1, <2>2
       DEF IInv, RegistryInv, FreshServices, taskVars, genVars
  <2> QED BY <1>4, <1>5, <1>6, <2>3, <2>4, <2>5 DEF IInv
<1>8. CASE r = "subscriber"
  <2>1. /\ peer' \in Publishers
        /\ conn' \in {NoLink, [up |-> TRUE, gen |-> 1]}
        /\ UpdateSubscriber("start", conn', peer')
    BY <1>8 DEF RoleStarts
  <2>2. conn' \in Links /\ (conn'.up => conn'.gen # 0)
    <3>1. 0 \in 0..MaxGenerations /\ 1 \in 0..MaxGenerations
      BY DesktopAssumption
    <3>2. NoLink \in Links /\ ~NoLink.up
      BY <3>1 DEF NoLink, Links
    <3>3. [up |-> TRUE, gen |-> 1] \in Links
      BY <3>1 DEF Links
    <3>4. CASE conn' = NoLink
      BY <3>2, <3>4
    <3>5. CASE conn' = [up |-> TRUE, gen |-> 1]
      BY <3>3, <3>5
    <3> QED BY <2>1, <3>4, <3>5
  <2>3. "start" \in Readers /\ TypeOK /\ "subscriber" \in Roles
    BY DEF Readers, IInv, Roles
  <2>4. /\ observed' \in 1..MaxGenerations \cup {None}
        /\ resetFor' \in 1..MaxGenerations \cup {None}
        /\ retryDue' \in BOOLEAN
        /\ UNCHANGED <<registry, refreshed, resetDue>>
        /\ read' \in [Readers -> Reads \cup {None}]
        /\ \A y \in Readers :
             \/ read'[y] = read[y]
             \/ y = "start" /\ conn'.up /\ read'[y].key = peer'
        /\ shown' \in [available : BOOLEAN, key : Publishers \cup {None},
                       gen : 0..MaxGenerations]
        /\ \/ shown' = shown
           \/ /\ shown'.available =>
                   conn'.up /\ registry # None /\ refreshed = conn'.gen
              /\ shown'.key = peer' /\ shown'.gen = conn'.gen
    BY <1>2, <2>1, <2>2, <2>3, UpdateEffect
  <2>5. registry = None
    BY <1>1, <1>8 DEF IInv, RegistryInv
  <2>6. TypeOK'
    BY <1>1, <1>2, <1>3, <2>1, <2>2, <2>4 DEF IInv, TypeOK, taskVars, lockVars
  <2>7. StageInv'
    <3>1. read["start"] = None
      BY <1>1, <1>8 DEF IInv, StageInv
    <3> QED BY <1>1, <1>2, <1>3, <1>8, <3>1
            DEF IInv, StageInv, taskVars, lockVars
  <2>8. RegistryInv'
    <3>1. peer' # None
      BY <2>1, DesktopAssumption
    <3> QED BY <1>1, <1>2, <1>3, <1>8, <2>2, <2>4, <2>5, <3>1
            DEF RegistryInv, taskVars
  <2>9. FreshServices'
    BY <2>4, <2>5 DEF IInv, FreshServices
  <2> QED BY <1>4, <1>5, <1>6, <2>6, <2>7, <2>8, <2>9 DEF IInv
<1> QED BY <1>7, <1>8 DEF Roles

(* The runtime begins with the locks that its host has taken.              *)
LEMMA DesktopInitSafe == Init => IInv
<1> SUFFICES ASSUME Init PROVE IInv
  OBVIOUS
<1>1. PICK s \in Launches : opt = s.roles /\ boot = s.boot
  BY DEF Init
<1>2. opt \in [Roles -> Configs \cup {None}] /\ boot \in Boots
  BY <1>1, DesktopAssumption DEF Settings
<1>3. /\ 1 \in Rounds /\ 0 \in 0..MaxGenerations
      /\ held \subseteq Roles \X Configs /\ refused \subseteq held
      /\ Configured(opt) \subseteq Roles
  BY <1>2, DesktopAssumption DEF Init, Rounds, Configured
<1>4. /\ NoServices \in [available : BOOLEAN, key : Publishers \cup {None},
                         gen : 0..MaxGenerations]
      /\ NoLink \in Links
  BY <1>3 DEF NoServices, NoLink, Links
<1>5. phase \in [Roles -> {"absent", "starting", "running", "stopping",
                           "failed", "stopped"}]
  BY DEF Init, InitialPhase
<1>6. prep \in [Roles -> {"none", "busy", "ok", "failed"}]
  BY DEF Init
<1>7. TypeOK
  BY <1>2, <1>3, <1>4, <1>5, <1>6 DEF Init, TypeOK
<1>8. TaskInv /\ LockInv /\ StageInv
  BY <1>3 DEF Init, TaskInv, LockInv, StageInv, Configured, Readers
<1>9. PrepareInv /\ CleanupInv
  BY DEF Init, PrepareInv, CleanupInv, Configured
<1>10. NoOrphanLock /\ RunsOnItsOwn
  BY DEF Init, NoOrphanLock, RunsOnItsOwn
<1>11. RegistryInv /\ FreshServices
  BY DEF Init, RegistryInv, FreshServices, NoLink, NoServices, Roles
<1> QED BY <1>7, <1>8, <1>9, <1>10, <1>11 DEF IInv

-----------------------------------------------------------------------------
(* The theorems.                                                           *)

(* IInv is inductive.                                                      *)
LEMMA DesktopNextSafe == IInv /\ [Next]_vars => IInv'
<1> SUFFICES ASSUME IInv, [Next]_vars PROVE IInv'
  OBVIOUS
<1>1. CASE UNCHANGED vars
  <2> USE <1>1 DEF IInv, vars, taskVars, roleVars, lockVars, genVars, viewVars
  <2>1. TypeOK'
    BY DEF TypeOK
  <2>2. TaskInv' /\ NoOrphanLock' /\ LockInv' /\ StageInv'
    BY DEF TaskInv, NoOrphanLock, LockInv, StageInv
  <2>3. PrepareInv' /\ CleanupInv' /\ RunsOnItsOwn'
    BY DEF PrepareInv, CleanupInv, Scope, RunsOnItsOwn
  <2>4. RegistryInv' /\ FreshServices'
    BY DEF RegistryInv, FreshServices
  <2> QED BY <2>1, <2>2, <2>3, <2>4
<1>2. CASE Dependencies
  BY <1>2, PrepareStep, RoleStartsStep, RoleFailsToStartStep, CleanRoleStep,
     RoleStoppedStep, LockReleasedStep, TransportStep, StartedStep,
     BeginCleanupStep, GiveUpStep, AdoptStep, BeginStopStep, FinishStopStep,
     AbandonedStep DEF Dependencies
<1>3. CASE Answers
  BY <1>3, AnsweredStep, AnswerLostStep DEF Answers
<1>4. ASSUME NEW s \in Targets, Reconfigure(s.roles, s.boot)
      PROVE  IInv'
  BY <1>4, ReconfigureStep
<1>5. CASE \/ Poll \/ RetryFallsDue \/ ResetFallsDue \/ SubscriberConnects
           \/ SubscriberDisconnects \/ Stop
  BY <1>5, PollStep, RetryFallsDueStep, ResetFallsDueStep,
     SubscriberConnectsStep, SubscriberDisconnectsStep, StopStep
<1> QED BY <1>1, <1>2, <1>3, <1>4, <1>5 DEF Next

(* The runtime keeps to IInv.                                              *)
THEOREM DesktopSafe == Spec => []IInv
<1> QED BY DesktopInitSafe, DesktopNextSafe, PTL DEF Spec

(* A role runs only under its own lock and on the node that is current,    *)
(* for any configurations and any number of reconfigurations.              *)
THEOREM DesktopRunsOnItsOwn == Spec => []RunsOnItsOwn
<1>1. IInv => RunsOnItsOwn
  BY DEF IInv
<1> QED BY <1>1, DesktopSafe, PTL

(* Every lock file is one that a lock variable names.                      *)
THEOREM DesktopNoOrphanLock == Spec => []NoOrphanLock
<1>1. IInv => NoOrphanLock
  BY DEF IInv
<1> QED BY <1>1, DesktopSafe, PTL

(* Services are shown of the publisher the subscriber is connected to, read *)
(* over the connection of that number, for any publishers and connections, *)
(* and however many of them a read outlives.                               *)
THEOREM DesktopFreshServices == Spec => []FreshServices
<1>1. IInv => FreshServices
  BY DEF IInv
<1> QED BY <1>1, DesktopSafe, PTL

(* After stop and after a failed launch nothing runs, and only the locks   *)
(* whose release was refused are left.                                     *)
THEOREM DesktopNothingLeft == Spec => []NothingLeft
<1>1. IInv => NothingLeft
  <2> SUFFICES ASSUME IInv, pc \in {"done", "dead"}
               PROVE  held = refused /\ \A r \in Roles : run[r] = None
    BY DEF NothingLeft
  <2>1. \A r \in Roles :
          run[r] = None /\ (lock[r] = None \/ <<r, lock[r]>> \in refused)
    BY DEF IInv, CleanupInv
  <2>2. ASSUME NEW h \in held PROVE h \in refused
    <3>1. PICK r \in Roles, c \in Configs : h = <<r, c>>
      BY DEF IInv, TypeOK
    <3>2. lock[r] = c /\ c # None
      BY <3>1, DesktopAssumption DEF IInv, NoOrphanLock
    <3> QED BY <2>1, <3>1, <3>2
  <2>3. refused \subseteq held
    BY DEF IInv, TypeOK
  <2> QED BY <2>1, <2>2, <2>3
<1> QED BY <1>1, DesktopSafe, PTL
=============================================================================
