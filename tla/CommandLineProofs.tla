-------------------------- MODULE CommandLineProofs --------------------------
(***************************************************************************)
(* The safety of the commands for any number of processes and deaths: keys *)
(* that were printed stay, one process runs a role, what has ended leaves  *)
(* nothing behind, and set-publisher is not undone by a promotion.         *)
(***************************************************************************)
EXTENDS CommandLine, TLAPS

\* Where a process holds locks, and where its device exists.
Running == {"lock", "start", "starting", "waiting", "stopping", "release"}
DeviceUp == {"starting", "waiting", "stopping"}

Places ==
  {"idle", "exists", "install", "load", "read", "probe", "validate",
   "unpend", "write", "rename", "clean", "check", "ended", "dead"} \cup Running

\* Which commands get where.
Fits(c, l) ==
  /\ l \in {"exists", "install"} =>
       c \in {"setup publisher", "setup subscriber"}
  /\ l \in {"load", "read"} =>
       c \in {"setup publisher", "key", "set-allow", "set-services"}
  /\ l \in {"probe", "validate"} => c \in {"setup subscriber", "set-publisher"}
  /\ l = "unpend" => c = "set-publisher"
  /\ l \in {"write", "rename", "clean", "check"} =>
       c \in {"set-allow", "set-services", "set-publisher"}

PathInv == \A p \in Procs : Fits(cmd[p], pc[p])

\* A key is printed last, and it is the directory's.
KeyInv ==
  \A p \in Procs :
    said[p] # None =>
      pc[p] = "ended" /\ said[p] = dir[SideOf(cmd[p])].id

\* A contact is only set in a directory that is there and has no pending one.
ContactInv ==
  /\ dir.subscriber.contact \in Procs =>
       dir.subscriber.pending = None /\ dir.subscriber.id # None
  /\ dir.subscriber.pending # None => dir.subscriber.id # None
  /\ \A p \in Procs : cmd[p] = "set-publisher" =>
       /\ pc[p] \in {"unpend", "write", "rename"} => dir.subscriber.id # None
       /\ pc[p] \in {"write", "rename"} => dir.subscriber.pending = None

\* The locks a live process keeps are its own, and cover what it runs.
LockInv ==
  \A p \in Procs :
    /\ pc[p] = "start" => keeps[p] = Roles(cmd[p])
    /\ \A s \in Sides :
         /\ s \in keeps[p] /\ pc[p] # "dead" =>
              locks[s] = p /\ pc[p] \in Running
         /\ locks[s] = p /\ ~failed[p] => s \in keeps[p]

\* Roles and node are those of a device that is started and not yet stopped.
DeviceInv ==
  \A p \in Procs :
    /\ dht[p] => pc[p] \in DeviceUp
    /\ \A s \in Sides :
         /\ role[p][s] \in {"starting", "up"} =>
              s \in keeps[p] /\ pc[p] \in DeviceUp
         /\ role[p][s] = "starting" => pc[p] = "starting"

\* Only the writer at work has something staged, or one that died there or
\* could not remove it and has said so.
StagingInv ==
  \A p \in Procs, s \in Sides :
    p \in staging[s] /\ pc[p] # "dead" =>
      \/ pc[p] \in {"rename", "clean"} /\ s = SideOf(cmd[p])
      \/ pc[p] = "ended" /\ failed[p]

IInv ==
  /\ TypeOK /\ PathInv /\ KeyInv /\ ContactInv /\ LockInv /\ DeviceInv
  /\ StagingInv

-----------------------------------------------------------------------------
(* What the variables are made of, and what a step that moves one process  *)
(* leaves alone.                                                           *)

(* The files of the two directories.                                       *)
LEMMA DirectoryTypes ==
  ASSUME TypeOK
  PROVE  /\ dir.publisher.id \in Ids \cup {None}
         /\ dir.publisher.allow \in BOOLEAN
         /\ dir.publisher.manifest \in BOOLEAN
         /\ dir.subscriber.id \in Ids \cup {None}
         /\ dir.subscriber.contact \in Procs \cup {"paired", None}
         /\ dir.subscriber.pending \in {"paired", None}
<1>1. dir.publisher \in
        [id : Ids \cup {None}, allow : BOOLEAN, manifest : BOOLEAN]
  BY DEF TypeOK
<1>2. dir.subscriber \in
        [id : Ids \cup {None}, contact : Procs \cup {"paired", None},
         pending : {"paired", None}]
  BY DEF TypeOK
<1> QED BY <1>1, <1>2

(* A process moves to another place, with or without an error.             *)
LEMMA MoveType ==
  ASSUME TypeOK, NEW p \in Procs, NEW l \in Places, Goto(p, l) \/ Throws(p, l)
  PROVE  /\ pc' \in [Procs -> Places]
         /\ failed' \in [Procs -> BOOLEAN]
         /\ pc'[p] = l /\ (failed[p] => failed'[p])
         /\ \A q \in Procs \ {p} : pc'[q] = pc[q] /\ failed'[q] = failed[q]
<1>1. pc \in [Procs -> Places] /\ failed \in [Procs -> BOOLEAN]
  BY DEF TypeOK, Places, Running
<1>2. pc' = [pc EXCEPT ![p] = l]
  BY DEF Goto, Throws
<1>3. failed' = failed \/ failed' = [failed EXCEPT ![p] = TRUE]
  BY DEF Goto, Throws
<1> QED BY <1>1, <1>2, <1>3

(* Elsewhere than in `run`, locks and devices do not notice.               *)
LEMMA DeviceFrame ==
  ASSUME TypeOK, LockInv, DeviceInv, NEW p \in Procs, NEW l \in Places,
         Goto(p, l) \/ Throws(p, l), l # "start",
         pc[p] \notin Running, UNCHANGED <<locks, keeps, role, dht>>,
         pc[p] # "dead", \A q \in Procs \ {p} : cmd'[q] = cmd[q]
  PROVE  LockInv' /\ DeviceInv'
<1> USE MoveType
<1>1. ASSUME NEW q \in Procs, q # p
      PROVE  pc'[q] = pc[q] /\ failed'[q] = failed[q] /\ cmd'[q] = cmd[q]
  BY <1>1
<1>2. pc'[p] = l /\ (failed[p] => failed'[p])
  OBVIOUS
<1>3. \A s \in Sides : s \notin keeps[p]
  BY DEF LockInv
<1>4. LockInv'
  BY <1>1, <1>2, <1>3 DEF LockInv
<1>5. DeviceInv'
  BY <1>1, <1>2, <1>3 DEF DeviceInv, DeviceUp, Running
<1> QED BY <1>4, <1>5

(* Where nobody stages or cleans up, what is staged stays right.           *)
LEMMA StagingFrame ==
  ASSUME TypeOK, StagingInv, NEW p \in Procs, NEW l \in Places,
         Goto(p, l) \/ Throws(p, l), UNCHANGED staging,
         pc[p] \notin {"rename", "clean", "ended", "dead"},
         \A q \in Procs \ {p} : cmd'[q] = cmd[q]
  PROVE  StagingInv'
<1>1. \A q \in Procs \ {p} : pc'[q] = pc[q] /\ failed'[q] = failed[q]
  BY MoveType
<1>2. \A s \in Sides : p \notin staging[s]
  BY DEF StagingInv
<1> QED BY <1>1, <1>2 DEF StagingInv

(* No key changes once there is one, and a process that goes on has printed *)
(* none.                                                                   *)
LEMMA KeyFrame ==
  ASSUME TypeOK, KeyInv, NEW p \in Procs, NEW l \in Places,
         Goto(p, l) \/ Throws(p, l), UNCHANGED said, pc[p] # "ended",
         \A s \in Sides : dir[s].id # None => dir'[s].id = dir[s].id,
         \A q \in Procs \ {p} : cmd'[q] = cmd[q]
  PROVE  KeyInv'
<1>1. \A q \in Procs \ {p} : pc'[q] = pc[q]
  BY MoveType
<1>2. said[p] = None
  BY DEF KeyInv
<1>3. \A c : SideOf(c) \in Sides
  BY DEF SideOf, Sides
<1> QED BY <1>1, <1>2, <1>3 DEF KeyInv

(* While the directories stay, only a set-publisher has to know of them.   *)
LEMMA ContactFrame ==
  ASSUME TypeOK, ContactInv, NEW p \in Procs, NEW l \in Places,
         Goto(p, l) \/ Throws(p, l), UNCHANGED dir,
         l \in {"unpend", "write", "rename"} => cmd'[p] # "set-publisher",
         \A q \in Procs \ {p} : cmd'[q] = cmd[q]
  PROVE  ContactInv'
<1>1. pc'[p] = l /\ \A q \in Procs \ {p} : pc'[q] = pc[q]
  BY MoveType
<1> QED BY <1>1 DEF ContactInv

(* A step that only looks, and goes where its command belongs.             *)
LEMMA LookingStep ==
  ASSUME IInv, NEW p \in Procs, NEW l \in Places, Goto(p, l) \/ Throws(p, l),
         pc[p] \notin Running \cup {"rename", "clean", "ended", "dead"},
         l \in {"unpend", "write", "rename"} => cmd'[p] # "set-publisher",
         l # "start", Fits(cmd'[p], l),
         cmd' \in [Procs -> Commands \cup {None}],
         saw' \in [Procs -> [contact : BOOLEAN, pending : BOOLEAN,
                             fits : BOOLEAN]],
         \A q \in Procs \ {p} : cmd'[q] = cmd[q],
         UNCHANGED <<config, files, locks, said, device>>
  PROVE  IInv'
<1>1. pc' \in [Procs -> Places] /\ failed' \in [Procs -> BOOLEAN]
  BY MoveType DEF IInv
<1>2. TypeOK'
  BY <1>1 DEF IInv, TypeOK, Places, Running, files, device
<1>3. pc'[p] = l /\ \A q \in Procs \ {p} : pc'[q] = pc[q]
  BY MoveType DEF IInv
<1>4. PathInv'
  BY <1>3 DEF IInv, PathInv
<1>5. KeyInv'
  BY KeyFrame DEF IInv, files
<1>6. ContactInv'
  BY ContactFrame DEF IInv, files
<1>7. LockInv' /\ DeviceInv'
  BY DeviceFrame DEF IInv, device
<1>8. StagingInv'
  BY StagingFrame DEF IInv, files
<1> QED BY <1>2, <1>4, <1>5, <1>6, <1>7, <1>8 DEF IInv

-----------------------------------------------------------------------------
(* The invariant holds at first and is kept by each action.                *)

(* Nothing runs at first; whatever an earlier process left is not of one of *)
(* the processes.                                                          *)
LEMMA CommandInitSafe == Init => IInv
<1> SUFFICES ASSUME Init PROVE IInv
  OBVIOUS
<1>1. dir \in [publisher : [id : Ids \cup {None}, allow : BOOLEAN,
                           manifest : BOOLEAN],
              subscriber : [id : Ids \cup {None},
                            contact : Procs \cup {"paired", None},
                            pending : {"paired", None}]]
  <2>1. dir.publisher \in
          [id : Ids \cup {None}, allow : BOOLEAN, manifest : BOOLEAN]
    <3> DEFINE P == {NoDirectory,
                  [id |-> Existing, allow |-> TRUE, manifest |-> TRUE]}
               S == {[id |-> i, contact |-> None, pending |-> None] :
                       i \in {Existing, None}} \cup
                    {[id |-> Existing, contact |-> None,
                      pending |-> "paired"]}
    <3>0. dir \in [publisher : P, subscriber : S]
      BY DEF Init
    <3>1. dir.publisher \in P
      <4> HIDE DEF P, S
      <4> QED BY <3>0
    <3>2. NoDirectory \in
            [id : Ids \cup {None}, allow : BOOLEAN, manifest : BOOLEAN]
      BY DEF NoDirectory
    <3>3. [id |-> Existing, allow |-> TRUE, manifest |-> TRUE] \in
            [id : Ids \cup {None}, allow : BOOLEAN, manifest : BOOLEAN]
      BY DEF Ids
    <3> QED BY <3>1, <3>2, <3>3
  <2>2. dir.subscriber \in
          [id : Ids \cup {None}, contact : Procs \cup {"paired", None},
           pending : {"paired", None}]
    BY DEF Init, Ids
  <2>3. dir = [publisher |-> dir.publisher, subscriber |-> dir.subscriber]
    BY DEF Init
  <2> QED BY <2>1, <2>2, <2>3
<1>2. TypeOK
  BY <1>1 DEF Init, TypeOK, NoSight, Ids
<1>3. PathInv /\ KeyInv
  BY DEF Init, PathInv, Fits, KeyInv
<1>4. ContactInv
  BY CommandLineAssumption DEF Init, ContactInv
<1>5. LockInv /\ DeviceInv /\ StagingInv
  BY CommandLineAssumption DEF Init, LockInv, DeviceInv, StagingInv
<1> QED BY <1>2, <1>3, <1>4, <1>5 DEF IInv

(* A command that begins where it belongs.                                 *)
LEMMA EnterStep ==
  ASSUME IInv, NEW p \in Procs, NEW c \in Commands, NEW l \in Places,
         Enter(p, c, l), Fits(c, l), l \notin {"start", "unpend", "write",
                                               "rename"}
  PROVE  IInv'
<1>1. cmd' = [cmd EXCEPT ![p] = c]
  BY DEF Enter
<1>2. cmd' \in [Procs -> Commands \cup {None}] /\ cmd'[p] = c
  BY <1>1 DEF IInv, TypeOK
<1>3. \A q \in Procs \ {p} : cmd'[q] = cmd[q]
  BY <1>1 DEF IInv, TypeOK
<1>4. saw' \in [Procs -> [contact : BOOLEAN, pending : BOOLEAN,
                          fits : BOOLEAN]]
  BY DEF IInv, TypeOK, Enter
<1>5. pc[p] \notin Running \cup {"rename", "clean", "ended", "dead"}
  BY DEF Enter, Running
<1> QED BY <1>2, <1>3, <1>4, <1>5, LookingStep DEF Enter

(* A command that is refused.                                              *)
LEMMA RefuseStep ==
  ASSUME IInv, NEW p \in Procs, NEW c \in Commands, Refuse(p, c)
  PROVE  IInv'
<1>1. cmd' = [cmd EXCEPT ![p] = c]
  BY DEF Refuse
<1>2. cmd' \in [Procs -> Commands \cup {None}] /\ cmd'[p] = c
  BY <1>1 DEF IInv, TypeOK
<1>3. \A q \in Procs \ {p} : cmd'[q] = cmd[q]
  BY <1>1 DEF IInv, TypeOK
<1>4. saw' \in [Procs -> [contact : BOOLEAN, pending : BOOLEAN,
                          fits : BOOLEAN]]
  BY DEF IInv, TypeOK, Refuse
<1>5. pc[p] \notin Running \cup {"rename", "clean", "ended", "dead"}
  BY DEF Refuse, Running
<1>6. "ended" \in Places /\ Fits(c, "ended")
  BY DEF Places, Fits
<1> QED BY <1>2, <1>3, <1>4, <1>5, <1>6, LookingStep DEF Refuse

(* Every command begins where it belongs or is refused.                    *)
LEMMA RunCliStep ==
  ASSUME IInv, NEW p \in Procs, RunCli(p)
  PROVE  IInv'
<1>1. ASSUME NEW c \in Commands, Refuse(p, c) PROVE IInv'
  BY <1>1, RefuseStep
<1>2. ASSUME NEW c \in Commands, NEW l \in {"exists", "probe", "load", "lock"},
             Fits(c, l), LoadKeposConfig(p, c, l) \/ Enter(p, c, l)
      PROVE  IInv'
  <2>1. CASE Refuse(p, c)
    BY <2>1, <1>1
  <2>2. CASE Enter(p, c, l)
    BY <1>2, <2>2, EnterStep DEF Places, Running
  <2> QED BY <1>2, <2>1, <2>2 DEF LoadKeposConfig
<1>3. {"setup publisher", "setup subscriber", "set-publisher", "set-allow",
       "set-services", "key", "publisher run", "subscriber run", "device run"}
        \subseteq Commands
  BY DEF Commands, Runs
<1>4. CASE SetupPublisherCommand(p)
  BY <1>1, <1>2, <1>3, <1>4 DEF SetupPublisherCommand, Fits
<1>5. CASE SetupSubscriberCommand(p)
  BY <1>2, <1>3, <1>5 DEF SetupSubscriberCommand, Fits
<1>6. CASE SetSubscriberPublisherCommand(p)
  BY <1>2, <1>3, <1>6 DEF SetSubscriberPublisherCommand, Fits
<1>7. CASE SetPublisherAllowlistCommand(p)
  BY <1>1, <1>2, <1>3, <1>7
     DEF SetPublisherAllowlistCommand, RejectTomlPublisherPolicy, Fits
<1>8. CASE SetPublisherServicesCommand(p)
  BY <1>1, <1>2, <1>3, <1>8
     DEF SetPublisherServicesCommand, RejectTomlPublisherPolicy, Fits
<1>9. CASE GetPublisherPublicKeyCommand(p)
  BY <1>2, <1>3, <1>9 DEF GetPublisherPublicKeyCommand, Fits
<1>10. CASE RunPublisherCommand(p)
  BY <1>2, <1>3, <1>10 DEF RunPublisherCommand, Fits
<1>11. CASE RunSubscriberCommand(p)
  BY <1>2, <1>3, <1>11 DEF RunSubscriberCommand, Fits
<1>12. CASE RunDeviceCommand(p)
  BY <1>2, <1>3, <1>12 DEF RunDeviceCommand, Fits
<1>13. CASE BadOptions(p)
  BY <1>1, <1>13 DEF BadOptions
<1> QED BY <1>4, <1>5, <1>6, <1>7, <1>8, <1>9, <1>10, <1>11, <1>12, <1>13
       DEF RunCli

(* Whether the directory exists.                                           *)
LEMMA ExistsStep ==
  ASSUME IInv, NEW p \in Procs, Exists(p)
  PROVE  IInv'
<1>1. PICK l \in {"install", "load", "probe"} :
        /\ Goto(p, l) /\ Fits(cmd[p], l)
  BY DEF Exists, ToReader, Fits, IInv, PathInv
<1>2. l \in Places /\ l \notin {"start", "unpend", "write", "rename"}
  BY DEF Places
<1>3. pc[p] \notin Running \cup {"rename", "clean", "ended", "dead"}
  BY DEF Exists, Running
<1>4. /\ cmd' = cmd /\ cmd \in [Procs -> Commands \cup {None}]
      /\ saw' \in [Procs -> [contact : BOOLEAN, pending : BOOLEAN,
                             fits : BOOLEAN]]
      /\ UNCHANGED <<config, files, locks, said, device>>
  BY DEF IInv, TypeOK, Exists
<1> QED BY <1>1, <1>2, <1>3, <1>4, LookingStep

(* The manifest is read.                                                   *)
LEMMA LoadPublisherStateStep ==
  ASSUME IInv, NEW p \in Procs, LoadPublisherState(p)
  PROVE  IInv'
<1>1. PICK l \in {"read", "ended"} :
        /\ Goto(p, l) \/ Throws(p, l)
        /\ Fits(cmd[p], l)
  BY DEF LoadPublisherState, Fits, IInv, PathInv
<1>2. l \in Places /\ l \notin {"start", "unpend", "write", "rename"}
  BY DEF Places
<1>3. pc[p] \notin Running \cup {"rename", "clean", "ended", "dead"}
  BY DEF LoadPublisherState, Running
<1>4. saw' \in [Procs -> [contact : BOOLEAN, pending : BOOLEAN,
                          fits : BOOLEAN]]
  <2>1. saw \in [Procs -> [contact : BOOLEAN, pending : BOOLEAN,
                           fits : BOOLEAN]]
    BY DEF IInv, TypeOK
  <2>2. dir.publisher.manifest \in BOOLEAN
    BY DirectoryTypes DEF IInv
  <2>3. CASE saw' = saw
    BY <2>1, <2>3
  <2>4. CASE saw' = [saw EXCEPT ![p].fits = dir.publisher.manifest]
    BY <2>1, <2>2, <2>4
  <2> QED BY <2>3, <2>4 DEF LoadPublisherState
<1>5. /\ cmd' = cmd /\ cmd \in [Procs -> Commands \cup {None}]
      /\ UNCHANGED <<config, files, locks, said, device>>
  BY DEF IInv, TypeOK, LoadPublisherState
<1> QED BY <1>1, <1>2, <1>3, <1>4, <1>5, LookingStep

(* The contacts are looked for.                                            *)
LEMMA ProbeStep ==
  ASSUME IInv, NEW p \in Procs, Probe(p)
  PROVE  IInv'
<1>1. Goto(p, "validate") /\ Fits(cmd[p], "validate")
  BY DEF Probe, Fits, IInv, PathInv
<1>2. "validate" \in Places
  BY DEF Places
<1>3. pc[p] \notin Running \cup {"rename", "clean", "ended", "dead"}
  BY DEF Probe, Running
<1>4. saw' \in [Procs -> [contact : BOOLEAN, pending : BOOLEAN,
                          fits : BOOLEAN]]
  BY DEF IInv, TypeOK, Probe
<1>5. /\ cmd' = cmd /\ cmd \in [Procs -> Commands \cup {None}]
      /\ UNCHANGED <<config, files, locks, said, device>>
  BY DEF IInv, TypeOK, Probe
<1> QED BY <1>1, <1>2, <1>3, <1>4, <1>5, LookingStep

(* The directory is checked after the change.                              *)
LEMMA CheckStep ==
  ASSUME IInv, NEW p \in Procs, Check(p)
  PROVE  IInv'
<1>1. Goto(p, "ended") \/ Throws(p, "ended")
  BY DEF Check
<1>2. "ended" \in Places /\ Fits(cmd[p], "ended")
  BY DEF Places, Fits
<1>3. pc[p] \notin Running \cup {"rename", "clean", "ended", "dead"}
  BY DEF Check, Running
<1>4. /\ cmd' = cmd /\ cmd \in [Procs -> Commands \cup {None}]
      /\ saw' \in [Procs -> [contact : BOOLEAN, pending : BOOLEAN,
                             fits : BOOLEAN]]
      /\ UNCHANGED <<config, files, locks, said, device>>
  BY DEF IInv, TypeOK, Check
<1> QED BY <1>1, <1>2, <1>3, <1>4, LookingStep

(* A process prints the key that its directory has, and ends.              *)
LEMMA PrintingStep ==
  ASSUME IInv, NEW p \in Procs, Goto(p, "ended"),
         said' = [said EXCEPT ![p] = dir'[SideOf(cmd[p])].id],
         pc[p] \notin Running \cup {"rename", "clean", "ended", "dead"},
         \A s \in Sides : dir[s].id # None => dir'[s].id = dir[s].id,
         TypeOK', ContactInv', UNCHANGED <<staging, locks, cmd, device>>
  PROVE  IInv'
<1>1. "ended" \in Places /\ Fits(cmd[p], "ended")
  BY DEF Places, Fits
<1>2. pc'[p] = "ended" /\ \A q \in Procs \ {p} : pc'[q] = pc[q]
  BY <1>1, MoveType DEF IInv
<1>3. PathInv'
  BY <1>1, <1>2 DEF IInv, PathInv
<1>4. KeyInv'
  <2>1. \A c : SideOf(c) \in Sides
    BY DEF SideOf, Sides
  <2>2. /\ said'[p] = dir'[SideOf(cmd'[p])].id
        /\ \A q \in Procs \ {p} : said'[q] = said[q]
    BY DEF IInv, TypeOK
  <2> QED BY <1>2, <2>1, <2>2 DEF IInv, KeyInv
<1>5. LockInv' /\ DeviceInv'
  BY <1>1, DeviceFrame DEF IInv, device
<1>6. StagingInv'
  BY <1>1, StagingFrame DEF IInv
<1> QED BY <1>3, <1>4, <1>5, <1>6 DEF IInv

(* The config is read: a key is printed, or a write begins.                *)
LEMMA ReadConfigStep ==
  ASSUME IInv, NEW p \in Procs, ReadConfig(p)
  PROVE  IInv'
<1>1. pc[p] \notin Running \cup {"rename", "clean", "ended", "dead"}
  BY DEF ReadConfig, Running
<1>2. saw' \in [Procs -> [contact : BOOLEAN, pending : BOOLEAN,
                          fits : BOOLEAN]]
  BY DEF IInv, TypeOK, ReadConfig, NoSight
<1>3. /\ cmd' = cmd /\ cmd \in [Procs -> Commands \cup {None}]
      /\ UNCHANGED <<config, files, locks, device>>
  BY DEF IInv, TypeOK, ReadConfig
<1>4. cmd[p] \in {"setup publisher", "key", "set-allow", "set-services"}
  BY DEF ReadConfig, IInv, PathInv, Fits
<1>5. CASE Throws(p, "ended") /\ UNCHANGED said
  BY <1>1, <1>2, <1>3, <1>5, LookingStep DEF Places, Fits
<1>6. CASE /\ Goto(p, "write") /\ UNCHANGED said
           /\ cmd[p] \notin {"setup publisher", "key"}
  <2>1. "write" \in Places /\ Fits(cmd[p], "write") /\ cmd[p] # "set-publisher"
    BY <1>4, <1>6 DEF Places, Fits
  <2> QED BY <1>1, <1>2, <1>3, <1>6, <2>1, LookingStep
<1>7. CASE said' = [said EXCEPT ![p] = dir.publisher.id] /\ Goto(p, "ended")
  <2>1. "ended" \in Places
    BY DEF Places
  <2>2. /\ pc' \in [Procs -> Places] /\ failed' \in [Procs -> BOOLEAN]
        /\ pc'[p] = "ended" /\ \A q \in Procs \ {p} : pc'[q] = pc[q]
    BY <1>7, <2>1, MoveType DEF IInv
  <2>3. said' \in [Procs -> Ids \cup {None}]
    <3>1. dir.publisher.id \in Ids \cup {None}
      BY DirectoryTypes DEF IInv
    <3>2. said \in [Procs -> Ids \cup {None}]
      BY DEF IInv, TypeOK
    <3> QED BY <1>7, <3>1, <3>2
  <2>4. TypeOK'
    BY <1>2, <1>3, <2>2, <2>3
       DEF IInv, TypeOK, Places, Running, files, device
  <2>5. ContactInv'
    BY <1>3, <2>2 DEF IInv, ContactInv, files
  <2>6. dir'[SideOf(cmd[p])].id = dir.publisher.id
    BY <1>3, <1>4 DEF SideOf, files
  <2> QED BY <1>1, <1>3, <1>7, <2>4, <2>5, <2>6, PrintingStep DEF files
<1> QED BY <1>5, <1>6, <1>7 DEF ReadConfig

(* Only a directory that is there is gone on with, with no contact in it   *)
(* but the ones that were seen.                                            *)
LEMMA ReadSubscriberIdentityStep ==
  ASSUME IInv, NEW p \in Procs, ReadSubscriberIdentity(p)
  PROVE  IInv'
<1>1. pc[p] \notin Running \cup {"rename", "clean", "ended", "dead"}
  BY DEF ReadSubscriberIdentity, Running
<1>2. saw' \in [Procs -> [contact : BOOLEAN, pending : BOOLEAN,
                          fits : BOOLEAN]]
  BY DEF IInv, TypeOK, ReadSubscriberIdentity, NoSight
<1>3. /\ cmd' = cmd /\ cmd \in [Procs -> Commands \cup {None}]
      /\ UNCHANGED <<config, files, locks, device>>
  BY DEF IInv, TypeOK, ReadSubscriberIdentity
<1>4. cmd[p] \in {"setup subscriber", "set-publisher"}
  BY DEF ReadSubscriberIdentity, IInv, PathInv, Fits
<1>5. CASE Throws(p, "ended") /\ UNCHANGED said
  BY <1>1, <1>2, <1>3, <1>5, LookingStep DEF Places, Fits
<1>6. CASE /\ Goto(p, "unpend") /\ UNCHANGED said
           /\ cmd[p] # "setup subscriber" /\ dir.subscriber.id # None
  <2>1. "unpend" \in Places /\ cmd[p] = "set-publisher"
    BY <1>4, <1>6 DEF Places
  <2>2. /\ pc' \in [Procs -> Places] /\ failed' \in [Procs -> BOOLEAN]
        /\ pc'[p] = "unpend" /\ \A q \in Procs \ {p} : pc'[q] = pc[q]
    BY <1>6, <2>1, MoveType DEF IInv
  <2>3. TypeOK'
    BY <1>2, <1>3, <1>6, <2>2
       DEF IInv, TypeOK, Places, Running, files, device
  <2>4. PathInv'
    BY <1>3, <2>1, <2>2 DEF IInv, PathInv, Fits
  <2>5. KeyInv'
    BY <1>1, <1>3, <1>6, <2>1, KeyFrame DEF IInv, files
  <2>6. ContactInv'
    BY <1>3, <1>6, <2>2 DEF IInv, ContactInv, files
  <2>7. LockInv' /\ DeviceInv'
    BY <1>1, <1>3, <1>6, <2>1, DeviceFrame DEF IInv, device
  <2>8. StagingInv'
    BY <1>1, <1>3, <1>6, <2>1, StagingFrame DEF IInv, files
  <2> QED BY <2>3, <2>4, <2>5, <2>6, <2>7, <2>8 DEF IInv
<1>7. CASE /\ said' = [said EXCEPT ![p] = dir.subscriber.id]
           /\ Goto(p, "ended")
  <2>1. "ended" \in Places
    BY DEF Places
  <2>2. /\ pc' \in [Procs -> Places] /\ failed' \in [Procs -> BOOLEAN]
        /\ pc'[p] = "ended" /\ \A q \in Procs \ {p} : pc'[q] = pc[q]
    BY <1>7, <2>1, MoveType DEF IInv
  <2>3. said' \in [Procs -> Ids \cup {None}]
    <3>1. dir.subscriber.id \in Ids \cup {None}
      BY DirectoryTypes DEF IInv
    <3>2. said \in [Procs -> Ids \cup {None}]
      BY DEF IInv, TypeOK
    <3> QED BY <1>7, <3>1, <3>2
  <2>4. TypeOK'
    BY <1>2, <1>3, <2>2, <2>3
       DEF IInv, TypeOK, Places, Running, files, device
  <2>5. ContactInv'
    BY <1>3, <2>2 DEF IInv, ContactInv, files
  <2>6. dir'[SideOf(cmd[p])].id = dir.subscriber.id
    BY <1>3, <1>4 DEF SideOf, files
  <2> QED BY <1>1, <1>3, <1>7, <2>4, <2>5, <2>6, PrintingStep DEF files
<1> QED BY <1>5, <1>6, <1>7
        DEF ReadSubscriberIdentity, ExactlyThese, OnlyItsFiles

(* A directory is installed only where there is none, so no key is lost.   *)
LEMMA InstallStep ==
  ASSUME IInv, NEW p \in Procs, Install(p)
  PROVE  IInv'
<1> DEFINE s == SideOf(cmd[p])
<1>1. /\ pc[p] = "install"
      /\ pc[p] \notin Running \cup {"rename", "clean", "ended", "dead"}
  BY DEF Install, Running
<1>2. /\ UNCHANGED <<config, staging, locks, cmd, saw, device>>
      /\ cmd \in [Procs -> Commands \cup {None}]
      /\ saw \in [Procs -> [contact : BOOLEAN, pending : BOOLEAN,
                            fits : BOOLEAN]]
      /\ said \in [Procs -> Ids \cup {None}]
  BY DEF IInv, TypeOK, Install
<1>3. cmd[p] \in {"setup publisher", "setup subscriber"}
  BY <1>1 DEF IInv, PathInv, Fits
<1>4. CASE Throws(p, "ended") /\ UNCHANGED <<dir, said>>
  BY <1>1, <1>2, <1>4, LookingStep DEF Places, Fits, files
<1>5. CASE /\ CanInstall(s) /\ dir' = [dir EXCEPT ![s] = Fresh(s, p)]
           /\ IF s = "publisher" THEN Goto(p, "load") /\ UNCHANGED said
              ELSE Goto(p, "ended") /\ said' = [said EXCEPT ![p] = p]
  <2>1. PICK l \in {"load", "ended"} : Goto(p, l) /\ Fits(cmd[p], l)
    BY <1>3, <1>5 DEF Fits, SideOf
  <2>2. l \in Places
    BY DEF Places
  <2>3. /\ pc' \in [Procs -> Places] /\ failed' \in [Procs -> BOOLEAN]
        /\ pc'[p] = l /\ \A q \in Procs \ {p} : pc'[q] = pc[q]
    BY <2>1, <2>2, MoveType DEF IInv
  <2>4. said' \in [Procs -> Ids \cup {None}]
    BY <1>2, <1>5 DEF Ids
  <2>5. CASE s = "publisher"
    <3>1. dir' = [dir EXCEPT !.publisher =
                    [id |-> p, allow |-> TRUE, manifest |-> TRUE]]
      BY <1>5, <2>5 DEF Fresh
    <3>2. /\ dir'.publisher = [id |-> p, allow |-> TRUE, manifest |-> TRUE]
          /\ dir'.subscriber = dir.subscriber
      BY <3>1 DEF IInv, TypeOK
    <3>3. dir' \in [publisher : [id : Ids \cup {None}, allow : BOOLEAN,
                                 manifest : BOOLEAN],
                    subscriber : [id : Ids \cup {None},
                                  contact : Procs \cup {"paired", None},
                                  pending : {"paired", None}]]
      BY <3>1 DEF IInv, TypeOK, Ids
    <3>4. TypeOK'
      BY <1>2, <2>3, <2>4, <3>3 DEF IInv, TypeOK, Places, Running, device
    <3>5. ContactInv'
      BY <1>2, <1>3, <2>3, <3>2 DEF IInv, ContactInv
    <3>6. \A t \in Sides : dir[t].id # None => dir'[t].id = dir[t].id
      BY <1>5, <2>5, <3>2 DEF Sides, CanInstall
    <3>7. Goto(p, "load") /\ UNCHANGED said
      BY <1>5, <2>5
    <3>8. "load" \in Places /\ Fits(cmd[p], "load")
      BY <1>3, <2>5 DEF Places, Fits, SideOf
    <3>9. pc'[p] = "load"
      BY <3>7, <3>8, MoveType DEF IInv
    <3>10. PathInv'
      BY <1>2, <2>3, <3>8, <3>9 DEF IInv, PathInv
    <3>11. KeyInv'
      BY <1>1, <1>2, <3>6, <3>7, <3>8, KeyFrame DEF IInv
    <3>12. LockInv' /\ DeviceInv'
      BY <1>1, <1>2, <3>7, <3>8, DeviceFrame DEF IInv, device
    <3>13. StagingInv'
      BY <1>1, <1>2, <3>7, <3>8, StagingFrame DEF IInv
    <3> QED BY <3>4, <3>5, <3>10, <3>11, <3>12, <3>13 DEF IInv
  <2>6. CASE s # "publisher"
    <3>1. s = "subscriber"
      BY <2>6 DEF SideOf
    <3>2. dir' = [dir EXCEPT !.subscriber =
                    [id |-> p, contact |-> None, pending |-> None]]
      BY <1>5, <3>1 DEF Fresh
    <3>3. /\ dir'.subscriber = [id |-> p, contact |-> None, pending |-> None]
          /\ dir'.publisher = dir.publisher
      BY <3>2 DEF IInv, TypeOK
    <3>4. dir' \in [publisher : [id : Ids \cup {None}, allow : BOOLEAN,
                                 manifest : BOOLEAN],
                    subscriber : [id : Ids \cup {None},
                                  contact : Procs \cup {"paired", None},
                                  pending : {"paired", None}]]
      BY <3>2 DEF IInv, TypeOK, Ids
    <3>5. TypeOK'
      BY <1>2, <2>3, <2>4, <3>4 DEF IInv, TypeOK, Places, Running, device
    <3>6. ContactInv'
      <4>1. p # None /\ None \notin Procs
        BY CommandLineAssumption
      <4>2. /\ dir'.subscriber.id = p /\ dir'.subscriber.contact = None
            /\ dir'.subscriber.pending = None
        BY <3>3
      <4> QED BY <4>1, <4>2 DEF ContactInv
    <3>7. \A t \in Sides : dir[t].id # None => dir'[t].id = dir[t].id
      BY <1>5, <3>1, <3>3 DEF Sides, CanInstall
    <3>8. Goto(p, "ended") /\ said' = [said EXCEPT ![p] = dir'[s].id]
      BY <1>5, <3>1, <3>3
    <3> QED BY <1>1, <1>2, <3>5, <3>6, <3>7, <3>8, PrintingStep
  <2> QED BY <2>5, <2>6
<1> QED BY <1>4, <1>5 DEF Install

(* The pending contact goes before the contact comes.                      *)
LEMMA ForgetPendingStep ==
  ASSUME IInv, NEW p \in Procs, ForgetPending(p)
  PROVE  IInv'
<1>1. /\ pc[p] = "unpend"
      /\ pc[p] \notin Running \cup {"rename", "clean", "ended", "dead"}
  BY DEF ForgetPending, Running
<1>2. /\ UNCHANGED <<config, staging, locks, cmd, saw, said, device>>
      /\ "write" \in Places /\ "ended" \in Places
  BY DEF ForgetPending, Places
<1>3. cmd[p] = "set-publisher"
  BY <1>1 DEF IInv, PathInv, Fits
<1>4. CASE Throws(p, "ended") /\ UNCHANGED dir
  <2>1. /\ Fits(cmd'[p], "ended")
        /\ cmd' \in [Procs -> Commands \cup {None}]
        /\ saw' \in [Procs -> [contact : BOOLEAN, pending : BOOLEAN,
                               fits : BOOLEAN]]
        /\ \A q \in Procs \ {p} : cmd'[q] = cmd[q]
    BY <1>2 DEF IInv, TypeOK, Fits
  <2>2. UNCHANGED <<config, files, locks, said, device>>
    BY <1>2, <1>4 DEF files
  <2> QED BY <1>1, <1>2, <1>4, <2>1, <2>2, LookingStep
<1>5. CASE /\ Goto(p, "write")
           /\ dir' = [dir EXCEPT !.subscriber.pending = None]
  <2>1. /\ pc' \in [Procs -> Places] /\ failed' \in [Procs -> BOOLEAN]
        /\ pc'[p] = "write" /\ \A q \in Procs \ {p} : pc'[q] = pc[q]
    BY <1>2, <1>5, MoveType DEF IInv
  <2>2. /\ dir'.publisher = dir.publisher
        /\ dir'.subscriber = [dir.subscriber EXCEPT !.pending = None]
    BY <1>5 DEF IInv, TypeOK
  <2>3. /\ dir'.subscriber.id = dir.subscriber.id
        /\ dir'.subscriber.contact = dir.subscriber.contact
        /\ dir'.subscriber.pending = None
    BY <2>2 DEF IInv, TypeOK
  <2>4. dir' \in [publisher : [id : Ids \cup {None}, allow : BOOLEAN,
                               manifest : BOOLEAN],
                  subscriber : [id : Ids \cup {None},
                                contact : Procs \cup {"paired", None},
                                pending : {"paired", None}]]
    BY <1>5 DEF IInv, TypeOK
  <2>5. TypeOK'
    BY <1>2, <2>1, <2>4 DEF IInv, TypeOK, Places, Running, device
  <2>6. PathInv'
    BY <1>2, <1>3, <2>1 DEF IInv, PathInv, Fits
  <2>7. KeyInv'
    <3>1. \A s \in Sides : dir'[s].id = dir[s].id
      BY <2>2, <2>3 DEF Sides
    <3> QED BY <1>1, <1>2, <1>5, <3>1, KeyFrame DEF IInv
  <2>8. ContactInv'
    BY <1>1, <1>2, <1>3, <2>1, <2>3 DEF IInv, ContactInv
  <2>9. LockInv' /\ DeviceInv'
    BY <1>1, <1>2, <1>5, DeviceFrame DEF IInv, device
  <2>10. StagingInv'
    BY <1>1, <1>2, <1>5, StagingFrame DEF IInv
  <2> QED BY <2>5, <2>6, <2>7, <2>8, <2>9, <2>10 DEF IInv
<1> QED BY <1>4, <1>5 DEF ForgetPending

(* Between the places of a write nothing but the staging changes.          *)
LEMMA WritingFrame ==
  ASSUME IInv, NEW p \in Procs,
         NEW l \in {"rename", "clean", "check", "ended"},
         Goto(p, l) \/ Throws(p, l), pc[p] \in {"write", "rename", "clean"},
         l = "rename" => pc[p] = "write",
         UNCHANGED <<config, locks, cmd, saw, said, device>>,
         \A s \in Sides : dir[s].id # None => dir'[s].id = dir[s].id
  PROVE  /\ pc' \in [Procs -> Places] /\ failed' \in [Procs -> BOOLEAN]
         /\ pc'[p] = l
         /\ \A q \in Procs \ {p} : pc'[q] = pc[q] /\ failed'[q] = failed[q]
         /\ PathInv' /\ KeyInv' /\ LockInv' /\ DeviceInv'
<1>1. /\ l \in Places /\ l # "start" /\ pc[p] # "ended"
      /\ pc[p] \notin Running /\ pc[p] # "dead"
  BY DEF Places, Running
<1>2. /\ pc' \in [Procs -> Places] /\ failed' \in [Procs -> BOOLEAN]
      /\ pc'[p] = l
      /\ \A q \in Procs \ {p} : pc'[q] = pc[q] /\ failed'[q] = failed[q]
  BY <1>1, MoveType DEF IInv
<1>3. PathInv'
  BY <1>2 DEF IInv, PathInv, Fits
<1>4. KeyInv'
  BY <1>1, KeyFrame DEF IInv
<1>5. LockInv' /\ DeviceInv'
  BY <1>1, DeviceFrame DEF IInv, device
<1> QED BY <1>2, <1>3, <1>4, <1>5

(* The writer stages in the directory of its command.                      *)
LEMMA MkdtempStep ==
  ASSUME IInv, NEW p \in Procs, Mkdtemp(p)
  PROVE  IInv'
<1> DEFINE s == SideOf(cmd[p])
<1>1. pc[p] = "write" /\ s \in Sides
  BY DEF Mkdtemp, SideOf, Sides
<1>2. UNCHANGED <<config, dir, locks, cmd, saw, said, device>>
  BY DEF Mkdtemp
<1>3. PICK l \in {"rename", "ended"} :
        /\ Goto(p, l) \/ Throws(p, l)
        /\ \/ l = "rename" /\ staging' = [staging EXCEPT ![s] = @ \cup {p}]
           \/ UNCHANGED staging
  BY DEF Mkdtemp
<1>4. /\ pc' \in [Procs -> Places] /\ failed' \in [Procs -> BOOLEAN]
      /\ pc'[p] = l
      /\ \A q \in Procs \ {p} : pc'[q] = pc[q] /\ failed'[q] = failed[q]
      /\ PathInv' /\ KeyInv' /\ LockInv' /\ DeviceInv'
  BY <1>1, <1>2, <1>3, WritingFrame
<1>5. staging' \in [Sides -> SUBSET Procs]
  <2>1. CASE UNCHANGED staging
    BY <2>1 DEF IInv, TypeOK
  <2>2. CASE staging' = [staging EXCEPT ![s] = @ \cup {p}]
    BY <1>1, <2>2 DEF IInv, TypeOK
  <2> QED BY <1>3, <2>1, <2>2
<1>6. TypeOK'
  BY <1>2, <1>4, <1>5 DEF IInv, TypeOK, Places, Running, device
<1>7. ContactInv'
  BY <1>1, <1>2, <1>4 DEF IInv, ContactInv
<1>8. StagingInv'
  <2>1. \A t \in Sides : p \notin staging[t]
    BY <1>1 DEF IInv, StagingInv
  <2>2. CASE UNCHANGED staging
    BY <1>2, <1>4, <2>1, <2>2 DEF IInv, StagingInv
  <2>3. CASE l = "rename" /\ staging' = [staging EXCEPT ![s] = @ \cup {p}]
    <3>1. \A q \in Procs \ {p}, t \in Sides :
            q \in staging'[t] => q \in staging[t]
      BY <1>1, <2>3 DEF IInv, TypeOK
    <3>2. \A t \in Sides : p \in staging'[t] => t = s
      BY <1>1, <2>1, <2>3 DEF IInv, TypeOK
    <3> QED BY <1>2, <1>4, <2>3, <3>1, <3>2 DEF IInv, StagingInv
  <2> QED BY <1>3, <2>2, <2>3
<1> QED BY <1>4, <1>6, <1>7, <1>8 DEF IInv

(* The file takes its place, the contact where no pending one is left.     *)
LEMMA RenameStep ==
  ASSUME IInv, NEW p \in Procs, Rename(p)
  PROVE  IInv'
<1>1. /\ pc[p] = "rename"
      /\ Goto(p, "clean") \/ Throws(p, "clean")
      /\ UNCHANGED <<config, staging, locks, cmd, saw, said, device>>
  BY DEF Rename
<1>2. cmd[p] \in {"set-allow", "set-services", "set-publisher"}
  BY <1>1 DEF IInv, PathInv, Fits
<1>3. /\ dir' \in [publisher : [id : Ids \cup {None}, allow : BOOLEAN,
                                manifest : BOOLEAN],
                   subscriber : [id : Ids \cup {None},
                                 contact : Procs \cup {"paired", None},
                                 pending : {"paired", None}]]
      /\ \A s \in Sides : dir'[s].id = dir[s].id
      /\ dir'.subscriber.pending = dir.subscriber.pending
      /\ \/ dir'.subscriber.contact = dir.subscriber.contact
         \/ cmd[p] = "set-publisher"
  <2>1. CASE dir' = dir
    BY <2>1 DEF IInv, TypeOK
  <2>2. CASE dir' = [dir EXCEPT !.publisher.allow = FALSE]
    <3>1. /\ dir'.publisher = [dir.publisher EXCEPT !.allow = FALSE]
          /\ dir'.subscriber = dir.subscriber
      BY <2>2 DEF IInv, TypeOK
    <3> QED BY <2>2, <3>1 DEF IInv, TypeOK, Sides
  <2>3. CASE dir' = [dir EXCEPT !.publisher.manifest = FALSE]
    <3>1. /\ dir'.publisher = [dir.publisher EXCEPT !.manifest = FALSE]
          /\ dir'.subscriber = dir.subscriber
      BY <2>3 DEF IInv, TypeOK
    <3> QED BY <2>3, <3>1 DEF IInv, TypeOK, Sides
  <2>4. CASE /\ dir' = [dir EXCEPT !.subscriber.contact = p]
             /\ cmd[p] = "set-publisher"
    <3>1. /\ dir'.subscriber = [dir.subscriber EXCEPT !.contact = p]
          /\ dir'.publisher = dir.publisher
      BY <2>4 DEF IInv, TypeOK
    <3> QED BY <2>4, <3>1 DEF IInv, TypeOK, Sides
  <2> QED BY <1>2, <2>1, <2>2, <2>3, <2>4 DEF Rename, Written
<1>4. /\ pc' \in [Procs -> Places] /\ failed' \in [Procs -> BOOLEAN]
      /\ pc'[p] = "clean"
      /\ \A q \in Procs \ {p} : pc'[q] = pc[q] /\ failed'[q] = failed[q]
      /\ PathInv' /\ KeyInv' /\ LockInv' /\ DeviceInv'
  BY <1>1, <1>3, WritingFrame
<1>5. TypeOK'
  BY <1>1, <1>3, <1>4 DEF IInv, TypeOK, Places, Running, device
<1>6. ContactInv'
  <2>1. dir'.subscriber.id = dir.subscriber.id
    BY <1>3 DEF Sides
  <2> QED BY <1>1, <1>3, <1>4, <2>1 DEF IInv, ContactInv
<1>7. StagingInv'
  BY <1>1, <1>4 DEF IInv, StagingInv
<1> QED BY <1>4, <1>5, <1>6, <1>7 DEF IInv

(* The writer cleans up what it staged, or reports that it could not.      *)
LEMMA CleanStep ==
  ASSUME IInv, NEW p \in Procs, Clean(p)
  PROVE  IInv'
<1> DEFINE s == SideOf(cmd[p])
<1>0. s \in Sides
  BY DEF SideOf, Sides
<1> HIDE DEF s
<1>1. /\ pc[p] = "clean" /\ s \in Sides
      /\ UNCHANGED <<config, dir, locks, cmd, saw, said, device>>
      /\ \/ staging' = [staging EXCEPT ![s] = @ \ {p}]
         \/ Throws(p, "ended") /\ UNCHANGED staging
  BY <1>0 DEF Clean, s
<1>2. PICK l \in {"ended", "check"} : Goto(p, l) \/ Throws(p, l)
  BY DEF Clean
<1>3. /\ pc' \in [Procs -> Places] /\ failed' \in [Procs -> BOOLEAN]
      /\ pc'[p] = l
      /\ \A q \in Procs \ {p} : pc'[q] = pc[q] /\ failed'[q] = failed[q]
      /\ PathInv' /\ KeyInv' /\ LockInv' /\ DeviceInv'
  BY <1>1, <1>2, WritingFrame
<1>4. staging' \in [Sides -> SUBSET Procs]
  <2>1. staging \in [Sides -> SUBSET Procs]
    BY DEF IInv, TypeOK
  <2>2. CASE staging' = [staging EXCEPT ![s] = @ \ {p}]
    BY <2>1, <2>2
  <2>3. CASE UNCHANGED staging
    BY <2>1, <2>3
  <2> QED BY <1>1, <2>2, <2>3
<1>5. TypeOK'
  BY <1>1, <1>3, <1>4 DEF IInv, TypeOK, Places, Running, device
<1>6. ContactInv'
  BY <1>1, <1>3 DEF IInv, ContactInv
<1>7. StagingInv'
  <2>1. CASE staging' = [staging EXCEPT ![s] = @ \ {p}]
    <3>1. \A q \in Procs \ {p}, t \in Sides :
            q \in staging'[t] => q \in staging[t]
      BY <1>1, <2>1 DEF IInv, TypeOK
    <3>2. \A t \in Sides : p \notin staging'[t]
      BY <1>1, <2>1 DEF IInv, TypeOK, StagingInv, s
    <3> QED BY <1>1, <1>3, <3>1, <3>2 DEF IInv, StagingInv
  <2>2. CASE Throws(p, "ended") /\ UNCHANGED staging
    <3>1. pc'[p] = "ended" /\ failed'[p]
      BY <2>2 DEF Throws, IInv, TypeOK
    <3> QED BY <1>1, <1>3, <2>2, <3>1 DEF IInv, StagingInv
  <2> QED BY <1>1, <2>1, <2>2
<1> QED BY <1>3, <1>5, <1>6, <1>7 DEF IInv

(* In `run` the state directories stay as they are, but for a promotion.   *)
LEMMA RunningFrame ==
  ASSUME IInv, NEW p \in Procs, NEW l \in Running \cup {"ended"},
         Goto(p, l) \/ Throws(p, l), pc[p] \in Running,
         UNCHANGED <<config, files, cmd, saw, said, promotes>>,
         locks' \in [Sides -> Ids \cup {None}],
         keeps' \in [Procs -> SUBSET Sides],
         role' \in [Procs -> [Sides -> {"off", "starting", "up", "failed"}]],
         dht' \in [Procs -> BOOLEAN]
  PROVE  /\ pc'[p] = l /\ (failed[p] => failed'[p])
         /\ \A q \in Procs \ {p} : pc'[q] = pc[q] /\ failed'[q] = failed[q]
         /\ TypeOK' /\ PathInv' /\ KeyInv' /\ ContactInv' /\ StagingInv'
<1>1. l \in Places /\ Fits(cmd[p], l) /\ l \notin {"unpend", "write", "rename"}
  BY DEF Places, Running, Fits
<1>2. pc[p] \notin {"rename", "clean", "ended", "dead"}
  BY DEF Running
<1>3. /\ pc' \in [Procs -> Places] /\ failed' \in [Procs -> BOOLEAN]
      /\ pc'[p] = l /\ (failed[p] => failed'[p])
      /\ \A q \in Procs \ {p} : pc'[q] = pc[q] /\ failed'[q] = failed[q]
  BY <1>1, MoveType DEF IInv
<1>4. TypeOK'
  BY <1>3 DEF IInv, TypeOK, Places, Running, files
<1>5. PathInv'
  BY <1>1, <1>3 DEF IInv, PathInv
<1>6. KeyInv'
  BY <1>1, <1>2, KeyFrame DEF IInv, files
<1>7. ContactInv'
  BY <1>1, ContactFrame DEF IInv, files
<1>8. StagingInv'
  BY <1>1, <1>2, StagingFrame DEF IInv, files
<1> QED BY <1>3, <1>4, <1>5, <1>6, <1>7, <1>8

(* A lock is taken from nobody alive, who could keep it.                   *)
LEMMA AcquireLockStep ==
  ASSUME IInv, NEW p \in Procs, AcquireLock(p)
  PROVE  IInv'
<1> DEFINE s == First(Roles(cmd[p]) \ keeps[p])
<1>1. /\ pc[p] = "lock" /\ s \in Sides /\ pc[p] \in Running
      /\ UNCHANGED <<config, files, cmd, saw, said, role, dht, promotes>>
  BY DEF AcquireLock, First, Sides, Running
<1> HIDE DEF s
<1>2. role[p] \in [Sides -> {"off", "starting", "up", "failed"}]
  BY DEF IInv, TypeOK
<1>3. ~dht[p] /\ \A t \in Sides : role[p][t] \notin {"starting", "up"}
  BY <1>1 DEF IInv, DeviceInv, DeviceUp
<1>4. CASE Throws(p, "release") /\ UNCHANGED <<locks, keeps>>
  <2>1. /\ pc'[p] = "release" /\ (failed[p] => failed'[p])
        /\ \A q \in Procs \ {p} : pc'[q] = pc[q] /\ failed'[q] = failed[q]
        /\ TypeOK' /\ PathInv' /\ KeyInv' /\ ContactInv' /\ StagingInv'
    BY <1>1, <1>4, RunningFrame DEF IInv, TypeOK, Running
  <2>2. LockInv'
    BY <1>1, <1>4, <2>1 DEF IInv, LockInv, Running
  <2>3. DeviceInv'
    BY <1>1, <1>3, <1>4, <2>1 DEF IInv, DeviceInv
  <2> QED BY <2>1, <2>2, <2>3 DEF IInv
<1>5. CASE /\ ~Alive(locks[s])
           /\ locks' = [locks EXCEPT ![s] = p]
           /\ keeps' = [keeps EXCEPT ![p] = @ \cup {s}]
           /\ Goto(p, IF keeps[p] \cup {s} = Roles(cmd[p]) THEN "start"
                      ELSE "lock")
  <2>1. PICK l \in {"start", "lock"} :
          /\ Goto(p, l)
          /\ l = "start" => keeps[p] \cup {s} = Roles(cmd[p])
    BY <1>5
  <2>2. /\ locks' \in [Sides -> Ids \cup {None}]
        /\ locks'[s] = p /\ \A t \in Sides \ {s} : locks'[t] = locks[t]
    BY <1>1, <1>5 DEF IInv, TypeOK, Ids
  <2>3. /\ keeps' \in [Procs -> SUBSET Sides]
        /\ keeps'[p] = keeps[p] \cup {s}
        /\ \A q \in Procs \ {p} : keeps'[q] = keeps[q]
    BY <1>1, <1>5 DEF IInv, TypeOK
  <2>4. /\ pc'[p] = l /\ (failed[p] => failed'[p])
        /\ \A q \in Procs \ {p} : pc'[q] = pc[q] /\ failed'[q] = failed[q]
        /\ TypeOK' /\ PathInv' /\ KeyInv' /\ ContactInv' /\ StagingInv'
    BY <1>1, <2>1, <2>2, <2>3, RunningFrame DEF IInv, TypeOK, Running
  <2>5. ASSUME NEW q \in Procs \ {p}, s \in keeps[q], pc[q] # "dead"
        PROVE  FALSE
    BY <1>1, <1>5, <2>5 DEF IInv, LockInv, Alive, Running
  <2>6. LockInv'
    <3>1. pc'[p] = "start" => keeps'[p] = Roles(cmd'[p])
      BY <1>1, <2>1, <2>3, <2>4
    <3>2. ASSUME NEW t \in Sides
          PROVE  /\ t \in keeps'[p] => locks'[t] = p /\ pc'[p] \in Running
                 /\ locks'[t] = p /\ ~failed'[p] => t \in keeps'[p]
      BY <1>1, <2>2, <2>3, <2>4 DEF IInv, LockInv, Running
    <3>3. ASSUME NEW q \in Procs \ {p}
          PROVE  pc'[q] = "start" => keeps'[q] = Roles(cmd'[q])
      BY <1>1, <2>3, <2>4 DEF IInv, LockInv
    <3>4. ASSUME NEW q \in Procs \ {p}, NEW t \in Sides
          PROVE  /\ t \in keeps'[q] /\ pc'[q] # "dead" =>
                      locks'[t] = q /\ pc'[q] \in Running
                 /\ locks'[t] = q /\ ~failed'[q] => t \in keeps'[q]
      BY <2>2, <2>3, <2>4, <2>5 DEF IInv, LockInv
    <3> QED BY <3>1, <3>2, <3>3, <3>4 DEF LockInv
  <2>7. DeviceInv'
    BY <1>1, <1>3, <2>3, <2>4 DEF IInv, DeviceInv
  <2> QED BY <2>4, <2>6, <2>7 DEF IInv
<1> QED BY <1>4, <1>5 DEF AcquireLock, s

(* A process that keeps its locks and goes on in `run`.                    *)
LEMMA KeepingFrame ==
  ASSUME IInv, NEW p \in Procs, NEW l \in Running \ {"start"},
         Goto(p, l) \/ Throws(p, l), pc[p] \in Running,
         UNCHANGED <<config, files, locks, cmd, saw, said, keeps, promotes>>,
         role' \in [Procs -> [Sides -> {"off", "starting", "up", "failed"}]],
         dht' \in [Procs -> BOOLEAN]
  PROVE  /\ pc'[p] = l /\ \A q \in Procs \ {p} : pc'[q] = pc[q]
         /\ TypeOK' /\ PathInv' /\ KeyInv' /\ ContactInv' /\ LockInv'
         /\ StagingInv'
<1>1. /\ pc'[p] = l /\ (failed[p] => failed'[p])
      /\ \A q \in Procs \ {p} : pc'[q] = pc[q] /\ failed'[q] = failed[q]
      /\ TypeOK' /\ PathInv' /\ KeyInv' /\ ContactInv' /\ StagingInv'
  BY RunningFrame DEF IInv, TypeOK
<1>2. l # "start" /\ pc[p] # "dead"
  BY DEF Running
<1>3. LockInv'
  BY <1>1, <1>2 DEF IInv, LockInv
<1> QED BY <1>1, <1>3

(* The roles start under the locks of their command.                       *)
LEMMA StartDeviceStep ==
  ASSUME IInv, NEW p \in Procs, StartDevice(p)
  PROVE  IInv'
<1>1. /\ pc[p] = "start" /\ pc[p] \in Running
      /\ UNCHANGED <<config, files, locks, cmd, saw, said, keeps, promotes>>
  BY DEF StartDevice, Running
<1>2. role \in [Procs -> [Sides -> {"off", "starting", "up", "failed"}]]
  BY DEF IInv, TypeOK
<1>3. ~dht[p] /\ \A s \in Sides : role[p][s] \notin {"starting", "up"}
  BY <1>1 DEF IInv, DeviceInv, DeviceUp
<1>4. CASE Throws(p, "release") /\ UNCHANGED <<dht, role>>
  <2>1. /\ pc'[p] = "release" /\ \A q \in Procs \ {p} : pc'[q] = pc[q]
        /\ TypeOK' /\ PathInv' /\ KeyInv' /\ ContactInv' /\ LockInv'
        /\ StagingInv'
    BY <1>1, <1>4, KeepingFrame DEF IInv, TypeOK, Running
  <2>2. DeviceInv'
    BY <1>1, <1>3, <1>4, <2>1 DEF IInv, DeviceInv
  <2> QED BY <2>1, <2>2 DEF IInv
<1>5. CASE /\ Goto(p, "starting")
           /\ dht' = [dht EXCEPT ![p] = TRUE]
           /\ role' = [role EXCEPT ![p] = [s \in Sides |->
                IF s \in Roles(cmd[p]) THEN "starting" ELSE "off"]]
  <2>1. /\ role' \in [Procs -> [Sides -> {"off", "starting", "up", "failed"}]]
        /\ \A q \in Procs \ {p} : role'[q] = role[q]
        /\ \A s \in Sides : s \notin Roles(cmd[p]) => role'[p][s] = "off"
    BY <1>2, <1>5
  <2>2. /\ dht' \in [Procs -> BOOLEAN]
        /\ \A q \in Procs \ {p} : dht'[q] = dht[q]
    BY <1>5 DEF IInv, TypeOK
  <2>3. /\ pc'[p] = "starting" /\ \A q \in Procs \ {p} : pc'[q] = pc[q]
        /\ TypeOK' /\ PathInv' /\ KeyInv' /\ ContactInv' /\ LockInv'
        /\ StagingInv'
    BY <1>1, <1>5, <2>1, <2>2, KeepingFrame DEF Running
  <2>4. keeps[p] = Roles(cmd[p])
    BY <1>1 DEF IInv, LockInv
  <2>5. DeviceInv'
    BY <1>1, <2>1, <2>2, <2>3, <2>4 DEF IInv, DeviceInv, DeviceUp
  <2> QED BY <2>3, <2>5 DEF IInv
<1> QED BY <1>4, <1>5 DEF StartDevice

(* A role has started or failed.                                           *)
LEMMA StartRoleStep ==
  ASSUME IInv, NEW p \in Procs, NEW s \in Sides, StartRole(p, s)
  PROVE  IInv'
<1>1. /\ role[p][s] = "starting"
      /\ UNCHANGED <<config, files, locks, cmd, pc, failed, saw, said, keeps,
                     dht, promotes>>
  BY DEF StartRole
<1>2. PICK r \in {"up", "failed"} : role' = [role EXCEPT ![p][s] = r]
  BY DEF StartRole
<1>3. role \in [Procs -> [Sides -> {"off", "starting", "up", "failed"}]]
  BY DEF IInv, TypeOK
<1>4. role' \in [Procs -> [Sides -> {"off", "starting", "up", "failed"}]]
  BY <1>2, <1>3
<1>5. /\ role'[p][s] # "starting"
      /\ \A q \in Procs, t \in Sides :
           role'[q][t] = role[q][t] \/ (q = p /\ t = s)
  BY <1>2, <1>3
<1>6. TypeOK'
  BY <1>1, <1>4 DEF IInv, TypeOK, files
<1>7. PathInv' /\ KeyInv' /\ ContactInv'
  BY <1>1 DEF IInv, PathInv, KeyInv, ContactInv, files
<1>8. LockInv' /\ StagingInv'
  BY <1>1 DEF IInv, LockInv, StagingInv, files
<1>9. DeviceInv'
  BY <1>1, <1>5 DEF IInv, DeviceInv
<1> QED BY <1>6, <1>7, <1>8, <1>9 DEF IInv

(* All roles have settled.                                                 *)
LEMMA StartedStep ==
  ASSUME IInv, NEW p \in Procs, Started(p)
  PROVE  IInv'
<1>1. /\ pc[p] = "starting" /\ pc[p] \in Running
      /\ \A s \in Sides : role[p][s] # "starting"
      /\ UNCHANGED <<config, files, locks, cmd, saw, said, device>>
  BY DEF Started, Running, AllSettled, In
<1>2. PICK l \in {"waiting", "stopping"} : Goto(p, l) \/ Throws(p, l)
  BY DEF Started
<1>3. l \in Running \ {"start"} /\ l \in DeviceUp
  BY DEF Running, DeviceUp
<1>4. /\ pc'[p] = l /\ \A q \in Procs \ {p} : pc'[q] = pc[q]
      /\ TypeOK' /\ PathInv' /\ KeyInv' /\ ContactInv' /\ LockInv'
      /\ StagingInv'
  BY <1>1, <1>2, <1>3, KeepingFrame DEF IInv, TypeOK, device
<1>5. DeviceInv'
  BY <1>1, <1>3, <1>4 DEF IInv, DeviceInv, device
<1> QED BY <1>4, <1>5 DEF IInv

(* A signal.                                                               *)
LEMMA SignalStep ==
  ASSUME IInv, NEW p \in Procs, Signal(p)
  PROVE  IInv'
<1>1. /\ pc[p] = "waiting" /\ pc[p] \in Running /\ Goto(p, "stopping")
      /\ UNCHANGED <<config, files, locks, cmd, saw, said, device>>
  BY DEF Signal, Running
<1>2. "stopping" \in Running \ {"start"} /\ "stopping" \in DeviceUp
  BY DEF Running, DeviceUp
<1>3. /\ pc'[p] = "stopping" /\ \A q \in Procs \ {p} : pc'[q] = pc[q]
      /\ TypeOK' /\ PathInv' /\ KeyInv' /\ ContactInv' /\ LockInv'
      /\ StagingInv'
  BY <1>1, <1>2, KeepingFrame DEF IInv, TypeOK, device
<1>4. DeviceInv'
  BY <1>1, <1>2, <1>3 DEF IInv, DeviceInv, device
<1> QED BY <1>3, <1>4 DEF IInv

(* The promotion reads the directory.                                      *)
LEMMA PromotionChecksStep ==
  ASSUME IInv, NEW p \in Procs, PromotionChecks(p)
  PROVE  IInv'
<1>1. /\ promotes' = [promotes EXCEPT ![p] = TRUE]
      /\ UNCHANGED <<config, files, locks, cmd, pc, failed, saw, said, keeps,
                     role, dht>>
  BY DEF PromotionChecks
<1>2. TypeOK'
  BY <1>1 DEF IInv, TypeOK, files
<1>3. PathInv' /\ KeyInv' /\ ContactInv'
  BY <1>1 DEF IInv, PathInv, KeyInv, ContactInv, files
<1>4. LockInv' /\ DeviceInv' /\ StagingInv'
  BY <1>1 DEF IInv, LockInv, DeviceInv, StagingInv, files
<1> QED BY <1>2, <1>3, <1>4 DEF IInv

(* A promotion only ever makes a paired contact of a pending one.          *)
LEMMA PromotesStep ==
  ASSUME IInv, NEW p \in Procs, Promotes(p)
  PROVE  IInv'
<1>1. /\ promotes' = [promotes EXCEPT ![p] = FALSE]
      /\ UNCHANGED <<config, staging, locks, cmd, pc, failed, saw, said,
                     keeps, role, dht>>
  BY DEF Promotes
<1>2. CASE dir' = dir
  <2>1. TypeOK'
    BY <1>1, <1>2 DEF IInv, TypeOK
  <2>2. PathInv' /\ KeyInv' /\ ContactInv'
    BY <1>1, <1>2 DEF IInv, PathInv, KeyInv, ContactInv
  <2>3. LockInv' /\ DeviceInv' /\ StagingInv'
    BY <1>1 DEF IInv, LockInv, DeviceInv, StagingInv
  <2> QED BY <2>1, <2>2, <2>3 DEF IInv
<1>3. CASE /\ dir.subscriber.pending # None
           /\ dir' = [dir EXCEPT
                !.subscriber.contact = dir.subscriber.pending,
                !.subscriber.pending = None]
  <2>1. dir.subscriber.pending = "paired"
    BY <1>3, DirectoryTypes DEF IInv
  <2>2. dir' = [dir EXCEPT !.subscriber =
                  [[dir.subscriber EXCEPT !.contact = "paired"]
                     EXCEPT !.pending = None]]
    BY <1>3, <2>1 DEF IInv, TypeOK
  <2>3. /\ dir'.publisher = dir.publisher
        /\ dir'.subscriber = [[dir.subscriber EXCEPT !.contact = "paired"]
                                EXCEPT !.pending = None]
    BY <2>2 DEF IInv, TypeOK
  <2>4. /\ dir'.subscriber.id = dir.subscriber.id
        /\ dir'.subscriber.contact = "paired"
        /\ dir'.subscriber.pending = None
        /\ dir'.subscriber \in
             [id : Ids \cup {None}, contact : Procs \cup {"paired", None},
              pending : {"paired", None}]
    BY <2>3 DEF IInv, TypeOK
  <2>5. dir' \in [publisher : [id : Ids \cup {None}, allow : BOOLEAN,
                               manifest : BOOLEAN],
                  subscriber : [id : Ids \cup {None},
                                contact : Procs \cup {"paired", None},
                                pending : {"paired", None}]]
    BY <2>2, <2>3, <2>4 DEF IInv, TypeOK
  <2>6. TypeOK'
    BY <1>1, <2>5 DEF IInv, TypeOK
  <2>7. KeyInv'
    <3>1. \A s \in Sides : dir'[s].id = dir[s].id
      BY <2>3, <2>4 DEF Sides
    <3>2. \A c : SideOf(c) \in Sides
      BY DEF SideOf, Sides
    <3> QED BY <1>1, <3>1, <3>2 DEF IInv, KeyInv
  <2>8. ContactInv'
    <3>1. dir.subscriber.id # None
      BY <1>3 DEF IInv, ContactInv
    <3> QED BY <1>1, <2>4, <3>1 DEF IInv, ContactInv
  <2>9. PathInv' /\ LockInv' /\ DeviceInv' /\ StagingInv'
    BY <1>1 DEF IInv, PathInv, LockInv, DeviceInv, StagingInv
  <2> QED BY <2>6, <2>7, <2>8, <2>9 DEF IInv
<1> QED BY <1>2, <1>3 DEF Promotes

(* A role stops, whether or not it says so, and its lock stays for now.    *)
LEMMA StopRoleStep ==
  ASSUME IInv, NEW p \in Procs, StopRole(p)
  PROVE  IInv'
<1> DEFINE s == First({t \in Sides : role[p][t] = "up"})
<1>1. /\ pc[p] = "stopping" /\ s \in Sides /\ pc[p] \in Running
      /\ role' = [role EXCEPT ![p][s] = "off"]
      /\ UNCHANGED <<config, files, locks, cmd, saw, said, keeps, dht,
                     promotes>>
  BY DEF StopRole, First, Sides, Running
<1> HIDE DEF s
<1>2. Goto(p, "stopping") \/ Throws(p, "stopping")
  BY DEF StopRole, GoesOn
<1>3. role \in [Procs -> [Sides -> {"off", "starting", "up", "failed"}]]
  BY DEF IInv, TypeOK
<1>4. /\ role' \in [Procs -> [Sides -> {"off", "starting", "up", "failed"}]]
      /\ \A q \in Procs, t \in Sides :
           role'[q][t] = role[q][t] \/ role'[q][t] = "off"
  BY <1>1, <1>3
<1>5. /\ pc'[p] = "stopping" /\ \A q \in Procs \ {p} : pc'[q] = pc[q]
      /\ TypeOK' /\ PathInv' /\ KeyInv' /\ ContactInv' /\ LockInv'
      /\ StagingInv'
  BY <1>1, <1>2, <1>4, KeepingFrame DEF IInv, TypeOK, Running
<1>6. DeviceInv'
  BY <1>1, <1>4, <1>5 DEF IInv, DeviceInv
<1> QED BY <1>5, <1>6 DEF IInv

(* The node goes after the roles.                                          *)
LEMMA DestroyDhtStep ==
  ASSUME IInv, NEW p \in Procs, DestroyDht(p)
  PROVE  IInv'
<1>1. /\ pc[p] = "stopping" /\ pc[p] \in Running
      /\ dht' = [dht EXCEPT ![p] = FALSE]
      /\ Goto(p, "release") \/ Throws(p, "release")
      /\ UNCHANGED <<config, files, locks, cmd, saw, said, keeps, role,
                     promotes>>
  BY DEF DestroyDht, Running
<1>2. /\ dht' \in [Procs -> BOOLEAN] /\ ~dht'[p]
      /\ \A q \in Procs \ {p} : dht'[q] = dht[q]
  BY <1>1 DEF IInv, TypeOK
<1>3. \A s \in Sides : role[p][s] \notin {"starting", "up"}
  BY <1>1 DEF DestroyDht, In, IInv, DeviceInv
<1>4. /\ pc'[p] = "release" /\ \A q \in Procs \ {p} : pc'[q] = pc[q]
      /\ TypeOK' /\ PathInv' /\ KeyInv' /\ ContactInv' /\ LockInv'
      /\ StagingInv'
  BY <1>1, <1>2, KeepingFrame DEF IInv, TypeOK, Running
<1>5. DeviceInv'
  BY <1>1, <1>2, <1>3, <1>4 DEF IInv, DeviceInv
<1> QED BY <1>4, <1>5 DEF IInv

(* A lock that is released is the process's own.                           *)
LEMMA ReleaseRuntimeLocksStep ==
  ASSUME IInv, NEW p \in Procs, ReleaseRuntimeLocks(p)
  PROVE  IInv'
<1> DEFINE s == Last(keeps[p])
<1>1. /\ pc[p] = "release" /\ s \in Sides /\ pc[p] \in Running
      /\ UNCHANGED <<config, files, cmd, saw, said, role, dht, promotes>>
  BY DEF ReleaseRuntimeLocks, Last, Sides, Running
<1>2. keeps[p] # {} => s \in keeps[p]
  <2>1. keeps[p] \subseteq {"publisher", "subscriber"}
    BY DEF IInv, TypeOK, Sides
  <2> QED BY <2>1 DEF Last
<1> HIDE DEF s
<1>3. ~dht[p] /\ \A t \in Sides : role[p][t] \notin {"starting", "up"}
  BY <1>1 DEF IInv, DeviceInv, DeviceUp
<1>4. CASE keeps[p] = {} /\ Goto(p, "ended") /\ UNCHANGED <<locks, keeps>>
  <2>1. /\ pc'[p] = "ended" /\ (failed[p] => failed'[p])
        /\ \A q \in Procs \ {p} : pc'[q] = pc[q] /\ failed'[q] = failed[q]
        /\ TypeOK' /\ PathInv' /\ KeyInv' /\ ContactInv' /\ StagingInv'
    BY <1>1, <1>4, RunningFrame DEF IInv, TypeOK
  <2>2. LockInv'
    BY <1>1, <1>4, <2>1 DEF IInv, LockInv
  <2>3. DeviceInv'
    BY <1>1, <1>3, <1>4, <2>1 DEF IInv, DeviceInv
  <2> QED BY <2>1, <2>2, <2>3 DEF IInv
<1>5. CASE /\ keeps[p] # {}
           /\ keeps' = [keeps EXCEPT ![p] = @ \ {s}]
           /\ \/ Goto(p, "release") /\ locks' = [locks EXCEPT ![s] = None]
              \/ Throws(p, "release") /\ UNCHANGED locks
  <2>1. /\ keeps' \in [Procs -> SUBSET Sides]
        /\ keeps'[p] = keeps[p] \ {s}
        /\ \A q \in Procs \ {p} : keeps'[q] = keeps[q]
    BY <1>5 DEF IInv, TypeOK
  <2>2. /\ locks' \in [Sides -> Ids \cup {None}]
        /\ \A t \in Sides \ {s} : locks'[t] = locks[t]
        /\ locks'[s] = None \/ locks' = locks
    BY <1>1, <1>5 DEF IInv, TypeOK
  <2>3. /\ pc'[p] = "release" /\ (failed[p] => failed'[p])
        /\ \A q \in Procs \ {p} : pc'[q] = pc[q] /\ failed'[q] = failed[q]
        /\ TypeOK' /\ PathInv' /\ KeyInv' /\ ContactInv' /\ StagingInv'
    BY <1>1, <1>5, <2>1, <2>2, RunningFrame DEF IInv, TypeOK, Running
  <2>4. locks'[s] = None \/ failed'[p]
    <3>1. CASE locks' = [locks EXCEPT ![s] = None]
      BY <1>1, <3>1 DEF IInv, TypeOK
    <3>2. CASE Throws(p, "release")
      BY <3>2 DEF IInv, TypeOK, Throws
    <3> QED BY <1>5, <3>1, <3>2
  <2>5. locks[s] = p /\ None \notin Procs
    BY <1>1, <1>2, <1>5, CommandLineAssumption DEF IInv, LockInv
  <2>6. LockInv'
    <3>1. ASSUME NEW t \in Sides
          PROVE  /\ t \in keeps'[p] => locks'[t] = p /\ pc'[p] \in Running
                 /\ locks'[t] = p /\ ~failed'[p] => t \in keeps'[p]
      BY <1>1, <2>1, <2>2, <2>3, <2>4, <2>5 DEF IInv, LockInv, Running
    <3>2. ASSUME NEW q \in Procs \ {p}
          PROVE  pc'[q] = "start" => keeps'[q] = Roles(cmd'[q])
      BY <1>1, <2>1, <2>3 DEF IInv, LockInv
    <3>3. ASSUME NEW q \in Procs \ {p}, NEW t \in Sides
          PROVE  /\ t \in keeps'[q] /\ pc'[q] # "dead" =>
                      locks'[t] = q /\ pc'[q] \in Running
                 /\ locks'[t] = q /\ ~failed'[q] => t \in keeps'[q]
      BY <2>1, <2>2, <2>3, <2>5 DEF IInv, LockInv
    <3> QED BY <2>3, <3>1, <3>2, <3>3 DEF LockInv
  <2>7. DeviceInv'
    BY <1>1, <1>3, <2>1, <2>3 DEF IInv, DeviceInv
  <2> QED BY <2>3, <2>6, <2>7 DEF IInv
<1> QED BY <1>4, <1>5 DEF ReleaseRuntimeLocks, s

(* A process that dies leaves its locks and what it staged.                *)
LEMMA DiesStep ==
  ASSUME IInv, NEW p \in Procs, Dies(p)
  PROVE  IInv'
<1>1. /\ pc[p] \notin {"idle", "ended", "dead"}
      /\ UNCHANGED <<config, files, locks, cmd, failed, saw, said, keeps>>
  BY DEF Dies
<1>2. /\ pc' \in [Procs -> Places] /\ pc'[p] = "dead"
      /\ \A q \in Procs \ {p} : pc'[q] = pc[q]
  BY DEF Dies, IInv, TypeOK, Places, Running
<1>3. /\ role' \in [Procs -> [Sides -> {"off", "starting", "up", "failed"}]]
      /\ \A s \in Sides : role'[p][s] = "off"
      /\ \A q \in Procs \ {p} : role'[q] = role[q]
  BY DEF Dies, IInv, TypeOK
<1>4. /\ dht' \in [Procs -> BOOLEAN] /\ ~dht'[p]
      /\ \A q \in Procs \ {p} : dht'[q] = dht[q]
      /\ promotes' \in [Procs -> BOOLEAN]
  BY DEF Dies, IInv, TypeOK
<1>5. TypeOK'
  BY <1>1, <1>2, <1>3, <1>4 DEF IInv, TypeOK, Places, Running, files
<1>6. PathInv'
  BY <1>1, <1>2 DEF IInv, PathInv, Fits
<1>7. KeyInv' /\ ContactInv'
  BY <1>1, <1>2 DEF IInv, KeyInv, ContactInv, files
<1>8. LockInv'
  BY <1>1, <1>2 DEF IInv, LockInv
<1>9. DeviceInv'
  BY <1>1, <1>2, <1>3, <1>4 DEF IInv, DeviceInv
<1>10. StagingInv'
  BY <1>1, <1>2 DEF IInv, StagingInv, files
<1> QED BY <1>5, <1>6, <1>7, <1>8, <1>9, <1>10 DEF IInv

-----------------------------------------------------------------------------
(* The theorems.                                                           *)

(* IInv is inductive.                                                      *)
LEMMA CommandNextSafe == IInv /\ [Next]_vars => IInv'
<1> SUFFICES ASSUME IInv, [Next]_vars PROVE IInv'
  OBVIOUS
<1>1. CASE UNCHANGED vars
  <2>1. TypeOK'
    BY <1>1 DEF IInv, TypeOK, vars
  <2>2. PathInv' /\ KeyInv' /\ ContactInv'
    BY <1>1 DEF IInv, PathInv, KeyInv, ContactInv, vars
  <2>3. LockInv' /\ DeviceInv' /\ StagingInv'
    BY <1>1 DEF IInv, LockInv, DeviceInv, StagingInv, vars
  <2> QED BY <2>1, <2>2, <2>3 DEF IInv
<1>2. ASSUME NEW p \in Procs,
             \/ RunCli(p) \/ Exists(p) \/ Install(p) \/ LoadPublisherState(p)
             \/ ReadConfig(p) \/ Probe(p) \/ ReadSubscriberIdentity(p)
             \/ ForgetPending(p) \/ Mkdtemp(p) \/ Rename(p) \/ Clean(p)
             \/ Check(p)
      PROVE  IInv'
  BY <1>2, RunCliStep, ExistsStep, InstallStep, LoadPublisherStateStep,
     ReadConfigStep, ProbeStep, ReadSubscriberIdentityStep,
     ForgetPendingStep, MkdtempStep, RenameStep, CleanStep, CheckStep
<1>3. ASSUME NEW p \in Procs,
             \/ AcquireLock(p) \/ StartDevice(p)
             \/ \E s \in Sides : StartRole(p, s)
             \/ Started(p) \/ Signal(p) \/ PromotionChecks(p) \/ Promotes(p)
             \/ StopRole(p) \/ DestroyDht(p) \/ ReleaseRuntimeLocks(p)
             \/ Dies(p)
      PROVE  IInv'
  BY <1>3, AcquireLockStep, StartDeviceStep, StartRoleStep, StartedStep,
     SignalStep, PromotionChecksStep, PromotesStep, StopRoleStep,
     DestroyDhtStep, ReleaseRuntimeLocksStep, DiesStep
<1> QED BY <1>1, <1>2, <1>3 DEF Next

(* The commands keep to IInv.                                              *)
THEOREM CommandLineSafe == Spec => []IInv
<1> QED BY CommandInitSafe, CommandNextSafe, PTL DEF Spec

(* A key that was printed is the key of the directory for good, for any    *)
(* number of processes: setups, runs and writers at once, dying anywhere.  *)
THEOREM CommandLineKeyIsForever == Spec => []KeyIsForever
<1>1. IInv => KeyIsForever
  BY DEF IInv, KeyInv, KeyIsForever
<1> QED BY <1>1, CommandLineSafe, PTL

(* A role at work holds its runtime lock, so no two processes run one role. *)
THEOREM CommandLineOneRunnerPerRole == Spec => []OneRunnerPerRole
<1>1. IInv => OneRunnerPerRole
  BY DEF IInv, LockInv, DeviceInv, DeviceUp, OneRunnerPerRole
<1> QED BY <1>1, CommandLineSafe, PTL

(* What has ended runs nothing and has no node, and has reported whatever  *)
(* it leaves on disk: a lock, a .write- directory.                         *)
THEOREM CommandLineNothingLeftBehind == Spec => []NothingLeftBehind
<1>1. IInv => NothingLeftBehind
  <2> SUFFICES ASSUME IInv, NEW p \in Procs, pc[p] = "ended"
               PROVE  /\ ~In(p, "up") /\ ~In(p, "starting") /\ ~dht[p]
                      /\ \A s \in Sides :
                           p \in staging[s] \/ locks[s] = p => failed[p]
    BY DEF NothingLeftBehind
  <2>1. ~In(p, "up") /\ ~In(p, "starting") /\ ~dht[p]
    BY DEF IInv, DeviceInv, DeviceUp, In
  <2>2. \A s \in Sides : p \in staging[s] => failed[p]
    BY DEF IInv, StagingInv
  <2>3. \A s \in Sides : locks[s] = p => failed[p]
    BY DEF IInv, LockInv, Running
  <2> QED BY <2>1, <2>2, <2>3
<1> QED BY <1>1, CommandLineSafe, PTL

(* A contact that set-publisher has written is not replaced by the         *)
(* promotion of an earlier pairing: there is no pending one any more.      *)
THEOREM CommandLineSetPublisherSticks == Spec => SetPublisherSticks
<1>1. ASSUME IInv, [Next]_vars, dir.subscriber.contact \in Procs
      PROVE  dir'.subscriber.contact \in Procs
  <2>1. dir.subscriber.pending = None /\ dir.subscriber.id # None
    BY <1>1 DEF IInv, ContactInv
  <2>2. CASE dir' = dir
    BY <1>1, <2>2
  <2>3. ASSUME NEW p \in Procs, Install(p), dir' # dir
        PROVE  dir'.subscriber = dir.subscriber
    <3>1. SideOf(cmd[p]) \in Sides /\ SideOf(cmd[p]) # "subscriber"
      BY <2>1, <2>3 DEF Install, CanInstall, SideOf, Sides
    <3> QED BY <1>1, <2>3, <3>1 DEF Install, IInv, TypeOK, Sides
  <2>4. ASSUME NEW p \in Procs, ForgetPending(p)
        PROVE  dir'.subscriber.contact = dir.subscriber.contact
    BY <1>1, <2>4 DEF ForgetPending, IInv, TypeOK
  <2>5. ASSUME NEW p \in Procs, Rename(p)
        PROVE  \/ dir'.subscriber.contact = dir.subscriber.contact
               \/ dir'.subscriber.contact = p
    <3>1. cmd[p] \in {"set-allow", "set-services", "set-publisher"}
      BY <1>1, <2>5 DEF IInv, PathInv, Fits, Rename
    <3>2. CASE dir' = dir
      BY <3>2
    <3>3. CASE \/ dir' = [dir EXCEPT !.publisher.allow = FALSE]
               \/ dir' = [dir EXCEPT !.publisher.manifest = FALSE]
      BY <1>1, <3>3 DEF IInv, TypeOK
    <3>4. CASE dir' = [dir EXCEPT !.subscriber.contact = p]
      BY <1>1, <3>4 DEF IInv, TypeOK
    <3> QED BY <2>5, <3>1, <3>2, <3>3, <3>4 DEF Rename, Written
  <2>6. ASSUME NEW p \in Procs, Promotes(p) PROVE dir' = dir
    BY <2>1, <2>6 DEF Promotes
  <2>7. ASSUME NEW p \in Procs,
               \/ RunCli(p) \/ Exists(p) \/ LoadPublisherState(p)
               \/ ReadConfig(p) \/ Probe(p) \/ ReadSubscriberIdentity(p)
        PROVE  dir' = dir
    <3>1. CASE RunCli(p)
      <4>1. ASSUME NEW c, NEW l, Enter(p, c, l) \/ Refuse(p, c)
            PROVE  dir' = dir
        BY <4>1 DEF Enter, Refuse, files
      <4> QED BY <3>1, <4>1
              DEF RunCli, SetupPublisherCommand, SetupSubscriberCommand,
                  SetSubscriberPublisherCommand, RejectTomlPublisherPolicy,
                  SetPublisherAllowlistCommand, SetPublisherServicesCommand,
                  GetPublisherPublicKeyCommand, RunPublisherCommand,
                  RunSubscriberCommand, RunDeviceCommand, BadOptions,
                  LoadKeposConfig
    <3> QED BY <2>7, <3>1
            DEF Exists, LoadPublisherState, ReadConfig, Probe,
                ReadSubscriberIdentity, files
  <2>8. ASSUME NEW p \in Procs,
               \/ Mkdtemp(p) \/ Clean(p) \/ Check(p) \/ AcquireLock(p)
               \/ StartDevice(p) \/ \E s \in Sides : StartRole(p, s)
               \/ Started(p) \/ Signal(p) \/ PromotionChecks(p)
               \/ StopRole(p) \/ DestroyDht(p) \/ ReleaseRuntimeLocks(p)
               \/ Dies(p)
        PROVE  dir' = dir
    BY <2>8 DEF Mkdtemp, Clean, Check, AcquireLock, StartDevice, StartRole,
       Started, Signal, PromotionChecks, StopRole, DestroyDht,
       ReleaseRuntimeLocks, Dies, files
  <2> QED BY <1>1, <2>2, <2>3, <2>4, <2>5, <2>6, <2>7, <2>8 DEF Next, vars
<1>2. IInv /\ [Next]_vars =>
        [dir.subscriber.contact \in Procs =>
           dir'.subscriber.contact \in Procs]_vars
  BY <1>1
<1> QED BY <1>2, CommandLineSafe, PTL DEF Spec, SetPublisherSticks
=============================================================================
