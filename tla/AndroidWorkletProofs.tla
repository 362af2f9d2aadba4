------------------------ MODULE AndroidWorkletProofs ------------------------
(***************************************************************************)
(* The safety of the worklet, for any publishers, requests and restarts:   *)
(* at most one subscriber runtime, of the publisher on disk, and never the *)
(* services of another one.                                                *)
(***************************************************************************)
EXTENDS AndroidWorklet, SequenceTheorems, TLAPS

Live(i) == runtimes[i] # Gone
OnePublisher == disk.active = None \/ disk.pending = None

\* At most one runtime, which running names and no start is under way beside.
RuntimeInv ==
  /\ \A i \in Ids : Live(i) => running = i /\ runtimes[i].peer \in OnDisk
  /\ starting # None => running = None
  /\ starting # None /\ starting.at = "listens" => starting.key \in OnDisk

\* What the request being handled has brought about so far.
HandlerInv ==
  /\ handler.at = "stops" => /\ running \in Ids /\ starting = None
                             /\ runtimes[running].conn = "stopping"
  /\ handler.at \in {"stopped", "writes", "starts"} => running = None
  /\ handler.at \in {"stopped", "writes"} => starting = None
  /\ handler.at = "writes" => disk.pending = None
  /\ starting # None => (starting.by = "pair" <=> handler.at = "starts")
  /\ handler.at = "starts" => handler.does # "stop"

\* A request that replaces the publisher has made every read too old.
Replacing == handler.at # None /\ handler.does # "stop"
RegistryInv ==
  /\ reading # None =>
       /\ reading.gen <= generation
       /\ reading.gen = generation => ~Replacing /\ reading.from \in OnDisk
  /\ registry # None => ~Replacing /\ registry \in OnDisk

IInv == TypeOK /\ OnePublisher /\ RuntimeInv /\ HandlerInv /\ RegistryInv

-----------------------------------------------------------------------------
(* A request is taken from the head of the queue.                          *)
LEMMA TakesOne ==
  ASSUME TypeOK, NEW d, Takes(d)
  PROVE  /\ handler = Idle /\ Head(requests).does = d
         /\ Head(requests) \in Requests /\ requests' \in Seq(Requests)
         /\ d \in {"configure", "pair"} => Head(requests).key \in Publishers
<1>1. /\ handler = Idle /\ Head(requests).does = d
      /\ Head(requests) \in Requests /\ requests' \in Seq(Requests)
  BY HeadTailProperties DEF TypeOK, Takes
<1>2. d \in {"configure", "pair"} => Head(requests).key \in Publishers
  BY <1>1 DEF Requests
<1> QED BY <1>1, <1>2

(* A runtime that changes, but not whom it talks to.                       *)
LEMMA KeepsPeer ==
  ASSUME TypeOK, RuntimeInv, NEW i \in Ids, Live(i),
         NEW r \in Runtimes, r.peer = runtimes[i].peer,
         runtimes' = [runtimes EXCEPT ![i] = r],
         UNCHANGED <<starting, running>>, OnDisk' = OnDisk
  PROVE  /\ runtimes' \in [Ids -> Runtimes] /\ RuntimeInv'
         /\ \A j \in Ids : runtimes'[j] = IF j = i THEN r ELSE runtimes[j]
<1>1. /\ runtimes' \in [Ids -> Runtimes]
      /\ \A j \in Ids : runtimes'[j] = IF j = i THEN r ELSE runtimes[j]
  BY DEF TypeOK
<1>2. \A j \in Ids : Live(j)' => running' = j /\ runtimes'[j].peer \in OnDisk'
  BY <1>1 DEF RuntimeInv, Live
<1> QED BY <1>1, <1>2 DEF RuntimeInv

(* The process begins with a start under way, or idle.                     *)
LEMMA WorkletInitSafe == Init => IInv
<1> SUFFICES ASSUME Init PROVE IInv
  OBVIOUS
<1> USE DEF Init, IInv
<1>1. TypeOK
  BY WorkletAssumption DEF TypeOK, Handlers, Views, Starts, Runtimes, Idle,
     Keys, FoundView, FoundTask, Connecting, Gone, OnDisk
<1>2. OnePublisher
  BY DEF OnePublisher
<1>3. RuntimeInv
  BY DEF RuntimeInv, Live, FoundTask, Connecting
<1>4. HandlerInv
  BY WorkletAssumption DEF HandlerInv, Idle, Places, FoundTask, Connecting
<1>5. RegistryInv
  BY DEF RegistryInv
<1> QED BY <1>1, <1>2, <1>3, <1>4, <1>5

(* What a step leaves alone keeps its part of the invariant.               *)
LEMMA KeepsPublisher ==
  ASSUME OnePublisher, UNCHANGED disk PROVE OnePublisher'
BY DEF OnePublisher

LEMMA KeepsRuntime ==
  ASSUME RuntimeInv, UNCHANGED <<disk, runVars>> PROVE RuntimeInv'
BY DEF RuntimeInv, Live, OnDisk, runVars

LEMMA KeepsHandler ==
  ASSUME HandlerInv, UNCHANGED <<disk, handler, runVars>> PROVE HandlerInv'
BY DEF HandlerInv, runVars

LEMMA KeepsRegistry ==
  ASSUME RegistryInv,
         UNCHANGED <<disk, handler, registry, generation, reading>>
  PROVE  RegistryInv'
BY DEF RegistryInv, Replacing, OnDisk

(* So does the end of a request, whatever has become of it.                *)
LEMMA EndsRequest ==
  ASSUME HandlerInv, RegistryInv, handler' = Idle,
         starting' # None => starting'.by # "pair",
         UNCHANGED <<disk, registry, generation, reading>>
  PROVE  HandlerInv' /\ RegistryInv'
<1>1. HandlerInv'
  BY WorkletAssumption DEF HandlerInv, Idle, Places
<1>2. RegistryInv'
  BY DEF RegistryInv, Replacing, Idle, OnDisk
<1> QED BY <1>1, <1>2

(* The registry is marked for a refresh, or not.                           *)
LEMMA PublishTypes ==
  ASSUME NEW b, Publish(b) PROVE required' \in BOOLEAN
BY DEF Publish

-----------------------------------------------------------------------------
(* The requests.                                                           *)

(* The host sends a request.                                               *)
LEMMA HostAsksStep == ASSUME IInv, HostAsks PROVE IInv'
<1> USE DEF HostAsks, IInv
<1>1. TypeOK'
  BY WorkletAssumption, AppendProperties
     DEF TypeOK, viewVars, runVars, registryVars
<1> QED BY <1>1, KeepsPublisher, KeepsRuntime, KeepsHandler, KeepsRegistry
     DEF registryVars

(* The status is answered, and may ask for the registry.                   *)
LEMMA AnswersStatusStep == ASSUME IInv, AnswersStatus PROVE IInv'
<1> USE DEF AnswersStatus, IInv
<1>1. TypeOK'
  BY TakesOne, PublishTypes DEF TypeOK, viewVars, runVars
<1> QED BY <1>1, KeepsPublisher, KeepsRuntime, KeepsHandler, KeepsRegistry

(* A request to replace the publisher forgets the registry first.          *)
LEMMA ReplacementBegins ==
  ASSUME IInv, NEW d \in {"configure", "pair"}, Takes(d), Forgets,
         handler' = [does |-> d, key |-> Head(requests).key,
                     at |-> "awaits"],
         view' \in Views,
         UNCHANGED <<disk, asked, state, runVars, reading, restarts>>
  PROVE  IInv'
<1> USE DEF IInv
<1>1. /\ handler = Idle /\ requests' \in Seq(Requests)
      /\ Head(requests).key \in Publishers
  BY TakesOne
<1>2. handler' \in Handlers
  BY <1>1 DEF Handlers, Keys, Places
<1>3. TypeOK'
  BY <1>1, <1>2 DEF TypeOK, Forgets, Keys, runVars
<1>4. HandlerInv'
  BY <1>1, WorkletAssumption DEF HandlerInv, runVars, Idle, Places
<1>5. RegistryInv'
  BY DEF RegistryInv, Forgets, TypeOK
<1> QED BY <1>3, <1>4, <1>5, KeepsPublisher, KeepsRuntime

(* setPublisher, and a pairing that may be made.                           *)
LEMMA ConfigureBeginsStep == ASSUME IInv, ConfigureBegins PROVE IInv'
<1>1. view' \in Views
  BY DEF ConfigureBegins, IInv, TypeOK, Views
<1> QED BY <1>1, ReplacementBegins, TakesOne DEF ConfigureBegins, IInv

LEMMA PairBeginsStep == ASSUME IInv, PairBegins PROVE IInv'
<1> USE DEF PairBegins
<1>1. CASE view.configured /\ (disk.active # None \/ disk.pending = None)
  <2>1. TypeOK'
    BY <1>1, TakesOne DEF IInv, TypeOK, runVars
  <2> QED
    BY <1>1, <2>1, KeepsPublisher, KeepsRuntime, KeepsHandler, KeepsRegistry
       DEF IInv
<1>2. CASE ~(view.configured /\ (disk.active # None \/ disk.pending = None))
  <2>1. view' \in Views
    BY <1>2 DEF IInv, TypeOK, Views
  <2> QED BY <1>2, <2>1, ReplacementBegins, TakesOne DEF IInv
<1> QED BY <1>1, <1>2

(* A stop makes the reads too old, but replaces no publisher.              *)
LEMMA StopBeginsStep == ASSUME IInv, StopBegins PROVE IInv'
<1> USE DEF StopBegins, IInv
<1>1. handler = Idle /\ requests' \in Seq(Requests)
  BY TakesOne
<1>2. handler' \in Handlers
  BY DEF Handlers, Keys, Places
<1>3. TypeOK'
  BY <1>1, <1>2 DEF TypeOK, runVars
<1>4. HandlerInv'
  BY <1>1, WorkletAssumption DEF HandlerInv, runVars, Idle, Places
<1>5. RegistryInv'
  BY DEF RegistryInv, Replacing, OnDisk, TypeOK
<1> QED BY <1>3, <1>4, <1>5, KeepsPublisher, KeepsRuntime

(* The runtime that runs is stopped, if there is one.                      *)
LEMMA StopsRuntimeStep == ASSUME IInv, StopsRuntime PROVE IInv'
<1> USE DEF StopsRuntime, IInv, ConnectTaskEnded, Moves
<1>g. RegistryInv'
  BY WorkletAssumption DEF RegistryInv, Replacing, OnDisk, Places,
     registryVars, TypeOK, Handlers
<1>1. CASE running = None \/ (running # None /\ runtimes[running] = Gone)
  <2>1. running' = None /\ handler' = [handler EXCEPT !.at = "stopped"]
        /\ runtimes' = runtimes
    BY <1>1
  <2>2. TypeOK'
    BY <2>1 DEF TypeOK, Handlers, Places, viewVars, registryVars
  <2>3. RuntimeInv'
    BY <1>1, <2>1 DEF RuntimeInv, Live, OnDisk
  <2>4. HandlerInv'
    BY <2>1 DEF HandlerInv, TypeOK, Handlers
  <2> QED BY <1>g, <2>2, <2>3, <2>4, KeepsPublisher
<1>2. CASE ~(running = None \/ (running # None /\ runtimes[running] = Gone))
  <2> DEFINE r == [runtimes[running] EXCEPT !.conn = "stopping"]
  <2>1. /\ running \in Ids /\ Live(running)
        /\ handler' = [handler EXCEPT !.at = "stops"] /\ running' = running
        /\ runtimes' = [runtimes EXCEPT ![running] = r]
    BY <1>2 DEF TypeOK, Live
  <2>2. /\ r \in Runtimes /\ r.peer = runtimes[running].peer
        /\ r.conn = "stopping"
    BY <2>1 DEF TypeOK, Runtimes
  <2> HIDE DEF r
  <2>3. /\ runtimes' \in [Ids -> Runtimes] /\ RuntimeInv'
        /\ runtimes'[running] = r
    BY <2>1, <2>2, KeepsPeer DEF OnDisk
  <2>4. TypeOK'
    BY <2>1, <2>3 DEF TypeOK, Handlers, Places, viewVars, registryVars
  <2>5. HandlerInv'
    BY <2>1, <2>2, <2>3 DEF HandlerInv, TypeOK, Handlers
  <2> QED BY <1>g, <2>3, <2>4, <2>5, KeepsPublisher
<1> QED BY <1>1, <1>2

(* It was the only one.                                                    *)
LEMMA RunningIsGone ==
  ASSUME IInv, HasStopped, runtimes' = [runtimes EXCEPT ![running] = Gone],
         UNCHANGED <<starting, disk>>
  PROVE  /\ runtimes' = [i \in Ids |-> Gone] /\ runtimes' \in [Ids -> Runtimes]
         /\ starting = None /\ RuntimeInv'
<1> USE DEF IInv
<1>1. running \in Ids /\ starting = None
  BY DEF HasStopped, HandlerInv
<1>2. \A i \in Ids : runtimes'[i] = Gone
  BY <1>1 DEF RuntimeInv, Live, TypeOK
<1>3. runtimes' = [i \in Ids |-> Gone]
  BY <1>2 DEF TypeOK
<1>4. Gone \in Runtimes
  BY DEF Gone, Runtimes, Keys
<1>5. RuntimeInv'
  BY <1>1, <1>2 DEF RuntimeInv, Live
<1> QED BY <1>1, <1>3, <1>4, <1>5

(* It has stopped, or failed to.                                           *)
LEMMA RuntimeStoppedStep == ASSUME IInv, RuntimeStopped PROVE IInv'
<1> USE DEF RuntimeStopped, IInv, Moves
<1>1. /\ runtimes' \in [Ids -> Runtimes]
      /\ starting = None /\ RuntimeInv'
  BY RunningIsGone
<1>2. TypeOK'
  BY <1>1 DEF TypeOK, Handlers, Places, viewVars, registryVars
<1>3. HandlerInv'
  BY <1>1 DEF HandlerInv, TypeOK, Handlers
<1>4. RegistryInv'
  BY WorkletAssumption DEF HasStopped, RegistryInv, Replacing, OnDisk,
     Places, registryVars, TypeOK, Handlers
<1> QED BY <1>1, <1>2, <1>3, <1>4, KeepsPublisher

LEMMA RuntimeStopFailsStep == ASSUME IInv, RuntimeStopFails PROVE IInv'
<1> USE DEF RuntimeStopFails, IInv
<1>1. /\ runtimes' \in [Ids -> Runtimes]
      /\ starting = None /\ RuntimeInv'
  BY RunningIsGone
<1>2. Idle \in Handlers
  BY DEF Idle, Handlers, Keys
<1>3. TypeOK'
  BY <1>1, <1>2 DEF TypeOK, viewVars, registryVars
<1> QED BY <1>1, <1>3, EndsRequest, KeepsPublisher DEF registryVars

(* The answer to the host ends the stop.                                   *)
LEMMA StopEndsStep == ASSUME IInv, StopEnds PROVE IInv'
<1> USE DEF StopEnds, IInv
<1>1. Idle \in Handlers
  BY DEF Idle, Handlers, Keys
<1>2. TypeOK'
  BY <1>1 DEF TypeOK, Views, runVars, registryVars
<1>3. starting = None
  BY DEF HandlerInv
<1> QED BY <1>2, <1>3, EndsRequest, KeepsPublisher, KeepsRuntime
     DEF registryVars, runVars

(* The files of the publisher change while nothing runs.                   *)
LEMMA NothingRuns ==
  ASSUME IInv, handler.at \in {"stopped", "writes", "starts"}
  PROVE  running = None /\ \A i \in Ids : runtimes[i] = Gone
BY WorkletAssumption DEF IInv, HandlerInv, RuntimeInv, Live

(* ... and while neither a registry nor a read can be of the old one.      *)
LEMMA ReadsAreOld ==
  ASSUME RegistryInv, Replacing,
         UNCHANGED <<registry, generation, reading>>
  PROVE  RegistryInv'
BY DEF RegistryInv

(* setSubscriberPublisher, its two steps and its failure.                  *)
LEMMA PublisherRemovedStep == ASSUME IInv, PublisherRemoved PROVE IInv'
<1> USE DEF PublisherRemoved, IInv, RemovesPending, Moves
<1>1. TypeOK'
  BY DEF TypeOK, Handlers, Places, Keys, viewVars, runVars, registryVars
<1>2. OnePublisher'
  BY DEF OnePublisher, TypeOK
<1>3. running = None /\ starting = None /\ \A i \in Ids : runtimes[i] = Gone
  BY NothingRuns DEF HandlerInv
<1>4. RuntimeInv'
  BY <1>3 DEF RuntimeInv, Live, runVars
<1>5. HandlerInv'
  BY <1>3 DEF HandlerInv, TypeOK, Handlers, runVars
<1>6. Replacing
  BY WorkletAssumption DEF Replacing, Places
<1> QED BY <1>1, <1>2, <1>4, <1>5, <1>6, ReadsAreOld DEF registryVars

LEMMA PublisherWrittenStep == ASSUME IInv, PublisherWritten PROVE IInv'
<1> USE DEF PublisherWritten, IInv
<1>1. running = None /\ starting = None /\ \A i \in Ids : runtimes[i] = Gone
  BY NothingRuns DEF HandlerInv
<1>2. /\ starting' = Connecting("connect", None) /\ view' \in Views
      /\ handler' = Idle /\ disk' = [disk EXCEPT !.active = handler.key]
  BY <1>1 DEF TypeOK, Views
<1>3. /\ Connecting("connect", None) \in Starts /\ Idle \in Handlers
      /\ Connecting("connect", None).at = "loads"
      /\ Connecting("connect", None).by = "connect"
      /\ handler.key \in Keys
  BY DEF Connecting, Starts, Idle, Handlers, Keys, TypeOK
<1>4. TypeOK'
  BY <1>2, <1>3, PublishTypes DEF TypeOK
<1>5. OnePublisher'
  BY <1>2 DEF OnePublisher, TypeOK, HandlerInv
<1>6. RuntimeInv'
  BY <1>1, <1>2, <1>3 DEF RuntimeInv, Live
<1>7. HandlerInv'
  BY <1>2, <1>3, WorkletAssumption DEF HandlerInv, Idle, Places
<1>8. Replacing
  BY WorkletAssumption DEF Replacing, Places
<1> QED BY <1>4, <1>5, <1>6, <1>7, <1>8, ReadsAreOld

LEMMA PublisherNotWrittenStep == ASSUME IInv, PublisherNotWritten PROVE IInv'
<1> USE DEF PublisherNotWritten, IInv
<1>1. Idle \in Handlers
  BY DEF Idle, Handlers, Keys
<1>2. TypeOK'
  BY <1>1 DEF TypeOK, viewVars, runVars, registryVars
<1>3. starting = None
  BY DEF HandlerInv
<1> QED BY <1>2, <1>3, EndsRequest, KeepsPublisher, KeepsRuntime
     DEF registryVars, runVars

(* The pairing starts a runtime.                                           *)
LEMMA PairStartsStep == ASSUME IInv, PairStarts PROVE IInv'
<1> USE DEF PairStarts, IInv, Moves
<1>1. running = None /\ \A i \in Ids : runtimes[i] = Gone
  BY NothingRuns
<1>2. /\ starting' \in Starts /\ starting'.at = "loads"
      /\ starting'.by = "pair"
  BY DEF Connecting, Starts, TypeOK, Handlers, Keys
<1>3. /\ handler' \in Handlers /\ view' \in Views
      /\ handler'.at = "starts" /\ handler'.does = "pair"
  BY DEF TypeOK, Handlers, Views, Places
<1>4. TypeOK'
  BY <1>2, <1>3 DEF TypeOK, registryVars
<1>5. RuntimeInv'
  BY <1>1, <1>2 DEF RuntimeInv, Live
<1>6. HandlerInv'
  BY <1>1, <1>2, <1>3 DEF HandlerInv
<1>7. Replacing
  BY WorkletAssumption DEF Replacing, Places
<1> QED BY <1>4, <1>5, <1>6, <1>7, ReadsAreOld, KeepsPublisher
     DEF registryVars

-----------------------------------------------------------------------------
(* startSubscriber.                                                        *)

(* No runtime is there while one starts.                                   *)
LEMMA StartsAlone ==
  ASSUME IInv, starting # None
  PROVE  /\ running = None /\ \A i \in Ids : runtimes[i] = Gone
         /\ starting \in Starts
BY WorkletAssumption DEF IInv, RuntimeInv, Live, TypeOK

(* It reads the one publisher there is, or writes the invited one.         *)
LEMMA LoadsStep == ASSUME IInv, Loads PROVE IInv'
<1> USE DEF Loads, IInv
<1>1. /\ running = None /\ \A i \in Ids : runtimes[i] = Gone
      /\ starting \in Starts
  BY StartsAlone
<1>2. /\ disk' \in [active : Keys, pending : Keys]
      /\ \/ disk' = disk
         \/ /\ starting.by = "pair"
            /\ disk' = [disk EXCEPT !.pending = starting.key]
  BY <1>1 DEF TypeOK, Starts
<1> DEFINE key == IF disk'.active # None THEN disk'.active ELSE disk'.pending
<1>3. starting' = [starting EXCEPT !.at = "listens", !.key = key,
                     !.pending = disk'.pending # None]
  OBVIOUS
<1>4. key \in Keys /\ key \in OnDisk' /\ (disk'.pending # None) \in BOOLEAN
  BY <1>2 DEF OnDisk
<1> HIDE DEF key
<1>5. /\ starting' \in Starts /\ starting'.key = key
      /\ starting'.by = starting.by
  BY <1>1, <1>3, <1>4 DEF Starts
<1>6. TypeOK'
  BY <1>2, <1>5 DEF TypeOK, hostVars, viewVars, registryVars
<1>7. OnePublisher'
  BY DEF OnePublisher
<1>8. RuntimeInv'
  BY <1>1, <1>4, <1>5 DEF RuntimeInv, Live
<1>9. HandlerInv'
  BY <1>1, <1>2, <1>5, WorkletAssumption DEF HandlerInv, hostVars, Places
<1>10. RegistryInv'
  <2>1. CASE disk' = disk
    BY <2>1, KeepsRegistry DEF hostVars, registryVars
  <2>2. CASE starting.by = "pair"
    BY <2>2, WorkletAssumption, ReadsAreOld
       DEF HandlerInv, Replacing, Places, registryVars
  <2> QED BY <1>2, <2>1, <2>2
<1> QED BY <1>6, <1>7, <1>8, <1>9, <1>10

(* It ends, and with it the request for a pairing.                          *)
LEMMA ListensStep == ASSUME IInv, Listens PROVE IInv'
<1> USE DEF Listens, IInv
<1>1. /\ running = None /\ \A i \in Ids : runtimes[i] = Gone
      /\ starting \in Starts /\ starting.key \in OnDisk
  BY StartsAlone DEF RuntimeInv
<1> DEFINE New == [conn |-> "reconnecting", peer |-> starting.key,
                   pairs |-> starting.by = "pair",
                   pending |-> starting.pending,
                   promoting |-> FALSE, told |-> FALSE]
<1>2. PICK i \in Ids : /\ runtimes' = [runtimes EXCEPT ![i] = New]
                       /\ running' = i
  OBVIOUS
<1>3. (starting.by = "pair") \in BOOLEAN
  OBVIOUS
<1>4. New \in Runtimes /\ New.peer = starting.key
  BY <1>1, <1>3 DEF Runtimes, Starts
<1> HIDE DEF New
<1>5. /\ runtimes' \in [Ids -> Runtimes]
      /\ \A j \in Ids : runtimes'[j] = IF j = i THEN New ELSE Gone
  BY <1>1, <1>2, <1>4 DEF TypeOK
<1>6. RuntimeInv'
  BY <1>1, <1>2, <1>4, <1>5 DEF RuntimeInv, Live, OnDisk
<1>7. Idle \in Handlers
  BY DEF Idle, Handlers, Keys
<1>8. TypeOK'
  <2>1. handler' \in Handlers /\ view' \in Views /\ required' \in BOOLEAN
    BY <1>7, PublishTypes DEF TypeOK, Views
  <2> QED BY <1>2, <1>5, <2>1 DEF TypeOK
<1>9. HandlerInv' /\ RegistryInv'
  <2>1. CASE starting.by = "pair"
    BY <2>1, EndsRequest
  <2>2. CASE starting.by # "pair"
    <3>1. HandlerInv'
      BY <2>2 DEF HandlerInv
    <3> QED BY <2>2, <3>1, KeepsRegistry
  <2> QED BY <2>1, <2>2
<1> QED BY <1>6, <1>8, <1>9, KeepsPublisher

(* It fails, and leaves no runtime.                                        *)
LEMMA StartFailsStep == ASSUME IInv, StartFails PROVE IInv'
<1> USE DEF StartFails, IInv, PairingFails, ConnectTaskFails
<1> DEFINE paired == OnDisk # {}
<1>1. paired \in BOOLEAN /\ Idle \in Handlers
  BY DEF Idle, Handlers, Keys
<1>2. handler' \in Handlers /\ view' \in Views /\ starting' = None
  <2>1. CASE starting.by = "pair"
    <3>1. /\ view' = [configured |-> paired, connection |-> "offline",
                       error |-> TRUE, pairing |-> None]
          /\ starting' = None /\ handler' = Idle
      BY <2>1
    <3> HIDE DEF paired
    <3> QED BY <3>1, <1>1 DEF Views
  <2>2. CASE starting.by # "pair"
    BY <2>2 DEF TypeOK, Views
  <2> QED BY <2>1, <2>2
<1>3. TypeOK'
  BY <1>2 DEF TypeOK, registryVars
<1>4. RuntimeInv'
  BY <1>2 DEF RuntimeInv, Live, OnDisk
<1>5. HandlerInv' /\ RegistryInv'
  <2>1. CASE starting.by = "pair"
    BY <2>1, <1>2, EndsRequest DEF registryVars
  <2>2. CASE starting.by # "pair"
    <3>1. HandlerInv'
      BY <2>2, <1>2 DEF HandlerInv
    <3> QED BY <2>2, <3>1, KeepsRegistry DEF registryVars
  <2> QED BY <2>1, <2>2
<1> QED BY <1>3, <1>4, <1>5, KeepsPublisher

-----------------------------------------------------------------------------
(* The runtime and its publisher.                                          *)

(* The view alone changes.                                                 *)
LEMMA RequestIsPendingStep ==
  ASSUME IInv, NEW i \in Ids, RequestIsPending(i) PROVE IInv'
<1> USE DEF RequestIsPending, IInv
<1>1. view' \in Views /\ required' \in BOOLEAN
  BY PublishTypes DEF TypeOK, Views, PublishStatus
<1>2. TypeOK'
  BY <1>1 DEF TypeOK, hostVars, runVars
<1> QED BY <1>2, KeepsPublisher, KeepsRuntime, KeepsHandler, KeepsRegistry
     DEF hostVars

(* A step that changes a runtime, but neither whom it talks to nor whether *)
(* it is being stopped.                                                    *)
LEMMA ChangesRuntime ==
  ASSUME IInv, NEW i \in Ids, NEW r \in Runtimes, Live(i),
         r.peer = runtimes[i].peer,
         runtimes[i].conn = "stopping" => r.conn = "stopping",
         runtimes' = [runtimes EXCEPT ![i] = r],
         view' \in Views, required' \in BOOLEAN,
         UNCHANGED <<disk, hostVars, state, starting, running, registry,
                     generation, reading, restarts>>
  PROVE  IInv'
<1> USE DEF IInv
<1>1. /\ runtimes' \in [Ids -> Runtimes] /\ RuntimeInv'
      /\ \A j \in Ids : runtimes'[j] = IF j = i THEN r ELSE runtimes[j]
  BY KeepsPeer DEF OnDisk
<1>2. TypeOK'
  BY <1>1 DEF TypeOK, hostVars
<1>3. HandlerInv'
  BY <1>1 DEF HandlerInv, hostVars
<1> QED BY <1>1, <1>2, <1>3, KeepsPublisher, KeepsRegistry DEF hostVars

(* What is not stopped is live.                                            *)
LEMMA ActiveIsLive ==
  ASSUME TypeOK, NEW i \in Ids,
         runtimes[i].conn # "stopped" \/ runtimes[i].promoting
  PROVE  Live(i)
BY DEF Live, Gone

(* The steps that do just that.                                            *)
LEMMA ApprovesStep ==
  ASSUME IInv, NEW i \in Ids, Approves(i) PROVE IInv'
<1> DEFINE r == [runtimes[i] EXCEPT !.promoting = TRUE]
<1>1. /\ r \in Runtimes /\ r.peer = runtimes[i].peer
      /\ r.conn = runtimes[i].conn /\ Live(i)
      /\ runtimes' = [runtimes EXCEPT ![i] = r]
  BY ActiveIsLive DEF Approves, Set, IInv, TypeOK, Runtimes
<1> QED BY <1>1, ChangesRuntime DEF Approves, IInv, TypeOK, viewVars,
     registryVars

LEMMA NotPromotedStep ==
  ASSUME IInv, NEW i \in Ids, NotPromoted(i) PROVE IInv'
<1> DEFINE r == [runtimes[i] EXCEPT !.promoting = FALSE]
<1>1. /\ r \in Runtimes /\ r.peer = runtimes[i].peer
      /\ r.conn = runtimes[i].conn /\ Live(i)
      /\ runtimes' = [runtimes EXCEPT ![i] = r]
  BY ActiveIsLive DEF NotPromoted, Set, IInv, TypeOK, Runtimes
<1> QED BY <1>1, ChangesRuntime DEF NotPromoted, IInv, TypeOK, viewVars,
     registryVars

LEMMA ConnectsStep ==
  ASSUME IInv, NEW i \in Ids, Connects(i) PROVE IInv'
<1> DEFINE r == [runtimes[i] EXCEPT !.conn = "connected"]
<1>1. /\ r \in Runtimes /\ r.peer = runtimes[i].peer
      /\ runtimes[i].conn # "stopping" /\ Live(i)
      /\ runtimes' = [runtimes EXCEPT ![i] = r]
  BY ActiveIsLive DEF Connects, Set, IInv, TypeOK, Runtimes
<1> QED BY <1>1, ChangesRuntime DEF Connects, IInv, TypeOK, viewVars,
     registryVars

LEMMA DropsStep ==
  ASSUME IInv, NEW i \in Ids, Drops(i) PROVE IInv'
<1> DEFINE r == [runtimes[i] EXCEPT !.conn = "reconnecting"]
<1>1. /\ r \in Runtimes /\ r.peer = runtimes[i].peer
      /\ runtimes[i].conn # "stopping" /\ Live(i)
      /\ runtimes' = [runtimes EXCEPT ![i] = r]
  BY ActiveIsLive DEF Drops, Set, IInv, TypeOK, Runtimes
<1> QED BY <1>1, ChangesRuntime DEF Drops, IInv, TypeOK, viewVars,
     registryVars

LEMMA ReopensStep ==
  ASSUME IInv, NEW i \in Ids, Reopens(i) PROVE IInv'
<1> DEFINE r == [runtimes[i] EXCEPT !.conn = "reconnecting"]
<1>1. /\ r \in Runtimes /\ r.peer = runtimes[i].peer
      /\ runtimes[i].conn # "stopping" /\ Live(i)
      /\ runtimes' = [runtimes EXCEPT ![i] = r]
  BY ActiveIsLive DEF Reopens, Set, IInv, TypeOK, Runtimes
<1> QED BY <1>1, ChangesRuntime DEF Reopens, IInv, TypeOK, viewVars,
     registryVars

LEMMA PairingEndsStep ==
  ASSUME IInv, NEW i \in Ids, PairingEnds(i) PROVE IInv'
<1> DEFINE r == [runtimes[i] EXCEPT !.conn = "over", !.told = TRUE]
<1>1. /\ r \in Runtimes /\ r.peer = runtimes[i].peer
      /\ runtimes[i].conn # "stopping" /\ Live(i)
      /\ runtimes' = [runtimes EXCEPT ![i] = r]
  BY ActiveIsLive DEF PairingEnds, IInv, TypeOK, Runtimes
<1>2. view' \in Views /\ required' \in BOOLEAN
  BY PublishTypes DEF PairingEnds, PublishStatus, IInv, TypeOK, Views
<1> QED BY <1>1, <1>2, ChangesRuntime DEF PairingEnds

(* The promotion renames the file of the one publisher there is.           *)
LEMMA PromotedStep ==
  ASSUME IInv, NEW i \in Ids, Promoted(i) PROVE IInv'
<1> USE DEF Promoted, IInv
<1> DEFINE r == [runtimes[i] EXCEPT !.promoting = FALSE, !.pending = FALSE]
<1>1. /\ r \in Runtimes /\ r.peer = runtimes[i].peer
      /\ r.conn = runtimes[i].conn /\ Live(i)
      /\ runtimes' = [runtimes EXCEPT ![i] = r]
  BY ActiveIsLive DEF TypeOK, Runtimes
<1> HIDE DEF r
<1>2. /\ disk'.active = disk.pending /\ disk'.pending = None
      /\ disk.active = None
      /\ disk' \in [active : Keys, pending : Keys]
  BY DEF OnePublisher, TypeOK, Keys
<1>3. OnDisk' = OnDisk
  BY <1>2 DEF OnDisk
<1>4. /\ runtimes' \in [Ids -> Runtimes] /\ RuntimeInv'
      /\ \A j \in Ids : runtimes'[j] = IF j = i THEN r ELSE runtimes[j]
  BY <1>1, <1>3, KeepsPeer
<1>5. view' \in Views
  BY DEF TypeOK, Views
<1>6. TypeOK'
  BY <1>2, <1>4, <1>5 DEF TypeOK, hostVars, registryVars
<1>7. OnePublisher'
  BY <1>2 DEF OnePublisher
<1>8. HandlerInv'
  BY <1>1, <1>2, <1>4 DEF HandlerInv, hostVars
<1>9. RegistryInv'
  BY <1>3 DEF RegistryInv, Replacing, hostVars, registryVars
<1> QED BY <1>4, <1>6, <1>7, <1>8, <1>9

-----------------------------------------------------------------------------
(* The registry.                                                           *)

(* A read begins only for a connection that is in use, while no request is *)
(* replacing the publisher.                                                *)
LEMMA ReadIsOfOnDisk ==
  ASSUME IInv, Settled, Link = "connected"
  PROVE  ~Replacing /\ runtimes[running].peer \in OnDisk
<1> USE DEF IInv
<1>1. running # None
  BY DEF Link, TypeOK, Views
<1>2. running \in Ids /\ runtimes[running].conn = "connected"
  BY <1>1 DEF Link, Status, TypeOK
<1>3. Live(running)
  BY <1>2, ActiveIsLive
<1>4. starting = None /\ runtimes[running].peer \in OnDisk
  BY <1>1, <1>2, <1>3 DEF RuntimeInv
<1>5. handler.at \notin Places
  BY <1>1, <1>2, <1>4 DEF HandlerInv, Places, Settled
<1> QED BY <1>4, <1>5 DEF Replacing, TypeOK, Handlers

(* The status timer.                                                       *)
LEMMA TickStep == ASSUME IInv, Settled, Tick PROVE IInv'
<1> USE DEF Tick, IInv
<1> DEFINE must == required \/ Link # "connected"
<1>1. /\ required' \in BOOLEAN
      /\ reading' = IF MayRead(must)
                    THEN [gen |-> generation, from |-> runtimes[running].peer]
                    ELSE reading
  BY PublishTypes
<1> HIDE DEF must
<1>2. CASE MayRead(must)
  <2>1. ~Replacing /\ runtimes[running].peer \in OnDisk
    BY <1>2, ReadIsOfOnDisk DEF MayRead
  <2>2. runtimes[running].peer \in Publishers
    BY <2>1 DEF OnDisk, TypeOK, Keys
  <2>3. TypeOK'
    BY <1>1, <1>2, <2>2 DEF TypeOK, hostVars, viewVars, runVars
  <2>4. RegistryInv'
    BY <1>1, <1>2, <2>1 DEF RegistryInv, Replacing, OnDisk, TypeOK, hostVars
  <2> QED BY <2>3, <2>4, KeepsPublisher, KeepsRuntime, KeepsHandler
       DEF hostVars
<1>3. CASE ~MayRead(must)
  <2>1. reading' = reading
    BY <1>1, <1>3
  <2>2. TypeOK'
    BY <1>1, <2>1 DEF TypeOK, hostVars, viewVars, runVars
  <2> QED
    BY <2>1, <2>2, KeepsPublisher, KeepsRuntime, KeepsHandler, KeepsRegistry
       DEF hostVars
<1> QED BY <1>2, <1>3

(* A read ends.                                                            *)
LEMMA RegistryAnswersStep == ASSUME IInv, RegistryAnswers PROVE IInv'
<1> USE DEF RegistryAnswers, IInv, AnswerCounts
<1>1. required' \in BOOLEAN
  BY PublishTypes DEF TypeOK
<1>2. reading \in [gen : Nat, from : Publishers]
  BY DEF TypeOK
<1>3. registry' \in Keys
  BY <1>2 DEF TypeOK, Keys
<1>4. TypeOK'
  BY <1>1, <1>3 DEF TypeOK, hostVars, viewVars, runVars
<1>5. RegistryInv'
  BY DEF RegistryInv, Replacing, OnDisk, hostVars
<1> QED BY <1>4, <1>5, KeepsPublisher, KeepsRuntime, KeepsHandler
     DEF hostVars

LEMMA RegistryFailsStep == ASSUME IInv, RegistryFails PROVE IInv'
<1> USE DEF RegistryFails, IInv
<1>1. TypeOK'
  BY DEF TypeOK, hostVars, viewVars, runVars
<1>2. RegistryInv'
  BY DEF RegistryInv, Replacing, OnDisk, hostVars
<1> QED BY <1>1, <1>2, KeepsPublisher, KeepsRuntime, KeepsHandler
     DEF hostVars

(* A new process begins with the files alone.                              *)
LEMMA RestartStep == ASSUME IInv, Restart PROVE IInv'
<1> USE DEF Restart, IInv
<1>1. TypeOK'
  BY WorkletAssumption DEF TypeOK, Handlers, Views, Starts, Runtimes, Idle,
     Keys, FoundView, FoundTask, Connecting, Gone, OnDisk
<1>2. RuntimeInv'
  BY DEF RuntimeInv, Live, FoundTask, Connecting
<1>3. HandlerInv'
  BY WorkletAssumption
     DEF HandlerInv, Idle, Places, FoundTask, Connecting
<1>4. RegistryInv'
  BY DEF RegistryInv
<1> QED BY <1>1, <1>2, <1>3, <1>4, KeepsPublisher

-----------------------------------------------------------------------------
(* Every step preserves it.                                                *)
LEMMA WorkletNextSafe == IInv /\ [Next]_vars => IInv'
<1> SUFFICES ASSUME IInv, [Next]_vars PROVE IInv'
  OBVIOUS
<1>1. CASE UNCHANGED vars
  <2>1. TypeOK'
    BY <1>1 DEF IInv, TypeOK, vars, hostVars, viewVars, runVars, registryVars
  <2> QED
    BY <1>1, <2>1, KeepsPublisher, KeepsRuntime, KeepsHandler, KeepsRegistry
       DEF IInv, vars, hostVars, runVars, registryVars
<1>2. CASE Handles
  BY <1>2, AnswersStatusStep, ConfigureBeginsStep, PairBeginsStep,
     StopBeginsStep, StopsRuntimeStep, RuntimeStoppedStep,
     RuntimeStopFailsStep, StopEndsStep, PublisherRemovedStep,
     PublisherWrittenStep, PublisherNotWrittenStep, PairStartsStep,
     LoadsStep, ListensStep, StartFailsStep DEF Handles
<1>3. CASE Promotes
  BY <1>3, PromotedStep, NotPromotedStep DEF Promotes
<1>4. CASE Settled /\ Events
  BY <1>4, TickStep, RegistryAnswersStep, RegistryFailsStep, HostAsksStep,
     RestartStep, RequestIsPendingStep, ApprovesStep, ConnectsStep, DropsStep,
     PairingEndsStep, ReopensStep DEF Events
<1> QED BY <1>1, <1>2, <1>3, <1>4 DEF Next

(* Every reachable state of the worklet satisfies IInv.                    *)
THEOREM WorkletSafe == Spec => []IInv
<1>1. Init => IInv
  BY WorkletInitSafe
<1>2. IInv /\ [Next]_vars => IInv'
  BY WorkletNextSafe
<1> QED BY <1>1, <1>2, PTL DEF Spec

(* Requests, the start of the process, late approvals and kills never      *)
(* leave two contacts, two runtimes or a runtime of another publisher.     *)
THEOREM WorkletRunsWhatIsOnDisk == Spec => []RunsWhatIsOnDisk
<1>1. IInv => RunsWhatIsOnDisk
  BY DEF IInv, OnePublisher, RuntimeInv, Live, RunsWhatIsOnDisk
<1> QED BY <1>1, WorkletSafe, PTL

(* The services shown are never those of a publisher that was replaced.    *)
THEOREM WorkletRegistryIsThePublishers == Spec => []RegistryIsThePublishers
<1>1. IInv => RegistryIsThePublishers
  BY DEF IInv, RegistryInv, RegistryIsThePublishers
<1> QED BY <1>1, WorkletSafe, PTL
=============================================================================
