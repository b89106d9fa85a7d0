---------------------------- MODULE ServiceProofs -----------------------------
(***************************************************************************)
(* Theorems about the parts of the service around the pipeline: the        *)
(* daemon's socket, what the hub has of a machine, the cache of the usage  *)
(* view and the spend read off balances.  They hold for any number of      *)
(* daemons, clients and machines, of restarts and timeouts, of events,     *)
(* windows, readers and entries of the cache, of readings and of what      *)
(* accounts spend and are paid.                                            *)
(***************************************************************************)
EXTENDS DaemonSocket, HubExporter, UsageView, BalanceSpend, FiniteSetTheorems,
        SequenceTheorems, WellFoundedInduction, TLAPS

-------------------------------------------------------------------------------
(* What the argument needs of a state: whoever serves has an open listener,  *)
(* and until an unlink hits one the path names every open listener - so      *)
(* there is one at most.                                                     *)
ProcStates == {"unborn", "serving", "dead"} \cup Starting \cup Stopping

SocketInv ==
  /\ proc \in [Daemons -> ProcStates]
  /\ listening \subseteq Daemons
  /\ Serving \subseteq listening
  /\ unlinked \/ \A d \in listening : path = d

LEMMA SocketStarts == SocketInit => SocketInv
BY DEF SocketInit, SocketInv, ProcStates, Serving

(* A process that goes anywhere but to "serving" keeps the states of all     *)
(* processes well-typed, and only those that served before serve.            *)
LEMMA Moves ==
  ASSUME SocketInv, NEW d \in Daemons, NEW where \in ProcStates, To(d, where)
  PROVE  /\ proc' \in [Daemons -> ProcStates]
         /\ Serving' \subseteq Serving \cup {d}
         /\ where # "serving" => Serving' = Serving \ {d}
BY DEF SocketInv, To, Serving

(* An unlink that hits no listener found none open.                          *)
LEMMA Unlinks ==
  ASSUME SocketInv, UnlinkPath
  PROVE  unlinked' \/ listening = {}
BY DEF SocketInv, UnlinkPath

-------------------------------------------------------------------------------
LEMMA ProcessKeeps ==
  ASSUME SocketInv, NoFile \notin Daemons, NEW d \in Daemons,
         DaemonStep(d) \/ Signal(d) \/ Die(d)
  PROVE  SocketInv'
<1>1. CASE EnsureSocketPathAvailable(d)
  <2>1. PICK where \in ProcStates : To(d, where) /\ where # "serving"
    BY <1>1 DEF EnsureSocketPathAvailable, ProcStates, Starting
  <2>2. proc' \in [Daemons -> ProcStates] /\ Serving' \subseteq Serving
    BY <2>1, Moves
  <2>3. QED
    BY <1>1, <2>2 DEF EnsureSocketPathAvailable, SocketInv
<1>2. CASE Dial(d)
  <2>1. PICK where \in ProcStates : To(d, where) /\ where # "serving"
    BY <1>2 DEF Dial, ProcStates, Starting
  <2>2. proc' \in [Daemons -> ProcStates] /\ Serving' \subseteq Serving
    BY <2>1, Moves
  <2>3. QED
    BY <1>2, <2>2 DEF Dial, SocketInv
<1>3. CASE RemoveStale(d)
  <2>1. PICK where \in ProcStates : To(d, where) /\ where # "serving"
    BY <1>3 DEF RemoveStale, ProcStates, Starting
  <2>2. proc' \in [Daemons -> ProcStates] /\ Serving' \subseteq Serving
    BY <2>1, Moves
  <2>3. CASE path = NoFile
    BY <1>3, <2>2, <2>3 DEF RemoveStale, SocketInv
  <2>4. CASE path # NoFile
    <3>1. unlinked' \/ listening = {}
      BY <1>3, <2>4, Unlinks DEF RemoveStale
    <3>2. QED
      BY <1>3, <2>2, <3>1 DEF RemoveStale, SocketInv
  <2>5. QED
    BY <2>3, <2>4
<1>4. CASE Listen(d)
  <2>1. CASE path = NoFile
    <3>1. To(d, "serving") /\ path' = d /\ listening' = listening \cup {d} /\ unlinked' = unlinked
      BY <1>4, <2>1 DEF Listen
    <3>2. unlinked \/ listening = {}
      BY <2>1 DEF SocketInv
    <3>3. proc' \in [Daemons -> ProcStates] /\ Serving' \subseteq Serving \cup {d}
      BY <3>1, Moves DEF ProcStates
    <3>4. QED
      BY <3>1, <3>2, <3>3 DEF SocketInv
  <2>2. CASE path # NoFile
    <3>1. proc' \in [Daemons -> ProcStates] /\ Serving' \subseteq Serving
      BY <1>4, <2>2, Moves DEF Listen, ProcStates
    <3>2. QED
      BY <1>4, <2>2, <3>1 DEF Listen, SocketInv
  <2>3. QED
    BY <2>1, <2>2
<1>5. CASE CloseListener(d)
  <2>1. proc' \in [Daemons -> ProcStates] /\ Serving' = Serving \ {d}
    BY <1>5, Moves DEF CloseListener, ProcStates, Stopping
  <2>2. unlinked' \/ listening = {}
    BY <1>5, Unlinks DEF CloseListener
  <2>3. QED
    BY <1>5, <2>1, <2>2 DEF CloseListener, SocketInv
<1>6. CASE RemovePath(d)
  <2>1. proc' \in [Daemons -> ProcStates] /\ Serving' = Serving \ {d}
    BY <1>6, Moves DEF RemovePath, ProcStates
  <2>2. unlinked' \/ listening = {}
    BY <1>6, Unlinks DEF RemovePath
  <2>3. QED
    BY <1>6, <2>1, <2>2 DEF RemovePath, SocketInv
<1>7. CASE Signal(d)
  <2>1. proc' \in [Daemons -> ProcStates] /\ Serving' = Serving \ {d}
    BY <1>7, Moves DEF Signal, ProcStates, Stopping
  <2>2. QED
    BY <1>7, <2>1 DEF Signal, SocketInv
<1>8. CASE Die(d)
  <2>1. proc' \in [Daemons -> ProcStates] /\ Serving' = Serving \ {d}
    BY <1>8, Moves DEF Die, ProcStates
  <2>2. QED
    BY <1>8, <2>1 DEF Die, SocketInv
<1>9. QED
  BY <1>1, <1>2, <1>3, <1>4, <1>5, <1>6, <1>7, <1>8 DEF DaemonStep

(* Whoever starts a process starts it at its first test of the path, and     *)
(* whoever signals one takes it out of service.                              *)
LEMMA OthersKeep ==
  ASSUME SocketInv, UNCHANGED <<path, listening, unlinked>>,
         \/ UNCHANGED proc
         \/ SignalManaged
         \/ \E d \in Daemons : Spawn(d)
  PROVE  SocketInv'
<1>1. CASE UNCHANGED proc
  BY <1>1 DEF SocketInv, Serving
<1>2. CASE SignalManaged
  BY <1>2 DEF SocketInv, SignalManaged, Serving, ProcStates, Stopping
<1>3. ASSUME NEW d \in Daemons, Spawn(d) PROVE SocketInv'
  <2>1. proc' \in [Daemons -> ProcStates] /\ Serving' = Serving \ {d}
    BY <1>3, Moves DEF Spawn, ProcStates, Starting
  <2>2. QED
    BY <2>1 DEF SocketInv
<1>4. QED
  BY <1>1, <1>2, <1>3

LEMMA SocketSteps ==
  ASSUME SocketInv, NoFile \notin Daemons, [SocketNext]_socketVars
  PROVE  SocketInv'
<1>1. CASE UNCHANGED socketVars
  BY <1>1, OthersKeep DEF socketVars, daemonVars
<1>2. ASSUME NEW d \in Daemons, DaemonStep(d) \/ Signal(d) \/ Die(d) PROVE SocketInv'
  BY <1>2, ProcessKeeps
<1>3. ASSUME NEW d \in Daemons, ManagerStarts(d) PROVE SocketInv'
  BY <1>3, OthersKeep DEF ManagerStarts
<1>4. CASE Install \/ Uninstall
  BY <1>4, OthersKeep DEF Install, Uninstall
<1>5. CASE Upgrade
  BY <1>5, OthersKeep DEF Upgrade, daemonVars
<1>6. ASSUME NEW c \in Clients, EnsureRunning(c) \/ Again(c) PROVE SocketInv'
  <2>1. CASE SpawnHelper(c)
    BY <2>1, OthersKeep DEF SpawnHelper
  <2>2. CASE ProbeDaemon(c) \/ StartService(c) \/ WaitForHealth(c) \/ WaitAndVerifyDaemon(c) \/ Again(c)
    BY <2>2, OthersKeep
       DEF ProbeDaemon, StartService, WaitForHealth, WaitAndVerifyDaemon, Again, daemonVars
  <2>3. QED
    BY <1>6, <2>1, <2>2 DEF EnsureRunning
<1>7. QED
  BY <1>1, <1>2, <1>3, <1>4, <1>5, <1>6 DEF SocketNext

-------------------------------------------------------------------------------
(* Any number of daemon processes may start, stop and die in any order, be   *)
(* started by the service manager or by clients: at most one of them serves, *)
(* unless RemoveStale or the end of a shutdown has unlinked the socket of a  *)
(* live daemon (server.go, EnsureSocketPathAvailable, startSocketServer).    *)
(* All that is assumed is that a missing file is no daemon.                  *)
THEOREM OneDaemonServes ==
  ASSUME NoFile \notin Daemons
  PROVE  SocketSpec => []OneDaemonUnlessUnlinked
<1>1. SocketInv => OneDaemonUnlessUnlinked
  BY DEF SocketInv, OneDaemonUnlessUnlinked
<1>2. SocketInv /\ [SocketNext]_socketVars => SocketInv'
  BY SocketSteps
<1>3. QED
  BY <1>1, <1>2, SocketStarts, PTL DEF SocketSpec

-------------------------------------------------------------------------------
Push  == [from : Machines, v : Nat, waiting : BOOLEAN]
HubEntry == [v : Nat, age : Nat]

HubTypes ==
  /\ version \in [Machines -> Nat]
  /\ latest \in [Machines -> Nat]
  /\ busy \in [Machines -> BOOLEAN]
  /\ pushes \subseteq Push
  /\ machines \in [Machines -> HubEntry]

(* No machine, push or entry is ahead of the machine's version.              *)
NobodyAhead ==
  /\ \A m \in Machines : latest[m] \in {Nothing, version[m]} /\ machines[m].v <= version[m]
  /\ \A p \in pushes : p.v <= version[p.from]

(* A push that its sender waits for is the machine's newest, on its way or   *)
(* in the hub, and its only one: the sender is busy, and was when the others *)
(* were given up.                                                            *)
WaitedForIsNewest(p) ==
  /\ busy[p.from]
  /\ machines[p.from].v <= p.v
  /\ \A q \in pushes : q.from = p.from => q.v <= p.v /\ (q.waiting => q = p)

HubInv ==
  /\ HubTypes
  /\ NobodyAhead
  /\ \A p \in pushes : p.waiting => WaitedForIsNewest(p)

LEMMA HubStarts == HubInit => HubInv
BY DEF HubInit, HubInv, HubTypes, NobodyAhead, Nothing, NoEntry, HubEntry

-------------------------------------------------------------------------------
LEMMA IngestKeeps ==
  ASSUME HubInv, NEW m \in Machines, Ingest(m)
  PROVE  HubInv'
<1>1. HubTypes'
  BY DEF Ingest, HubInv, HubTypes, Nothing
<1>2. NobodyAhead'
  <2>1. \A n \in Machines : version[n] <= version'[n] /\ (n # m => version'[n] = version[n] /\ latest'[n] = latest[n])
    BY DEF Ingest, HubInv, HubTypes
  <2>2. latest'[m] \in {Nothing, version'[m]}
    BY DEF Ingest, HubInv, HubTypes
  <2>3. \A n \in Machines : machines[n].v \in Nat /\ version[n] \in Nat /\ version'[n] \in Nat
    BY <1>1 DEF HubInv, HubTypes, HubEntry
  <2>4. \A p \in pushes : p.v \in Nat /\ p.from \in Machines
    BY DEF HubInv, HubTypes, Push
  <2>5. UNCHANGED <<pushes, machines>>
    BY DEF Ingest
  <2>6. QED
    BY <2>1, <2>2, <2>3, <2>4, <2>5 DEF HubInv, NobodyAhead
<1>3. UNCHANGED <<busy, pushes, machines>>
  BY DEF Ingest
<1>4. QED
  BY <1>1, <1>2, <1>3 DEF HubInv, WaitedForIsNewest

(* The new push has the machine's version, and none is ahead of that.        *)
LEMMA TickKeeps ==
  ASSUME HubInv, NEW m \in Machines, tick(m)
  PROVE  HubInv'
<1> DEFINE new == [from |-> m, v |-> latest[m], waiting |-> TRUE]
<1>1. new \in Push /\ new.from = m /\ new.v = version[m] /\ new.waiting
  BY DEF tick, HubInv, HubTypes, NobodyAhead, Push
<1> HIDE DEF new
<1>2. pushes' = pushes \cup {new} /\ busy' = [busy EXCEPT ![m] = TRUE] /\ ~ busy[m]
      /\ UNCHANGED <<version, latest, machines>>
  BY DEF tick, new
<1>3. HubTypes'
  BY <1>1, <1>2 DEF HubInv, HubTypes
<1>4. NobodyAhead'
  <2>1. new.v <= version[new.from]
    BY <1>1 DEF HubInv, HubTypes
  <2>2. QED
    BY <1>2, <2>1 DEF HubInv, NobodyAhead
<1>5. ASSUME NEW p \in pushes', p.waiting PROVE WaitedForIsNewest(p)'
  <2>1. CASE p = new
    <3>1. busy'[m] /\ machines'[m].v <= version[m]
      BY <1>2 DEF HubInv, HubTypes, NobodyAhead
    <3>2. \A q \in pushes : q.from = m => q.v <= version[m] /\ ~ q.waiting
      BY <1>2 DEF HubInv, NobodyAhead, WaitedForIsNewest
    <3>3. version[m] <= version[m]
      BY DEF HubInv, HubTypes
    <3>4. QED
      BY <1>1, <1>2, <2>1, <3>1, <3>2, <3>3 DEF WaitedForIsNewest
  <2>2. CASE p # new
    <3>1. p \in pushes /\ p.from # m
      BY <1>2, <1>5, <2>2 DEF HubInv, WaitedForIsNewest
    <3>2. p.from \in Machines
      BY <3>1 DEF HubInv, HubTypes, Push
    <3>3. busy'[p.from] = busy[p.from]
      BY <1>2, <3>1, <3>2 DEF HubInv, HubTypes
    <3>4. QED
      BY <1>1, <1>2, <1>5, <3>1, <3>3 DEF HubInv, WaitedForIsNewest
  <2>3. QED
    BY <2>1, <2>2
<1>6. QED
  BY <1>3, <1>4, <1>5 DEF HubInv

(* Pushes that disappear, or that nobody waits for any more, and senders     *)
(* that are no longer busy with them, disturb nobody else.                   *)
LEMMA FewerPushesKeep ==
  ASSUME HubInv, UNCHANGED <<version, latest>>, busy' \in [Machines -> BOOLEAN],
         machines' \in [Machines -> HubEntry],
         \A m \in Machines : machines'[m].v <= version[m],
         \A p \in pushes' : /\ p \in Push
                            /\ \E q \in pushes : /\ p.from = q.from /\ p.v = q.v
                                                 /\ p.waiting => p = q,
         \A p \in pushes' : p.waiting => busy'[p.from] /\ machines'[p.from].v <= p.v
  PROVE  HubInv'
<1>1. HubTypes'
  BY DEF HubInv, HubTypes
<1>2. NobodyAhead'
  BY DEF HubInv, NobodyAhead
<1>3. ASSUME NEW p \in pushes', p.waiting PROVE WaitedForIsNewest(p)'
  <2>1. p \in pushes /\ WaitedForIsNewest(p)
    BY <1>3 DEF HubInv
  <2>2. ASSUME NEW q \in pushes', q.from = p.from PROVE q.v <= p.v /\ (q.waiting => q = p)
    BY <2>1, <2>2 DEF WaitedForIsNewest
  <2>3. QED
    BY <1>3, <2>2 DEF WaitedForIsNewest
<1>4. QED
  BY <1>1, <1>2, <1>3 DEF HubInv

LEMMA SamePush == \A p \in pushes : HubInv => p \in Push /\ p.from \in Machines /\ p.v \in Nat
BY DEF HubInv, HubTypes, Push

LEMMA TimeoutKeeps ==
  ASSUME HubInv, NEW p \in pushes, PushTimesOut(p)
  PROVE  HubInv'
<1> DEFINE late == [p EXCEPT !.waiting = FALSE]
<1>1. late \in Push /\ late.from = p.from /\ late.v = p.v /\ ~ late.waiting
  BY SamePush DEF Push
<1> HIDE DEF late
<1>2. /\ pushes' \subseteq (pushes \ {p}) \cup {late} /\ busy' = [busy EXCEPT ![p.from] = FALSE]
      /\ p.waiting /\ UNCHANGED <<version, latest, machines>>
  BY DEF PushTimesOut, late
<1>3. ASSUME NEW q \in pushes', q.waiting PROVE q \in pushes /\ q.from # p.from
  BY <1>1, <1>2, <1>3 DEF HubInv, WaitedForIsNewest
<1>4. \A q \in pushes' : q.waiting => busy'[q.from] /\ machines'[q.from].v <= q.v
  BY <1>2, <1>3, SamePush DEF HubInv, HubTypes, WaitedForIsNewest
<1>5. \A q \in pushes' : q \in Push /\ \E r \in pushes : q.from = r.from /\ q.v = r.v /\ (q.waiting => q = r)
  BY <1>1, <1>2, SamePush
<1>6. busy' \in [Machines -> BOOLEAN] /\ machines' \in [Machines -> HubEntry]
      /\ \A m \in Machines : machines'[m].v <= version[m]
  BY <1>2 DEF HubInv, HubTypes, NobodyAhead
<1>7. QED
  BY <1>2, <1>4, <1>5, <1>6, FewerPushesKeep

LEMMA StopKeeps ==
  ASSUME HubInv, NEW m \in Machines, MachineStops(m)
  PROVE  HubInv'
<1> DEFINE left(p) == [p EXCEPT !.waiting = @ /\ p.from # m]
<1>1. \A p \in pushes : /\ left(p) \in Push /\ left(p).from = p.from /\ left(p).v = p.v
                        /\ left(p).waiting => p.waiting /\ p.from # m /\ left(p) = p
  BY SamePush DEF Push
<1> HIDE DEF left
<1>2. /\ pushes' = {left(p) : p \in pushes} /\ busy' = [busy EXCEPT ![m] = FALSE]
      /\ UNCHANGED <<version, latest, machines>>
  BY DEF MachineStops, left
<1>3. \A q \in pushes' : q.waiting => q \in pushes /\ q.from # m
  BY <1>1, <1>2
<1>4. \A q \in pushes' : q.waiting => busy'[q.from] /\ machines'[q.from].v <= q.v
  BY <1>2, <1>3, SamePush DEF HubInv, HubTypes, WaitedForIsNewest
<1>5. \A q \in pushes' : q \in Push /\ \E r \in pushes : q.from = r.from /\ q.v = r.v /\ (q.waiting => q = r)
  BY <1>1, <1>2
<1>6. busy' \in [Machines -> BOOLEAN] /\ machines' \in [Machines -> HubEntry]
      /\ \A n \in Machines : machines'[n].v <= version[n]
  BY <1>2 DEF HubInv, HubTypes, NobodyAhead
<1>7. QED
  BY <1>2, <1>4, <1>5, <1>6, FewerPushesKeep

(* A push that is answered is gone; the one the machine waits for is not     *)
(* older than what is stored of the others.                                  *)
LEMMA AnswerKeeps ==
  ASSUME HubInv, NEW p \in pushes, handlePush(p) \/ handlePushRefuses(p)
  PROVE  HubInv'
<1>1. /\ pushes' = pushes \ {p} /\ UNCHANGED <<version, latest>>
      /\ busy' = IF p.waiting THEN [busy EXCEPT ![p.from] = FALSE] ELSE busy
      /\ machines' = machines \/ machines' = [machines EXCEPT ![p.from] = [v |-> p.v, age |-> 0]]
  BY DEF handlePush, handlePushRefuses, Returned, Stored
<1>2. busy' \in [Machines -> BOOLEAN]
  BY <1>1 DEF HubInv, HubTypes
<1>3. [v |-> p.v, age |-> 0] \in HubEntry /\ p.v <= version[p.from]
  BY SamePush DEF HubInv, NobodyAhead, HubEntry
<1>4. machines' \in [Machines -> HubEntry]
  BY <1>1, <1>3 DEF HubInv, HubTypes
<1>5. \A m \in Machines : /\ m # p.from => machines'[m] = machines[m]
                          /\ machines'[m].v \in {machines[m].v, p.v}
                          /\ m = p.from => machines'[m].v \in {machines[m].v, p.v}
  BY <1>1 DEF HubInv, HubTypes
<1>6. \A m \in Machines : machines'[m].v <= version[m]
  BY <1>3, <1>5 DEF HubInv, NobodyAhead
<1>7. ASSUME NEW q \in pushes', q.waiting PROVE busy'[q.from] /\ machines'[q.from].v <= q.v
  <2>1. q \in pushes /\ q # p /\ q.from \in Machines /\ WaitedForIsNewest(q)
    BY <1>1, <1>7, SamePush DEF HubInv
  <2>2. busy'[q.from]
    <3>1. p.waiting => p.from # q.from
      BY <2>1 DEF WaitedForIsNewest
    <3>2. QED
      BY <1>1, <2>1, <3>1 DEF HubInv, HubTypes, WaitedForIsNewest
  <2>3. machines'[q.from].v <= q.v
    BY <1>5, <2>1 DEF WaitedForIsNewest
  <2>4. QED
    BY <2>2, <2>3
<1>8. \A q \in pushes' : q \in Push /\ \E r \in pushes : q.from = r.from /\ q.v = r.v /\ (q.waiting => q = r)
  BY <1>1, SamePush
<1>9. QED
  BY <1>1, <1>2, <1>4, <1>6, <1>7, <1>8, FewerPushesKeep

(* Reading, restarting and the clock: an entry keeps its version or goes.    *)
LEMMA EntriesOnly ==
  ASSUME HubInv, Read \/ HubRestarts \/ TimePasses
  PROVE  /\ machines' \in [Machines -> HubEntry]
         /\ \A m \in Machines : machines'[m].v \in {machines[m].v, Nothing}
<1>1. NoEntry \in HubEntry /\ NoEntry.v = Nothing
  BY DEF NoEntry, Nothing, HubEntry
<1>2. \A e \in HubEntry : Older(e) \in HubEntry /\ Older(e).v = e.v
  BY DEF Older, HubEntry
<1>3. \A m \in Machines : machines[m] \in HubEntry
  BY DEF HubInv, HubTypes
<1>4. CASE Read
  BY <1>1, <1>3, <1>4 DEF Read, Pruned
<1>5. CASE HubRestarts
  BY <1>1, <1>5 DEF HubRestarts
<1>6. CASE TimePasses
  BY <1>1, <1>2, <1>3, <1>6 DEF TimePasses
<1>7. QED
  BY <1>4, <1>5, <1>6

LEMMA HubKeeps ==
  ASSUME HubInv, Read \/ HubRestarts \/ TimePasses
  PROVE  HubInv'
<1>1. UNCHANGED <<version, latest>> /\ (UNCHANGED <<busy, pushes>> \/ (busy' = [m \in Machines |-> FALSE] /\ pushes' = {}))
  BY DEF Read, HubRestarts, TimePasses, exportVars
<1>2. \A m \in Machines : machines[m].v \in Nat /\ version[m] \in Nat /\ machines[m].v <= version[m]
  BY DEF HubInv, HubTypes, NobodyAhead, HubEntry
<1>3. \A m \in Machines : machines'[m].v <= version[m] /\ machines'[m].v <= machines[m].v
  BY <1>2, EntriesOnly DEF Nothing
<1>4. \A p \in pushes' : p \in pushes /\ (p.waiting => busy'[p.from] /\ machines'[p.from].v <= p.v)
  <2>1. ASSUME NEW p \in pushes', p.waiting PROVE busy'[p.from] /\ machines'[p.from].v <= p.v
    <3>1. p \in pushes /\ busy' = busy /\ p.from \in Machines /\ p.v \in Nat
      BY <1>1, <2>1, SamePush
    <3>2. busy[p.from] /\ machines[p.from].v <= p.v
      BY <2>1, <3>1 DEF HubInv, WaitedForIsNewest
    <3>3. machines'[p.from].v \in Nat
      BY <3>1, EntriesOnly DEF HubEntry
    <3>4. QED
      BY <1>2, <1>3, <3>1, <3>2, <3>3
  <2>2. QED
    BY <1>1, <2>1
<1>5. busy' \in [Machines -> BOOLEAN]
  BY <1>1 DEF HubInv, HubTypes
<1>6. \A q \in pushes' : q \in Push /\ \E r \in pushes : q.from = r.from /\ q.v = r.v /\ (q.waiting => q = r)
  BY <1>4, SamePush
<1>7. QED
  BY <1>1, <1>3, <1>4, <1>5, <1>6, EntriesOnly, FewerPushesKeep

LEMMA HubSteps == HubInv /\ [HubNext]_hubVars => HubInv'
<1> SUFFICES ASSUME HubInv, [HubNext]_hubVars PROVE HubInv'
  OBVIOUS
<1>1. CASE UNCHANGED hubVars
  BY <1>1 DEF hubVars, exportVars, HubInv, HubTypes, NobodyAhead, WaitedForIsNewest
<1>2. CASE HubNext
  BY <1>2, IngestKeeps, TickKeeps, StopKeeps, TimeoutKeeps, AnswerKeeps, HubKeeps DEF HubNext
<1>3. QED
  BY <1>1, <1>2

-------------------------------------------------------------------------------
(* The hub keeps the last push to arrive (hub/store.go, Put).  For every     *)
(* number of machines, timeouts, refusals and restarts that is an older one  *)
(* than it had only if the exporter had given that push up: a push still     *)
(* waited for is never older than what any earlier one left at the hub.      *)
THEOREM LatePushesOnly == HubSpec => OnlyLatePushesGoBack
<1> DEFINE Back(m) == machines'[m].v \in 1..(machines[m].v - 1) =>
                        \E p \in pushes : p.from = m /\ p.v = machines'[m].v /\ ~ p.waiting
<1>1. ASSUME HubInv, [HubNext]_hubVars, NEW m \in Machines PROVE Back(m)
  <2>0. machines[m].v \in Nat
    BY <1>1 DEF HubInv, HubTypes, HubEntry
  <2>1. CASE machines'[m].v \in {machines[m].v, Nothing}
    BY <2>0, <2>1 DEF Nothing
  <2>2. ASSUME NEW p \in pushes, handlePush(p) PROVE Back(m)
    <3>1. CASE p.from = m
      <4>1. machines'[m].v = p.v
        BY <1>1, <2>2, <3>1 DEF handlePush, Stored, HubInv, HubTypes
      <4>2. p.waiting => machines[m].v <= p.v
        BY <1>1, <3>1 DEF HubInv, WaitedForIsNewest
      <4>3. p.v \in Nat
        BY <1>1, SamePush
      <4>4. QED
        BY <2>0, <3>1, <4>1, <4>2, <4>3
    <3>2. CASE p.from # m
      <4>1. machines'[m] = machines[m]
        BY <1>1, <2>2, <3>2 DEF handlePush, HubInv, HubTypes
      <4>2. QED
        BY <2>1, <4>1
    <3>3. QED
      BY <3>1, <3>2
  <2>3. CASE UNCHANGED machines
    BY <2>1, <2>3
  <2>4. CASE Read \/ HubRestarts \/ TimePasses
    BY <1>1, <2>1, <2>4, EntriesOnly
  <2>5. QED
    BY <1>1, <2>2, <2>3, <2>4
       DEF HubNext, hubVars, Ingest, tick, MachineStops, PushTimesOut, handlePushRefuses
<1>2. HubInv /\ [HubNext]_hubVars => [\A m \in Machines : Back(m)]_hubVars
  BY <1>1
<1>3. QED
  BY <1>2, HubStarts, HubSteps, PTL DEF HubSpec, OnlyLatePushesGoBack

-------------------------------------------------------------------------------
(* The usage view.  A key stands for the rows behind it.                     *)
AnyKey  == {Key(SourceProviders(a.provider), s, since) :
              a \in Accounts, s \in {AnyAccount} \cup {b.scope : b \in Accounts}, since \in Windows}
AskedKey == {k \in AnyKey : \E a \in Accounts : /\ k.providers = SourceProviders(a.provider)
                                                /\ k.account \in {AnyAccount, a.scope}}
AnyRow   == [id : Nat, serial : Nat, account : EventAccounts, provider : EventProviders, day : Days]
AnyEntry == [key : AskedKey, agg : SUBSET AnyRow, max : Nat, count : Nat]
AnyRead  == [at : {"idle", "served", "missed", "loaded"}, key : AskedKey \cup {<<>>}, max : Nat,
             count : Nat, agg : SUBSET AnyRow]

Behind(R, key) == Scoped(R, key.providers, key.account)

ViewTyped ==
  /\ serial \in Nat /\ rows \in SUBSET AnyRow /\ IsFiniteSet(rows)
  /\ \A r \in rows : r.id \in 1 .. serial
  /\ cache \in SUBSET AnyEntry /\ order \in Seq(AskedKey)
  /\ reader \in [Readers -> AnyRead]
  /\ \A r \in Readers : reader[r].at # "idle" => reader[r].key \in AskedKey

Queued ==
  /\ Len(order) <= MaxEntries
  /\ \A i, j \in 1 .. Len(order) : order[i] = order[j] => i = j
  /\ \A e \in cache : Contains(order, e.key)
  /\ \A i \in 1 .. Len(order) : \E e \in cache : e.key = order[i]
  /\ \A d, e \in cache : d.key = e.key => d = e

(* S0 are the rows a fingerprint was taken of, S those there are now: rows   *)
(* that came since have a larger rowid, and as long as no newest row is      *)
(* pruned, the largest never gets smaller.                                   *)
TakenOf(S0, S, max, count) ==
  /\ IsFiniteSet(S0) /\ MaxRowID(S0) = max /\ Cardinality(S0) = count
  /\ \A r \in S : r.id <= max => r \in S0
  /\ max <= MaxRowID(S)

Probed(key, max, count) == \E S0 \in SUBSET AnyRow : TakenOf(S0, Behind(rows, key), max, count)

Trusted(key, max, count, agg) ==
  \E S0 \in SUBSET AnyRow :
    /\ TakenOf(S0, Behind(rows, key), max, count)
    /\ Behind(rows, key) = S0 => agg = Matching(rows, key)

Trust ==
  /\ \A e \in cache : Trusted(e.key, e.max, e.count, e.agg)
  /\ \A r \in Readers :
       /\ reader[r].at = "missed" => Probed(reader[r].key, reader[r].max, reader[r].count)
       /\ reader[r].at = "loaded" =>
            Trusted(reader[r].key, reader[r].max, reader[r].count, reader[r].agg)

ViewInv == ViewTyped /\ Queued /\ (newestGone \/ Trust)

-------------------------------------------------------------------------------
(* The largest of finitely many numbers.                                     *)
LEMMA MaxIsElement ==
  ASSUME NEW n \in Nat, NEW S \in SUBSET (0 .. n), S # {}
  PROVE  Max(S) \in S /\ \A x \in S : x <= Max(S)
<1> DEFINE T == {n - x : x \in S}
<1>1. T \subseteq Nat /\ T # {}
  <2>1. \A x \in S : n - x \in T /\ n - x \in Nat
    OBVIOUS
  <2>2. QED
    BY <2>1
<1> HIDE DEF T
<1>2. \E t \in T : \A u \in T : ~ (<<u, t>> \in OpToRel(<, Nat))
  BY <1>1, NatLessThanWellFounded, WFMin
<1> USE DEF T
<1>3. PICK t \in T : \A u \in T : ~ (u < t)
  BY <1>1, <1>2 DEF OpToRel
<1>4. PICK x \in S : t = n - x
  OBVIOUS
<1>5. ASSUME NEW y \in S PROVE x >= y
  <2>1. ~ (n - y < t)
    BY <1>3
  <2>2. QED
    BY <1>4, <2>1
<1>6. \E z \in S : \A y \in S : z >= y
  BY <1>5
<1>7. Max(S) \in S /\ \A y \in S : Max(S) >= y
  BY <1>6 DEF Max
<1>8. QED
  BY <1>7

LEMMA LargestRowID ==
  ASSUME NEW n \in Nat, NEW R \in SUBSET AnyRow, \A r \in R : r.id \in 1 .. n
  PROVE  /\ MaxRowID(R) \in 0 .. n
         /\ \A r \in R : r.id <= MaxRowID(R)
         /\ R # {} => \E r \in R : r.id = MaxRowID(R)
         /\ R = {} => MaxRowID(R) = 0
<1> DEFINE I == {r.id : r \in R}
<1>1. CASE R = {}
  BY <1>1 DEF MaxRowID
<1>2. CASE R # {}
  <2>1. I \in SUBSET (0 .. n) /\ I # {}
    BY <1>2
  <2>2. Max(I) \in I /\ \A x \in I : x <= Max(I)
    BY <2>1, MaxIsElement
  <2>3. MaxRowID(R) = Max(I)
    BY <1>2 DEF MaxRowID
  <2>4. QED
    BY <1>2, <2>1, <2>2, <2>3
<1>3. QED
  BY <1>1, <1>2

(* The rows behind a key, and those of them in its window.                   *)
LEMMA BehindTyped ==
  ASSUME ViewTyped, NEW key
  PROVE  /\ Behind(rows, key) \in SUBSET AnyRow /\ IsFiniteSet(Behind(rows, key))
         /\ Behind(rows, key) \subseteq rows /\ Matching(rows, key) \in SUBSET AnyRow
         /\ \A r \in Behind(rows, key) : r.id \in 1 .. serial
BY FS_Subset DEF ViewTyped, Behind, Scoped, Matching

LEMMA SameBehind ==
  ASSUME NEW R, NEW Q, NEW key, Behind(R, key) = Behind(Q, key)
  PROVE  Matching(R, key) = Matching(Q, key)
BY DEF Behind, Matching

(* What a prune or an insert that is harmless does with a fingerprint.       *)
LEMMA FewerRows ==
  ASSUME NEW n \in Nat, NEW S \in SUBSET AnyRow, NEW T \in SUBSET S,
         \A r \in S : r.id \in 1 .. n, MaxRowID(T) = MaxRowID(S),
         NEW S0, NEW max \in Nat, NEW count, TakenOf(S0, S, max, count)
  PROVE  TakenOf(S0, T, max, count) /\ (T = S0 => S = S0)
<1>1. TakenOf(S0, T, max, count)
  BY DEF TakenOf
<1>2. ASSUME T = S0 PROVE S = S0
  <2>1. MaxRowID(S) = max
    BY <1>2 DEF TakenOf
  <2>2. \A r \in S : r.id <= max
    BY <2>1, LargestRowID
  <2>3. QED
    BY <1>2, <2>2 DEF TakenOf
<1>3. QED
  BY <1>1, <1>2

LEMMA OneRowMore ==
  ASSUME NEW n \in Nat, NEW S \in SUBSET AnyRow, \A r \in S : r.id \in 1 .. n,
         NEW new \in AnyRow, new.id \in 1 .. n + 1, MaxRowID(S) < new.id,
         NEW S0 \in SUBSET AnyRow, NEW max \in Nat, NEW count, TakenOf(S0, S, max, count)
  PROVE  TakenOf(S0, S \cup {new}, max, count) /\ S \cup {new} # S0
<1> DEFINE T == S \cup {new}
<1>1. T \in SUBSET AnyRow /\ \A r \in T : r.id \in 1 .. n + 1
  OBVIOUS
<1>2. MaxRowID(T) \in Nat /\ new.id <= MaxRowID(T)
  BY <1>1, LargestRowID
<1>3. MaxRowID(S) \in Nat /\ max < new.id
  BY LargestRowID DEF TakenOf
<1>4. TakenOf(S0, T, max, count)
  BY <1>2, <1>3 DEF TakenOf
<1>5. T # S0
  BY <1>2, <1>3 DEF TakenOf
<1>6. QED
  BY <1>4, <1>5

-------------------------------------------------------------------------------
LEMMA ViewStarts ==
  ASSUME ViewInit
  PROVE  ViewInv
<1>1. NoRead \in AnyRead /\ NoRead.at = "idle"
  BY DEF NoRead, AnyRead
<1>2. IsFiniteSet({})
  BY FS_EmptySet
<1>3. order = <<>> /\ Len(order) = 0 /\ order \in Seq(AskedKey)
  BY DEF ViewInit
<1>4. ViewTyped
  BY <1>1, <1>2, <1>3 DEF ViewInit, ViewTyped
<1>5. Queued
  BY <1>3, ViewAssumption DEF ViewInit, Queued
<1>6. Trust
  BY <1>1 DEF ViewInit, Trust
<1>7. QED
  BY <1>4, <1>5, <1>6 DEF ViewInv

(* An event ingested takes the next rowid, wherever it belongs.              *)
LEMMA InsertKeeps ==
  ASSUME ViewInv, NEW acct \in EventAccounts, NEW provider \in EventProviders, NEW day \in Days,
         Insert(acct, provider, day)
  PROVE  ViewInv'
<1> DEFINE new == [id |-> MaxRowID(rows) + 1, serial |-> serial + 1, account |-> acct,
                   provider |-> provider, day |-> day]
<1>1. ViewTyped /\ rows \in SUBSET AnyRow /\ serial \in Nat /\ \A r \in rows : r.id \in 1 .. serial
  BY DEF ViewInv, ViewTyped
<1>2. /\ rows' = rows \cup {new} /\ serial' = serial + 1
      /\ UNCHANGED <<newestGone, cache, order, reader>>
  BY DEF Insert
<1>3. MaxRowID(rows) \in 0 .. serial /\ \A r \in rows : r.id <= MaxRowID(rows)
  BY <1>1, LargestRowID
<1>4. new \in AnyRow /\ new.id = MaxRowID(rows) + 1 /\ new.id \in 1 .. serial + 1
  BY <1>1, <1>3 DEF AnyRow
<1> HIDE DEF new
<1>5. ViewTyped'
  <2>1. IsFiniteSet(rows')
    BY <1>1, <1>2, FS_AddElement DEF ViewTyped
  <2>2. rows' \in SUBSET AnyRow /\ serial' \in Nat /\ \A r \in rows' : r.id \in 1 .. serial'
    BY <1>1, <1>2, <1>4
  <2>3. QED
    BY <1>1, <1>2, <2>1, <2>2 DEF ViewTyped
<1>6. Queued'
  BY <1>2 DEF Queued, ViewInv
<1>7. ASSUME NEW key PROVE Behind(rows', key) = Behind(rows, key)
                             \/ Behind(rows', key) = Behind(rows, key) \cup {new}
  BY <1>2 DEF Behind, Scoped
<1>8. ASSUME NEW key, NEW S0 \in SUBSET AnyRow, NEW max \in Nat, NEW count,
             TakenOf(S0, Behind(rows, key), max, count)
      PROVE  /\ TakenOf(S0, Behind(rows', key), max, count)
             /\ Behind(rows', key) = S0 => Behind(rows, key) = S0 /\ Matching(rows', key) = Matching(rows, key)
  <2> DEFINE S == Behind(rows, key)
  <2>1. S \in SUBSET AnyRow /\ S \subseteq rows /\ \A r \in S : r.id \in 1 .. serial
    BY <1>1, BehindTyped
  <2>2. MaxRowID(S) < new.id
    <3>1. MaxRowID(S) \in Nat /\ (S = {} => MaxRowID(S) = 0)
          /\ (S # {} => \E r \in S : r.id = MaxRowID(S))
      BY <1>1, <2>1, LargestRowID
    <3>2. QED
      BY <1>3, <1>4, <2>1, <3>1
  <2>3. CASE Behind(rows', key) = S
    BY <1>8, <2>3, SameBehind
  <2>4. CASE Behind(rows', key) = S \cup {new}
    BY <1>1, <1>4, <1>8, <2>1, <2>2, <2>4, OneRowMore
  <2>5. QED
    BY <1>7, <2>3, <2>4
<1>9. ASSUME NEW key, NEW max \in Nat, NEW count, NEW agg
      PROVE  /\ Probed(key, max, count) => Probed(key, max, count)'
             /\ Trusted(key, max, count, agg) => Trusted(key, max, count, agg)'
  BY <1>8 DEF Probed, Trusted
<1>10. Trust => Trust'
  <2>1. \A e \in cache : e.max \in Nat
    BY <1>1 DEF ViewTyped, AnyEntry
  <2>2. \A r \in Readers : reader[r].max \in Nat
    BY <1>1 DEF ViewTyped, AnyRead
  <2>3. QED
    BY <1>2, <1>9, <2>1, <2>2 DEF Trust
<1>11. QED
  BY <1>2, <1>5, <1>6, <1>10 DEF ViewInv


(* A prune that leaves the newest rows where they are.                       *)
LEMMA PruneKeeps ==
  ASSUME ViewInv, Prune
  PROVE  ViewInv'
<1> DEFINE gone == {r \in rows : r.day < HotDay}
<1>1. ViewTyped /\ rows \in SUBSET AnyRow /\ serial \in Nat /\ \A r \in rows : r.id \in 1 .. serial
  BY DEF ViewInv, ViewTyped
<1>2. /\ rows' = rows \ gone /\ UNCHANGED <<serial, cache, order, reader>>
      /\ newestGone' = (newestGone \/ \E S \in Scopes : \E r \in gone \cap S : r.id = MaxRowID(S))
  BY DEF Prune
<1> HIDE DEF gone
<1>3. ViewTyped'
  <2>1. IsFiniteSet(rows')
    BY <1>1, <1>2, FS_Subset DEF ViewTyped
  <2>2. rows' \in SUBSET AnyRow /\ \A r \in rows' : r.id \in 1 .. serial
    BY <1>1, <1>2
  <2>3. QED
    BY <1>1, <1>2, <2>1, <2>2 DEF ViewTyped
<1>4. Queued'
  BY <1>2 DEF Queued, ViewInv
<1>5. ASSUME ~ newestGone', NEW key \in AskedKey
      PROVE  /\ Behind(rows', key) \in SUBSET Behind(rows, key)
             /\ MaxRowID(Behind(rows', key)) = MaxRowID(Behind(rows, key))
  <2> DEFINE S == Behind(rows, key)
             T == Behind(rows', key)
  <2>1. S \in SUBSET AnyRow /\ S \subseteq rows /\ \A r \in S : r.id \in 1 .. serial
    BY <1>1, BehindTyped
  <2>2. T = S \ gone
    BY <1>2 DEF Behind, Scoped
  <2>3. S \in Scopes
    <3>1. PICK a \in Accounts : /\ key.providers = SourceProviders(a.provider)
                                /\ key.account \in {AnyAccount, a.scope}
      BY DEF AskedKey
    <3>2. S = Scoped(rows, SourceProviders(a.provider), key.account)
      BY <3>1 DEF Behind
    <3>3. S \in {Scoped(rows, SourceProviders(a.provider), s) : s \in {AnyAccount, a.scope}}
      BY <3>1, <3>2
    <3>4. QED
      BY <3>3 DEF Scopes
  <2> HIDE DEF S, T
  <2>4. \A r \in gone \cap S : r.id # MaxRowID(S)
    BY <1>2, <1>5, <2>3
  <2>5. MaxRowID(T) = MaxRowID(S)
    <3>1. CASE S = {}
      BY <2>2, <3>1
    <3>2. CASE S # {}
      <4>1. PICK r \in S : r.id = MaxRowID(S)
        BY <1>1, <2>1, <3>2, LargestRowID
      <4>2. r \in T /\ T \in SUBSET AnyRow /\ \A q \in T : q.id \in 1 .. serial
        BY <2>1, <2>2, <2>4, <4>1
      <4>3. r.id <= MaxRowID(T) /\ MaxRowID(T) \in Nat /\ \E q \in T : q.id = MaxRowID(T)
        BY <1>1, <4>2, LargestRowID
      <4>4. \A q \in S : q.id <= MaxRowID(S)
        BY <1>1, <2>1, LargestRowID
      <4>5. MaxRowID(S) \in Nat
        BY <1>1, <2>1, LargestRowID
      <4>6. QED
        BY <2>2, <4>1, <4>3, <4>4, <4>5
    <3>3. QED
      BY <3>1, <3>2
  <2>6. QED
    BY <2>2, <2>5 DEF S, T
<1>6. ASSUME ~ newestGone', NEW key \in AskedKey, NEW S0 \in SUBSET AnyRow, NEW max \in Nat, NEW count,
             TakenOf(S0, Behind(rows, key), max, count)
      PROVE  /\ TakenOf(S0, Behind(rows', key), max, count)
             /\ Behind(rows', key) = S0 => Behind(rows, key) = S0 /\ Matching(rows', key) = Matching(rows, key)
  <2> DEFINE S == Behind(rows, key)
             T == Behind(rows', key)
  <2>1. S \in SUBSET AnyRow /\ \A r \in S : r.id \in 1 .. serial
    BY <1>1, BehindTyped
  <2>2. T \in SUBSET S /\ MaxRowID(T) = MaxRowID(S)
    BY <1>5, <1>6
  <2>3. TakenOf(S0, T, max, count) /\ (T = S0 => S = S0)
    <3> HIDE DEF S, T
    <3>1. TakenOf(S0, S, max, count)
      BY <1>6 DEF S
    <3>2. QED
      BY <1>1, <1>6, <2>1, <2>2, <3>1, FewerRows
  <2>4. QED
    BY <2>3, SameBehind
<1>7. ASSUME ~ newestGone', NEW key \in AskedKey, NEW max \in Nat, NEW count, NEW agg
      PROVE  /\ Probed(key, max, count) => Probed(key, max, count)'
             /\ Trusted(key, max, count, agg) => Trusted(key, max, count, agg)'
  BY <1>6, <1>7 DEF Probed, Trusted
<1>8. ASSUME ~ newestGone' PROVE Trust'
  <2>1. \A e \in cache : e.max \in Nat /\ e.key \in AskedKey
    BY <1>1 DEF ViewTyped, AnyEntry
  <2>2. \A r \in Readers : reader[r].max \in Nat /\ (reader[r].at # "idle" => reader[r].key \in AskedKey)
    BY <1>1 DEF ViewTyped, AnyRead
  <2>3. Trust
    BY <1>2, <1>8 DEF ViewInv
  <2>4. QED
    BY <1>2, <1>7, <1>8, <2>1, <2>2, <2>3 DEF Trust
<1>9. QED
  BY <1>2, <1>3, <1>4, <1>8 DEF ViewInv

-------------------------------------------------------------------------------
(* A hit is on an entry of the very rows there are.                          *)
LEMMA HitIsFresh ==
  ASSUME ViewInv, ~ newestGone, NEW key \in AskedKey, Hit(key)
  PROVE  /\ (CHOOSE e \in Entry(key) : TRUE) \in cache
         /\ (CHOOSE e \in Entry(key) : TRUE).agg = Matching(rows, key)
<1> DEFINE S == Behind(rows, key)
<1>1. ViewTyped /\ Queued /\ Trust
  BY DEF ViewInv
<1>2. PICK e \in cache : e.key = key /\ e.max = MaxRowID(S) /\ e.count = Cardinality(S)
  BY DEF Hit, Entry, Fingerprint, Behind
<1>3. (CHOOSE d \in Entry(key) : TRUE) = e
  BY <1>1, <1>2 DEF Queued, Entry
<1>4. S \in SUBSET AnyRow /\ IsFiniteSet(S) /\ serial \in Nat /\ \A r \in S : r.id \in 1 .. serial
  BY <1>1, BehindTyped DEF ViewTyped
<1>5. PICK S0 \in SUBSET AnyRow : /\ TakenOf(S0, S, MaxRowID(S), Cardinality(S))
                                  /\ S = S0 => e.agg = Matching(rows, key)
  BY <1>1, <1>2 DEF Trust, Trusted
<1> HIDE DEF S
<1>6. S \subseteq S0
  BY <1>4, <1>5, LargestRowID DEF TakenOf
<1>7. S = S0
  BY <1>5, <1>6, FS_Subset DEF TakenOf
<1>8. QED
  BY <1>2, <1>3, <1>5, <1>7


-------------------------------------------------------------------------------
(* A reader goes on as st, and nothing else changes.                         *)
LEMMA ReaderGoes ==
  ASSUME ViewInv, NEW r \in Readers, NEW st \in AnyRead, reader' = [reader EXCEPT ![r] = st],
         UNCHANGED <<rows, serial, newestGone, cache, order>>,
         st.at # "idle" => st.key \in AskedKey,
         newestGone \/ (st.at = "missed" => Probed(st.key, st.max, st.count)),
         newestGone \/ (st.at = "loaded" => Trusted(st.key, st.max, st.count, st.agg))
  PROVE  ViewInv'
<1>1. ViewTyped /\ Queued
  BY DEF ViewInv
<1>2. reader' \in [Readers -> AnyRead]
      /\ \A q \in Readers : reader'[q] = IF q = r THEN st ELSE reader[q]
  BY <1>1 DEF ViewTyped
<1>3. ViewTyped'
  BY <1>1, <1>2 DEF ViewTyped
<1>4. Queued'
  BY <1>1 DEF Queued
<1>5. ASSUME NEW key, NEW max, NEW count, NEW agg
      PROVE  /\ Probed(key, max, count) => Probed(key, max, count)'
             /\ Trusted(key, max, count, agg) => Trusted(key, max, count, agg)'
  BY DEF Probed, Trusted, Behind, Scoped, Matching
<1>6. ~ newestGone => Trust'
  BY <1>2, <1>5 DEF ViewInv, Trust
<1>7. QED
  BY <1>3, <1>4, <1>6 DEF ViewInv

LEMMA AskedKeys ==
  ASSUME NEW a \in Accounts, NEW scope \in {AnyAccount, a.scope}, NEW since \in Windows
  PROVE  Key(SourceProviders(a.provider), scope, since) \in AskedKey
<1> DEFINE k == Key(SourceProviders(a.provider), scope, since)
<1>1. k \in AnyKey
  BY DEF AnyKey
<1>2. k.providers = SourceProviders(a.provider) /\ k.account \in {AnyAccount, a.scope}
  BY DEF Key
<1>3. QED
  BY <1>1, <1>2 DEF AskedKey

LEMMA ProbeKeeps ==
  ASSUME ViewInv, NEW r \in Readers, ProbeCache(r)
  PROVE  ViewInv'
<1>1. PICK a \in Accounts, since \in Windows : \E scope \in {AnyAccount, a.scope} :
        LET key == Key(SourceProviders(a.provider), scope, since) IN
        reader' = [reader EXCEPT ![r] =
          IF Hit(key)
            THEN [at |-> "served", key |-> key, max |-> 0, count |-> 0,
                  agg |-> (CHOOSE e \in Entry(key) : TRUE).agg]
            ELSE [at |-> "missed", key |-> key, max |-> Fingerprint(key).max,
                  count |-> Fingerprint(key).count, agg |-> {}]]
  BY DEF ProbeCache
<1>2. PICK key \in AskedKey :
        reader' = [reader EXCEPT ![r] =
          IF Hit(key)
            THEN [at |-> "served", key |-> key, max |-> 0, count |-> 0,
                  agg |-> (CHOOSE e \in Entry(key) : TRUE).agg]
            ELSE [at |-> "missed", key |-> key, max |-> Fingerprint(key).max,
                  count |-> Fingerprint(key).count, agg |-> {}]]
  BY <1>1, AskedKeys
<1>3. UNCHANGED <<rows, serial, newestGone, cache, order>>
  BY DEF ProbeCache
<1>4. ViewTyped
  BY DEF ViewInv
<1>5. CASE Hit(key)
  <2> DEFINE found == (CHOOSE e \in Entry(key) : TRUE).agg
             st == [at |-> "served", key |-> key, max |-> 0, count |-> 0, agg |-> found]
  <2>1. (CHOOSE e \in Entry(key) : TRUE) \in Entry(key)
    BY <1>5 DEF Hit
  <2>2. found \in SUBSET AnyRow
    BY <1>4, <2>1 DEF ViewTyped, AnyEntry, Entry
  <2> HIDE DEF found
  <2>3. st \in AnyRead /\ st.at = "served" /\ st.key = key
    BY <2>2 DEF AnyRead
  <2>4. reader' = [reader EXCEPT ![r] = st]
    BY <1>2, <1>5 DEF found
  <2> HIDE DEF st
  <2>5. QED
    BY <1>3, <2>3, <2>4, ReaderGoes
<1>6. CASE ~ Hit(key)
  <2> DEFINE S == Behind(rows, key)
             st == [at |-> "missed", key |-> key, max |-> MaxRowID(S),
                    count |-> Cardinality(S), agg |-> {}]
  <2>1. S \in SUBSET AnyRow /\ IsFiniteSet(S) /\ serial \in Nat /\ \A q \in S : q.id \in 1 .. serial
    BY <1>4, BehindTyped DEF ViewTyped
  <2>2. reader' = [reader EXCEPT ![r] = st]
    BY <1>2, <1>6 DEF Fingerprint, Behind
  <2>3. TakenOf(S, S, MaxRowID(S), Cardinality(S))
    <3> HIDE DEF S
    <3>1. MaxRowID(S) \in Nat
      BY <2>1, LargestRowID
    <3>2. QED
      BY <2>1, <3>1 DEF TakenOf
  <2>4. Probed(key, MaxRowID(S), Cardinality(S))
    BY <2>1, <2>3 DEF Probed
  <2>5. MaxRowID(S) \in Nat /\ Cardinality(S) \in Nat
    <3> HIDE DEF S
    <3>1. QED
      BY <2>1, LargestRowID, FS_CardinalityType
  <2> HIDE DEF S
  <2>6. /\ st \in AnyRead /\ st.at = "missed" /\ st.key = key
        /\ st.max = MaxRowID(S) /\ st.count = Cardinality(S)
    BY <2>5 DEF AnyRead
  <2> HIDE DEF st
  <2>7. QED
    BY <1>3, <2>2, <2>4, <2>6, ReaderGoes
<1>7. QED
  BY <1>5, <1>6

LEMMA MaterializeKeeps ==
  ASSUME ViewInv, NEW r \in Readers, Materialize(r)
  PROVE  ViewInv'
<1> DEFINE key == reader[r].key
           st == [reader[r] EXCEPT !.at = "loaded", !.agg = Matching(rows, key)]
<1>1. ViewTyped /\ reader[r].at = "missed" /\ UNCHANGED <<rows, serial, newestGone, cache, order>>
  BY DEF ViewInv, Materialize
<1>2. reader[r] \in AnyRead /\ key \in AskedKey /\ Matching(rows, key) \in SUBSET AnyRow
  BY <1>1, BehindTyped DEF ViewTyped
<1>3. /\ st \in AnyRead /\ st.at = "loaded" /\ st.key = key
      /\ st.max = reader[r].max /\ st.count = reader[r].count /\ st.agg = Matching(rows, key)
  BY <1>2 DEF AnyRead
<1>4. reader' = [reader EXCEPT ![r] = st]
  BY <1>1 DEF Materialize, ViewTyped
<1>5. newestGone \/ Trusted(key, reader[r].max, reader[r].count, Matching(rows, key))
  <2>1. newestGone \/ Probed(key, reader[r].max, reader[r].count)
    BY <1>1 DEF ViewInv, Trust
  <2>2. QED
    BY <2>1 DEF Probed, Trusted
<1> HIDE DEF st, key
<1>6. QED
  BY <1>1, <1>2, <1>3, <1>4, <1>5, ReaderGoes

LEMMA DoneKeeps ==
  ASSUME ViewInv, NEW r \in Readers, Done(r)
  PROVE  ViewInv'
<1>1. NoRead \in AnyRead /\ NoRead.at = "idle"
  BY DEF NoRead, AnyRead
<1>2. QED
  BY <1>1, ReaderGoes DEF Done

(* A new entry is put behind the others, and as many go in front as are too  *)
(* many.                                                                     *)
LEMMA StoreKeeps ==
  ASSUME ViewInv, NEW r \in Readers, Store(r)
  PROVE  ViewInv'
<1> DEFINE new   == [key |-> reader[r].key, agg |-> reader[r].agg,
                     max |-> reader[r].max, count |-> reader[r].count]
           known == Entry(new.key) # {}
           line  == IF known THEN order ELSE Append(order, new.key)
           kept  == SubSeq(line, Evicted(line) + 1, Len(line))
<1>1. ViewTyped /\ Queued /\ reader[r].at = "loaded" /\ UNCHANGED <<rows, serial, newestGone>>
  BY DEF ViewInv, Store
<1>2. /\ order' = kept
      /\ cache' = {e \in cache : e.key # new.key /\ Contains(kept, e.key)} \cup {new}
      /\ reader' = [reader EXCEPT ![r] = NoRead]
  BY DEF Store
<1>3. reader[r] \in AnyRead /\ reader[r].key \in AskedKey
  BY <1>1 DEF ViewTyped
<1>4. /\ new \in AnyEntry /\ new.key = reader[r].key /\ new.max = reader[r].max
      /\ new.count = reader[r].count /\ new.agg = reader[r].agg
  BY <1>3 DEF AnyEntry, AnyRead
<1> HIDE DEF new
<1>5. order \in Seq(AskedKey) /\ Len(order) \in Nat /\ Len(order) <= MaxEntries /\ new.key \in AskedKey
      /\ MaxEntries \in Nat /\ MaxEntries > 0
  BY <1>1, <1>3, <1>4, LenProperties, ViewAssumption DEF ViewTyped, Queued
(* kept is the whole line, or all of it but its first.                       *)
<1>6. \E d \in {0, 1} :
        /\ kept \in Seq(AskedKey) /\ Len(kept) = Len(line) - d /\ Len(line) - d \in 1 .. MaxEntries
        /\ \A i \in 1 .. Len(kept) : kept[i] = line[i + d]
        /\ (d = 1 => ~ known)
  <2>1. line \in Seq(AskedKey) /\ Len(line) = Len(order) + (IF known THEN 0 ELSE 1)
    BY <1>5, AppendProperties
  <2>2. known => Len(order) > 0
    BY <1>1 DEF Entry, Queued, Contains
  <2> DEFINE d == Evicted(line)
  <2> HIDE DEF line, known
  <2>3. d \in {0, 1} /\ (d = 1 => ~ known) /\ Len(line) - d \in 1 .. MaxEntries /\ Len(line) \in Nat
    BY <1>5, <2>1, <2>2 DEF Evicted
  <2>4. \A i \in d + 1 .. Len(line) : line[i] \in AskedKey
    BY <2>1, <2>3, ElementOfSeq
  <2> HIDE DEF d
  <2>5. /\ SubSeq(line, d + 1, Len(line)) \in Seq(AskedKey)
        /\ Len(SubSeq(line, d + 1, Len(line))) = Len(line) - d
        /\ \A i \in 1 .. Len(line) - d : SubSeq(line, d + 1, Len(line))[i] = line[d + 1 + i - 1]
    BY <2>3, <2>4, SubSeqProperties
  <2>6. QED
    BY <2>3, <2>5 DEF d
<1>7. PICK d \in {0, 1} :
        /\ kept \in Seq(AskedKey) /\ Len(kept) = Len(line) - d /\ Len(line) - d \in 1 .. MaxEntries
        /\ \A i \in 1 .. Len(kept) : kept[i] = line[i + d]
        /\ (d = 1 => ~ known)
  BY <1>6
<1>8. /\ Len(line) = Len(order) + (IF known THEN 0 ELSE 1)
      /\ \A i \in 1 .. Len(line) : line[i] = IF i <= Len(order) THEN order[i] ELSE new.key
  BY <1>5, AppendProperties
<1>9. /\ known => \E i \in 1 .. Len(order) : order[i] = new.key
      /\ ~ known => \A i \in 1 .. Len(order) : order[i] # new.key
  BY <1>1 DEF Queued, Entry, Contains
<1> HIDE DEF kept, line
<1>10. Contains(kept, new.key)
  <2>1. CASE known
    BY <1>5, <1>7, <1>8, <1>9, <2>1 DEF Contains
  <2>2. CASE ~ known
    <3>1. kept[Len(kept)] = new.key /\ Len(kept) \in 1 .. Len(kept)
      BY <1>5, <1>7, <1>8, <2>2
    <3>2. QED
      BY <3>1 DEF Contains
  <2>3. QED
    BY <2>1, <2>2
<1>11. \A i, j \in 1 .. Len(kept) : kept[i] = kept[j] => i = j
  <2>1. \A i, j \in 1 .. Len(line) : line[i] = line[j] => i = j
    BY <1>1, <1>5, <1>8, <1>9 DEF Queued
  <2>2. ASSUME NEW i \in 1 .. Len(kept), NEW j \in 1 .. Len(kept), kept[i] = kept[j] PROVE i = j
    <3>1. Len(line) \in Nat
      BY <1>5, <1>8
    <3>2. i \in Nat /\ j \in Nat /\ i + d \in 1 .. Len(line) /\ j + d \in 1 .. Len(line)
      BY <1>7, <3>1
    <3>3. line[i + d] = line[j + d]
      BY <1>7, <2>2
    <3>4. i + d = j + d
      BY <2>1, <3>2, <3>3
    <3>5. QED
      BY <3>2, <3>4
  <2>3. QED
    BY <2>2
<1>12. \A i \in 1 .. Len(kept) : kept[i] = new.key \/ \E e \in cache : e.key = kept[i]
  BY <1>1, <1>5, <1>7, <1>8 DEF Queued
<1>13. Queued'
  <2>1. Len(order') <= MaxEntries
    BY <1>2, <1>7
  <2>2. \A e \in cache' : Contains(order', e.key)
    BY <1>2, <1>10
  <2>3. \A i \in 1 .. Len(order') : \E e \in cache' : e.key = order'[i]
    BY <1>2, <1>12 DEF Contains
  <2>4. \A b, e \in cache' : b.key = e.key => b = e
    BY <1>1, <1>2 DEF Queued
  <2>5. QED
    BY <1>2, <1>11, <2>1, <2>2, <2>3, <2>4 DEF Queued
<1>14. ViewTyped'
  <2>1. cache' \in SUBSET AnyEntry /\ order' \in Seq(AskedKey)
    BY <1>1, <1>2, <1>4, <1>7 DEF ViewTyped
  <2>2. NoRead \in AnyRead /\ NoRead.at = "idle"
    BY DEF NoRead, AnyRead
  <2>3. QED
    BY <1>1, <1>2, <2>1, <2>2 DEF ViewTyped
<1>15. Trust => Trust'
  <2>1. Trust => Trusted(new.key, new.max, new.count, new.agg)
    BY <1>1, <1>4 DEF Trust
  <2>2. ASSUME NEW key, NEW max, NEW count, NEW agg
        PROVE  /\ Probed(key, max, count) => Probed(key, max, count)'
               /\ Trusted(key, max, count, agg) => Trusted(key, max, count, agg)'
    BY <1>1 DEF Probed, Trusted, Behind, Scoped, Matching
  <2>3. \A q \in Readers : reader'[q] = IF q = r THEN NoRead ELSE reader[q]
    BY <1>1, <1>2 DEF ViewTyped
  <2>4. QED
    BY <1>2, <2>1, <2>2, <2>3 DEF Trust, NoRead
<1>16. QED
  BY <1>1, <1>13, <1>14, <1>15 DEF ViewInv

LEMMA ViewSteps ==
  ASSUME ViewInv, [ViewNext]_viewVars
  PROVE  ViewInv'
<1>1. CASE UNCHANGED viewVars
  <2>1. /\ rows' = rows /\ serial' = serial /\ newestGone' = newestGone
        /\ cache' = cache /\ order' = order /\ reader' = reader
    BY <1>1 DEF viewVars
  <2>2. ViewTyped' = ViewTyped
    BY <2>1 DEF ViewTyped
  <2>3. Queued' = Queued
    BY <2>1 DEF Queued
  <2>4. Trust' = Trust
    BY <2>1 DEF Trust, Probed, Trusted, Behind, Scoped, Matching
  <2>5. QED
    BY <2>1, <2>2, <2>3, <2>4 DEF ViewInv
<1>2. QED
  BY <1>1, ProbeKeeps, MaterializeKeeps, StoreKeeps, DoneKeeps, InsertKeeps, PruneKeeps DEF ViewNext

-------------------------------------------------------------------------------
(* The keys in the queue are as many as the entries.                         *)
LEMMA QueueIsBijective ==
  ASSUME ViewTyped, Queued
  PROVE  CacheIsBounded
<1> DEFINE n == Len(order)
           f == [i \in 1 .. n |-> CHOOSE e \in cache : e.key = order[i]]
<1>1. n \in Nat /\ DOMAIN order = 1 .. n
  BY LenProperties DEF ViewTyped
<1>2. \A i \in 1 .. n : f[i] \in cache /\ f[i].key = order[i]
  BY DEF Queued
<1>3. \A e \in cache : \E i \in 1 .. n : order[i] = e.key
  BY DEF Queued, Contains
<1>4. {e.key : e \in cache} = ToSet(order)
  BY <1>1, <1>2, <1>3 DEF ToSet
<1>5. f \in Bijection(1 .. n, cache)
  <2>1. f \in [1 .. n -> cache] /\ DOMAIN f = 1 .. n
    BY <1>2
  <2> HIDE DEF f
  <2>2. \A i, j \in 1 .. n : f[i] = f[j] => i = j
    BY <1>2 DEF Queued
  <2>3. \A e \in cache : \E i \in 1 .. n : f[i] = e
    BY <1>2, <1>3 DEF Queued
  <2>4. QED
    BY <2>1, <2>2, <2>3 DEF Bijection, Injection, Surjection, IsInjective
<1> HIDE DEF n
<1>6. Cardinality(cache) = n
  <2>1. IsFiniteSet(1 .. n) /\ Cardinality(1 .. n) = n
    BY <1>1, FS_Interval
  <2>2. ExistsBijection(1 .. n, cache)
    BY <1>5 DEF ExistsBijection
  <2>3. QED
    BY <2>1, <2>2, FS_Bijection
<1>7. QED
  BY <1>4, <1>6 DEF CacheIsBounded, Queued, n

(* For any accounts, links, windows and readers, and however rows come and   *)
(* go: a hit is on the events a fresh computation would find, as long as no  *)
(* prune takes the newest row behind an entry (usage_view_cache.go:22).      *)
THEOREM HitsAreFresh == ViewSpec => HitsSeeInsertsAndPrunes
<1>1. ViewInit => ViewInv
  BY ViewStarts
<1>2. ViewInv /\ [ViewNext]_viewVars => ViewInv'
  BY ViewSteps
<1>3. ASSUME ViewInv, [ViewNext]_viewVars, NEW r \in Readers, Served(r)
      PROVE  UpToDate(r) \/ newestGone
  <2>1. ViewTyped
    BY <1>3 DEF ViewInv
  <2>2. PICK q \in Readers : ProbeCache(q) /\ reader'[r].at = "served" /\ reader[r].at = "idle"
    BY <1>3, <2>1
    DEF ViewNext, viewVars, Materialize, Store, Done, Insert, Prune, Served, ViewTyped, NoRead
  <2>3. PICK a \in Accounts, since \in Windows : \E scope \in {AnyAccount, a.scope} :
          LET key == Key(SourceProviders(a.provider), scope, since) IN
          reader' = [reader EXCEPT ![q] =
            IF Hit(key)
              THEN [at |-> "served", key |-> key, max |-> 0, count |-> 0,
                    agg |-> (CHOOSE e \in Entry(key) : TRUE).agg]
              ELSE [at |-> "missed", key |-> key, max |-> Fingerprint(key).max,
                    count |-> Fingerprint(key).count, agg |-> {}]]
    BY <2>2 DEF ProbeCache
  <2>4. PICK key \in AskedKey :
          reader' = [reader EXCEPT ![q] =
            IF Hit(key)
              THEN [at |-> "served", key |-> key, max |-> 0, count |-> 0,
                    agg |-> (CHOOSE e \in Entry(key) : TRUE).agg]
              ELSE [at |-> "missed", key |-> key, max |-> Fingerprint(key).max,
                    count |-> Fingerprint(key).count, agg |-> {}]]
    BY <2>3, AskedKeys
  <2> DEFINE found == (CHOOSE e \in Entry(key) : TRUE).agg
  <2> HIDE DEF found
  <2>5. reader' = [reader EXCEPT ![q] =
            IF Hit(key)
              THEN [at |-> "served", key |-> key, max |-> 0, count |-> 0, agg |-> found]
              ELSE [at |-> "missed", key |-> key, max |-> Fingerprint(key).max,
                    count |-> Fingerprint(key).count, agg |-> {}]]
    BY <2>4 DEF found
  <2>6. Hit(key) /\ reader'[r].agg = found /\ reader'[r].key = key
    BY <2>1, <2>2, <2>5 DEF ViewTyped
  <2>7. newestGone \/ found = Matching(rows, key)
    BY <1>3, <2>4, <2>6, HitIsFresh DEF found
  <2>8. QED
    BY <2>6, <2>7 DEF UpToDate
<1>4. ViewInv /\ [ViewNext]_viewVars =>
       [\A r \in Readers : Served(r) => UpToDate(r) \/ newestGone]_viewVars
  BY <1>3
<1>5. QED
  BY <1>1, <1>2, <1>4, PTL DEF ViewSpec, HitsSeeInsertsAndPrunes

(* The cache keeps to its limit, and its queue is of its entries.            *)
THEOREM CacheKeepsLimit == ViewSpec => []CacheIsBounded
<1>1. ViewInit => ViewInv
  BY ViewStarts
<1>2. ViewInv /\ [ViewNext]_viewVars => ViewInv'
  BY ViewSteps
<1>3. ViewInv => CacheIsBounded
  BY QueueIsBijective DEF ViewInv
<1>4. QED
  BY <1>1, <1>2, <1>3, PTL DEF ViewSpec

(* Accounts on the same sources are shown different events, at any time.     *)
LEMMA Siblings == SiblingsDoNotShare
<1>1. ASSUME NEW a \in Accounts, NEW b \in Accounts, NEW since \in Windows, a.scope # b.scope,
             SourceProviders(a.provider) = SourceProviders(b.provider)
      PROVE  Shown(rows, a, since) \cap Shown(rows, b, since) = {}
  <2>1. ~ SoleAccount(a) /\ ~ SoleAccount(b)
    BY <1>1 DEF SoleAccount
  <2>2. \A r \in Shown(rows, a, since) : r.account = a.scope
    BY <2>1, ViewAssumption DEF Shown, KeyShown, Matching, Scoped, Key
  <2>3. \A r \in Shown(rows, b, since) : r.account = b.scope
    BY <2>1, ViewAssumption DEF Shown, KeyShown, Matching, Scoped, Key
  <2>4. QED
    BY <1>1, <2>2, <2>3
<1>2. QED
  BY <1>1 DEF SiblingsDoNotShare

THEOREM SiblingsApart == ViewSpec => []SiblingsDoNotShare
BY Siblings, PTL

-------------------------------------------------------------------------------
(* Balances.  Readings of two minutes are in the order of their rows, and    *)
(* what the account did between two readings, or since one, shows in them:   *)
(* the balance is what was deposited and not spent, and a counter rises by   *)
(* what is spent, unless it is reset.                                        *)
Reading == [at : Nat, row : Nat, remaining : Int, used : Nat, total : Nat, deposits : Nat]

BalanceTyped ==
  /\ minute \in Nat /\ total \in Nat /\ deposits \in Nat /\ moves \in Nat
  /\ account \in [remaining : Int, used : Nat]
  /\ series \in SUBSET Reading

Flow(o, used, spent) ==
  /\ o.total <= spent
  /\ used - o.used <= spent - o.total
  /\ used < o.used => used <= spent - o.total

Fits(o) ==
  /\ o.at <= minute /\ 1 <= o.row /\ o.row <= o.at + 1
  /\ o.remaining = o.deposits - o.total /\ o.used <= o.total
  /\ o.deposits <= deposits /\ Flow(o, account.used, total)

InOrder(o, p) ==
  /\ o.at = p.at => o = p
  /\ o.at < p.at => o.row < p.row /\ o.deposits <= p.deposits /\ Flow(o, p.used, p.total)

BalanceInv ==
  /\ BalanceTyped
  /\ account.remaining = deposits - total /\ account.used <= total
  /\ \A o \in series : Fits(o)
  /\ \A o, p \in series : InOrder(o, p)

LEMMA LatestIs ==
  ASSUME BalanceInv, NEW S \in SUBSET series, S # {}
  PROVE  Latest(S) \in S /\ \A p \in S : p.at <= Latest(S).at
<1> DEFINE T == {o.at : o \in S}
<1>1. \A o \in S : o.at \in 0 .. minute
  BY DEF BalanceInv, BalanceTyped, Fits, Reading
<1>2. T \in SUBSET (0 .. minute) /\ T # {} /\ minute \in Nat
  BY <1>1 DEF BalanceInv, BalanceTyped
<1>3. Max(T) \in T /\ \A t \in T : t <= Max(T)
  <2> HIDE DEF T
  <2>1. QED
    BY <1>2, MaxIsElement
<1>4. \E o \in S : \A p \in S : p.at <= o.at
  BY <1>3
<1>5. QED
  BY <1>4 DEF Latest

LEMMA EarliestIs ==
  ASSUME BalanceInv, NEW S \in SUBSET series, S # {}
  PROVE  Earliest(S) \in S /\ \A p \in S : Earliest(S).at <= p.at
<1> DEFINE T == {minute - o.at : o \in S}
<1>1. \A o \in S : o.at \in 0 .. minute /\ minute \in Nat
  BY DEF BalanceInv, BalanceTyped, Fits, Reading
<1>2. T \in SUBSET (0 .. minute) /\ T # {} /\ minute \in Nat
  BY <1>1 DEF BalanceInv, BalanceTyped
<1>3. Max(T) \in T /\ \A t \in T : t <= Max(T)
  <2> HIDE DEF T
  <2>1. QED
    BY <1>2, MaxIsElement
<1>4. PICK o \in S : Max(T) = minute - o.at
  BY <1>3
<1>5. \A p \in S : minute - p.at <= minute - o.at
  BY <1>3, <1>4
<1>6. \A p \in S : o.at <= p.at
  BY <1>1, <1>5
<1>7. QED
  BY <1>6 DEF Earliest

-------------------------------------------------------------------------------
LEMMA BalanceStarts == BalanceInit => BalanceInv
BY DEF BalanceInit, BalanceInv, BalanceTyped

(* The readings stay, the account or the clock moves on: what is spent is    *)
(* counted, or the counter is reset.                                         *)
LEMMA AccountMoves ==
  ASSUME BalanceInv, BalanceTyped', UNCHANGED series, minute <= minute',
         total <= total', deposits <= deposits', account'.remaining = deposits' - total',
         account'.used - account.used = total' - total \/ account'.used = 0
  PROVE  BalanceInv'
<1> USE DEF BalanceInv, BalanceTyped
<1>1. account'.used <= total'
  OBVIOUS
<1>2. ASSUME NEW o \in series PROVE Fits(o)'
  <2>1. o \in Reading /\ Fits(o)
    OBVIOUS
  <2>2. Flow(o, account'.used, total')
    BY <2>1 DEF Fits, Flow, Reading
  <2>3. QED
    BY <2>1, <2>2 DEF Fits, Reading
<1>3. QED
  BY <1>1, <1>2

LEMMA RecordTakes ==
  ASSUME BalanceInv, Record
  PROVE  \E row \in Nat :
           LET new == [at |-> minute, row |-> row, remaining |-> account.remaining,
                       used |-> account.used, total |-> total, deposits |-> deposits]
               others == {o \in series : o.at # minute}
           IN /\ series' = others \cup {new} /\ 1 <= row /\ row <= minute + 1
              /\ \A o \in others : o.row < row
<1> DEFINE same == {o \in series : o.at = minute}
           R    == {0} \cup {o.row : o \in series}
           row  == IF same # {} THEN (CHOOSE o \in same : TRUE).row ELSE 1 + Max(R)
<1>1. /\ minute \in Nat
      /\ \A o \in series : /\ o.at \in Nat /\ o.row \in Nat /\ o.at <= minute
                           /\ 1 <= o.row /\ o.row <= o.at + 1
  BY DEF BalanceInv, BalanceTyped, Fits, Reading
<1>2. row \in Nat /\ 1 <= row /\ row <= minute + 1 /\ \A o \in series \ same : o.row < row
  <2>1. CASE same # {}
    <3>1. PICK k \in same : k = CHOOSE o \in same : TRUE
      BY <2>1
    <3>2. \A o \in series \ same : o.row < k.row
      BY <1>1 DEF BalanceInv, InOrder
    <3>3. QED
      BY <1>1, <2>1, <3>1, <3>2
  <2>2. CASE same = {}
    <3>1. \A o \in series : o.at < minute /\ o.row <= minute
      BY <1>1, <2>2
    <3>2. R \in SUBSET (0 .. minute) /\ R # {}
      BY <1>1, <3>1
    <3>3. Max(R) \in R /\ \A r \in R : r <= Max(R)
      <4> HIDE DEF R
      <4>1. QED
        BY <1>1, <3>2, MaxIsElement
    <3>4. \A o \in series : o.row <= Max(R)
      BY <3>3
    <3>5. Max(R) \in 0 .. minute
      BY <3>2, <3>3
    <3>6. row = 1 + Max(R)
      BY <2>2
    <3> HIDE DEF row, R
    <3>7. QED
      BY <1>1, <3>4, <3>5, <3>6
  <2>3. QED
    BY <2>1, <2>2
<1>3. series' = (series \ same) \cup
          {[at |-> minute, row |-> row, remaining |-> account.remaining, used |-> account.used,
            total |-> total, deposits |-> deposits]}
  BY DEF Record
<1>4. series \ same = {o \in series : o.at # minute}
  OBVIOUS
<1> HIDE DEF row
<1>5. QED
  BY <1>2, <1>3, <1>4

LEMMA RecordKeeps ==
  ASSUME BalanceInv, Record
  PROVE  BalanceInv'
<1> USE DEF BalanceInv, BalanceTyped
<1> DEFINE others == {o \in series : o.at # minute}
<1>1. PICK row \in Nat :
        LET new == [at |-> minute, row |-> row, remaining |-> account.remaining,
                    used |-> account.used, total |-> total, deposits |-> deposits]
        IN /\ series' = others \cup {new} /\ 1 <= row /\ row <= minute + 1
           /\ \A o \in others : o.row < row
  BY RecordTakes
<1> DEFINE new == [at |-> minute, row |-> row, remaining |-> account.remaining,
                   used |-> account.used, total |-> total, deposits |-> deposits]
<1>2. UNCHANGED <<minute, account, total, deposits, moves>>
  BY DEF Record
<1>3. new \in Reading /\ Fits(new) /\ InOrder(new, new)
  BY <1>1 DEF Reading, Fits, Flow, InOrder
<1>4. ASSUME NEW o \in others PROVE InOrder(o, new) /\ InOrder(new, o)
  <2>1. Fits(o) /\ o \in Reading /\ o.at # minute /\ o.row < row
    BY <1>1
  <2>2. /\ new.at = minute /\ new.row = row /\ new.deposits = deposits
        /\ new.used = account.used /\ new.total = total
    OBVIOUS
  <2> HIDE DEF new
  <2>3. QED
    BY <2>1, <2>2 DEF Fits, InOrder, Reading
<1>5. series' = others \cup {new}
  BY <1>1
<1> HIDE DEF new
<1>6. \A o \in series' : Fits(o)'
  BY <1>2, <1>3, <1>5 DEF Fits
<1>7. \A o, p \in series' : InOrder(o, p)
  BY <1>3, <1>4, <1>5
<1>8. series' \in SUBSET Reading
  BY <1>3, <1>5
<1>9. QED
  BY <1>2, <1>6, <1>7, <1>8

LEMMA FirstOnly == Thinned \subseteq series
BY DEF Thinned, FirstOfEach

LEMMA BalanceSteps ==
  ASSUME BalanceInv, [BalanceNext]_balanceVars
  PROVE  BalanceInv'
<1> USE DEF BalanceTyped
<1>1. ASSUME NEW n \in Amounts, SpendMoney(n) PROVE BalanceInv'
  BY <1>1, AccountMoves, BalanceAssumption DEF SpendMoney, Move, BalanceInv
<1>2. ASSUME NEW n \in Amounts, Deposit(n) PROVE BalanceInv'
  BY <1>2, AccountMoves, BalanceAssumption DEF Deposit, Move, BalanceInv
<1>3. CASE ResetCounter
  BY <1>3, AccountMoves DEF ResetCounter, Move, BalanceInv
<1>4. ASSUME NEW n \in Steps, MinutesPass(n) PROVE BalanceInv'
  BY <1>4, AccountMoves, BalanceAssumption DEF MinutesPass, BalanceInv
<1>5. CASE Record
  BY <1>5, RecordKeeps
<1>6. CASE PruneBalanceObservations
  BY <1>6, FirstOnly DEF PruneBalanceObservations, BalanceInv, Fits
<1>7. CASE UNCHANGED balanceVars
  BY <1>7 DEF balanceVars, BalanceInv, Fits
<1>8. QED
  BY <1>1, <1>2, <1>3, <1>4, <1>5, <1>6, <1>7 DEF BalanceNext

-------------------------------------------------------------------------------
(* Minutes, hours and days follow each other.                                *)
LEMMA DivIs ==
  ASSUME NEW n \in Nat \ {0}, NEW t \in Int
  PROVE  t \div n \in Int /\ n * (t \div n) <= t /\ t < n * (t \div n) + n
BY SMT

LEMMA DivIsMonotonic ==
  ASSUME NEW n \in Nat \ {0}, NEW s \in Int, NEW t \in Int, s <= t
  PROVE  s \div n <= t \div n
<1> DEFINE p == s \div n
           q == t \div n
<1>1. p \in Int /\ q \in Int /\ n * p <= s /\ t < n * q + n
  BY DivIs
<1> HIDE DEF p, q
<1>2. n * p < n * (q + 1)
  BY <1>1
<1>3. p < q + 1
  <2>1. SUFFICES ASSUME p >= q + 1 PROVE FALSE
    BY <1>1
  <2>2. PICK d \in Nat : p = q + 1 + d
    <3>1. p - (q + 1) \in Nat
      BY <1>1, <2>1
    <3>2. p = q + 1 + (p - (q + 1))
      BY <1>1
    <3>3. QED
      BY <3>1, <3>2
  <2>3. n * p = n * (q + 1) + n * d /\ n * d >= 0
    BY <1>1, <2>2
  <2>4. QED
    BY <1>1, <1>2, <2>3
<1>4. QED
  BY <1>1, <1>3 DEF p, q

LEMMA HoursMakeDays ==
  ASSUME NEW s \in Nat, NEW t \in Nat, HourOf(s) = HourOf(t)
  PROVE  DayOf(s) = DayOf(t)
<1>1. PICK k \in Nat \ {0} : DayLen = HourLen * k
  BY BalanceAssumption
<1>2. \A u \in Nat : u \div (HourLen * k) = (u \div HourLen) \div k
  BY BalanceAssumption
<1>3. QED
  BY <1>1, <1>2 DEF HourOf, DayOf

(* The earliest reading of a bucket has its first row.                       *)
LEMMA EarliestIsFirst ==
  ASSUME BalanceInv, NEW S \in SUBSET series, NEW a \in S
  PROVE  \E b \in S : b.at <= a.at /\ \A p \in S : b.at <= p.at /\ FirstRow(b, p)
<1>1. Earliest(S) \in S /\ \A p \in S : Earliest(S).at <= p.at
  BY EarliestIs
<1>2. \A p \in S : FirstRow(Earliest(S), p)
  <2>1. SUFFICES ASSUME NEW p \in S PROVE FirstRow(Earliest(S), p)
    OBVIOUS
  <2>2. PICK b \in S : b = Earliest(S)
    BY <1>1
  <2>3. b \in Reading /\ p \in Reading /\ InOrder(b, p) /\ b.at <= p.at
    BY <1>1, <2>2 DEF BalanceInv, BalanceTyped
  <2>4. QED
    BY <2>2, <2>3 DEF InOrder, FirstRow, Reading
<1>3. QED
  BY <1>1, <1>2

(* Thinning keeps the left anchors of all windows.                           *)
LEMMA ThinningKeepsAnchors ==
  ASSUME BalanceInv, NEW since \in 0 .. minute,
         NEW a \in series, a.at <= since, ~ OlderThan(a, Horizon)
  PROVE  \E b \in Thinned : /\ b.at <= a.at /\ DayOf(b.at) = DayOf(a.at)
                            /\ ~ OlderThan(a, Week) => HourOf(b.at) = HourOf(a.at)
<1> DEFINE kept == {o \in series : ~ OlderThan(o, Horizon)}
           old  == {o \in kept : OlderThan(o, Week)}
           mid  == {o \in kept : OlderThan(o, Recent)} \ old
<1>1. \A o \in series : o \in Reading /\ o.at \in Nat
  BY DEF BalanceInv, BalanceTyped, Reading
<1>2. Thinned = (kept \ (old \cup mid)) \cup FirstOfEach(old, DayOf) \cup FirstOfEach(mid, HourOf)
  BY DEF Thinned
<1>3. CASE a \in old
  <2> DEFINE G == {o \in old : DayOf(o.at) = DayOf(a.at)}
  <2>1. PICK b \in G : b.at <= a.at /\ \A p \in G : FirstRow(b, p)
    <3>1. G \in SUBSET series /\ a \in G
      BY <1>3
    <3> HIDE DEF G
    <3>2. QED
      BY <3>1, EarliestIsFirst
  <2>2. b \in FirstOfEach(old, DayOf)
    BY <2>1 DEF FirstOfEach
  <2>3. QED
    BY <1>2, <1>3, <2>1, <2>2
<1>4. CASE a \in mid
  <2> DEFINE G == {o \in mid : HourOf(o.at) = HourOf(a.at)}
  <2>1. PICK b \in G : b.at <= a.at /\ \A p \in G : FirstRow(b, p)
    <3>1. G \in SUBSET series /\ a \in G
      BY <1>4
    <3> HIDE DEF G
    <3>2. QED
      BY <3>1, EarliestIsFirst
  <2>2. b \in FirstOfEach(mid, HourOf)
    BY <2>1 DEF FirstOfEach
  <2>3. b \in series /\ HourOf(b.at) = HourOf(a.at)
    OBVIOUS
  <2>4. DayOf(b.at) = DayOf(a.at)
    BY <1>1, <2>3, HoursMakeDays
  <2>5. QED
    BY <1>2, <2>1, <2>2, <2>3, <2>4
<1>5. CASE a \in kept \ (old \cup mid)
  <2>1. a \in Thinned
    <3> DEFINE thin == FirstOfEach(old, DayOf) \cup FirstOfEach(mid, HourOf)
    <3>1. Thinned = (kept \ (old \cup mid)) \cup thin
      BY <1>2
    <3> HIDE DEF thin
    <3>2. QED
      BY <1>5, <3>1
  <2>2. QED
    BY <1>1, <2>1
<1>6. QED
  BY <1>3, <1>4, <1>5

(* Whatever is thinned, a window's left anchor stays, or one before it of    *)
(* the same day, and of the same hour in the last week, takes its place.     *)
THEOREM ThinningKeepsWindows == BalanceSpec => AnchorsSurviveThinning
<1> DEFINE Survive ==
  PruneBalanceObservations =>
       \A since \in 0 .. minute :
         LET before == {o \in AtOrBefore(series, since) : ~ OlderThan(o, Horizon)}
             after  == AtOrBefore(series', since)
         IN before # {} =>
              /\ after # {}
              /\ LET a == Latest(before) b == Latest(after) IN
                 /\ b.at <= a.at /\ DayOf(b.at) = DayOf(a.at)
                 /\ ~ OlderThan(a, Week) => HourOf(b.at) = HourOf(a.at)
<1>1. ASSUME BalanceInv, PruneBalanceObservations, NEW since \in 0 .. minute,
             {o \in AtOrBefore(series, since) : ~ OlderThan(o, Horizon)} # {}
      PROVE  LET before == {o \in AtOrBefore(series, since) : ~ OlderThan(o, Horizon)}
                 after  == AtOrBefore(series', since)
             IN /\ after # {}
                /\ LET a == Latest(before) b == Latest(after) IN
                   /\ b.at <= a.at /\ DayOf(b.at) = DayOf(a.at)
                   /\ ~ OlderThan(a, Week) => HourOf(b.at) = HourOf(a.at)
  <2> DEFINE before == {o \in AtOrBefore(series, since) : ~ OlderThan(o, Horizon)}
             after  == AtOrBefore(series', since)
  <2>1. series' = Thinned /\ Thinned \subseteq {o \in series : ~ OlderThan(o, Horizon)}
    BY <1>1 DEF PruneBalanceObservations, Thinned, FirstOfEach
  <2>2. \A o \in series : o \in Reading /\ o.at \in Nat
    BY <1>1 DEF BalanceInv, BalanceTyped, Reading
  <2>3. before \in SUBSET series /\ after \in SUBSET before /\ after \in SUBSET series
    BY <2>1 DEF AtOrBefore
  <2>4. PICK a \in before : a = Latest(before)
    <3> HIDE DEF before
    <3>1. before # {}
      BY <1>1 DEF before
    <3>2. QED
      BY <1>1, <2>3, <3>1, LatestIs
  <2>5. a \in series /\ a.at <= since /\ ~ OlderThan(a, Horizon)
    BY DEF AtOrBefore
  <2>6. PICK c \in Thinned : /\ c.at <= a.at /\ DayOf(c.at) = DayOf(a.at)
                             /\ ~ OlderThan(a, Week) => HourOf(c.at) = HourOf(a.at)
    BY <1>1, <2>5, ThinningKeepsAnchors
  <2>7. c \in series /\ c.at \in Nat /\ a.at \in Nat /\ since \in Nat
    BY <2>1, <2>2, <2>5, <1>1 DEF BalanceInv, BalanceTyped
  <2>8. c \in after
    BY <2>1, <2>5, <2>6, <2>7 DEF AtOrBefore
  <2> HIDE DEF before, after
  <2>9. PICK b \in after : b = Latest(after) /\ c.at <= b.at
    BY <1>1, <2>3, <2>8, LatestIs
  <2>10. b.at <= a.at /\ b.at \in Nat
    BY <1>1, <2>2, <2>3, <2>4, LatestIs
  <2>11. DayOf(b.at) = DayOf(a.at) /\ (HourOf(c.at) = HourOf(a.at) => HourOf(b.at) = HourOf(a.at))
    <3>1. /\ DayOf(c.at) <= DayOf(b.at) /\ DayOf(b.at) <= DayOf(a.at)
          /\ HourOf(c.at) <= HourOf(b.at) /\ HourOf(b.at) <= HourOf(a.at)
      BY <2>7, <2>9, <2>10, DivIsMonotonic, BalanceAssumption DEF DayOf, HourOf
    <3>2. {DayOf(c.at), DayOf(b.at), DayOf(a.at), HourOf(c.at), HourOf(b.at), HourOf(a.at)} \subseteq Int
      BY <2>7, <2>10, DivIs, BalanceAssumption DEF DayOf, HourOf
    <3>3. QED
      BY <2>6, <3>1, <3>2
  <2>12. after # {} /\ b.at <= a.at /\ DayOf(b.at) = DayOf(a.at)
         /\ (~ OlderThan(a, Week) => HourOf(b.at) = HourOf(a.at))
    BY <2>6, <2>9, <2>10, <2>11
  <2>13. QED
    BY <2>4, <2>9, <2>12 DEF before, after
<1>2. BalanceInv /\ [BalanceNext]_balanceVars => [Survive]_balanceVars
  <2>1. SUFFICES ASSUME BalanceInv PROVE Survive
    OBVIOUS
  <2>2. QED
    BY <2>1, <1>1
<1>3. QED
  BY <1>2, BalanceStarts, BalanceSteps, PTL DEF BalanceSpec, AnchorsSurviveThinning

(* A used-counter never shows more than was spent since its anchor.          *)
LEMMA CounterShowsLess == BalanceInv => CounterNeverOverstates
<1> SUFFICES ASSUME BalanceInv, NEW since \in 0 .. minute, windowedSpendCumulative(since).ok
             PROVE  LET r == windowedSpendCumulative(since)
                        spent == Latest(series).total - r.anchor.total
                    IN  /\ 0 <= r.spend /\ r.spend <= spent
                        /\ Latest(series).used = Latest(series).total => r.spend = spent
  BY DEF CounterNeverOverstates
<1> DEFINE before == AtOrBefore(series, since)
<1>1. series # {}
  BY DEF windowedSpendCumulative, NoReading
<1>2. before \in SUBSET series
  BY DEF AtOrBefore
<1>3. PICK p \in series : p = Latest(series) /\ \A o \in series : o.at <= p.at
  BY <1>1, LatestIs
<1>4. PICK o \in series : o = IF before # {} THEN Latest(before) ELSE Earliest(series)
  <2> HIDE DEF before
  <2>1. QED
    BY <1>1, <1>2, LatestIs, EarliestIs
<1> DEFINE r == windowedSpendCumulative(since)
<1>5. r.anchor = o /\ r.spend = UsedSince(p.used, p.used - o.used)
  BY <1>1, <1>3, <1>4 DEF windowedSpendCumulative
<1>6. o \in Reading /\ p \in Reading /\ Fits(o) /\ Fits(p) /\ InOrder(o, p) /\ o.at <= p.at
  BY <1>3 DEF BalanceInv, BalanceTyped
<1>7. Flow(o, p.used, p.total)
  BY <1>6 DEF InOrder, Flow, Reading
<1> HIDE DEF r
<1>8. /\ 0 <= r.spend /\ r.spend <= p.total - o.total
      /\ p.used = p.total => r.spend = p.total - o.total
  BY <1>5, <1>6, <1>7 DEF Flow, Fits, UsedSince, Reading
<1>9. QED
  BY <1>3, <1>5, <1>8 DEF r

-------------------------------------------------------------------------------
LEMMA LeastNumber ==
  ASSUME NEW S \in SUBSET Nat, S # {}
  PROVE  \E n \in S : \A m \in S : n <= m
<1>1. \E n \in S : \A m \in S : ~ (<<m, n>> \in OpToRel(<, Nat))
  BY NatLessThanWellFounded, WFMin
<1>2. \E n \in S : \A m \in S : ~ (m < n)
  BY <1>1 DEF OpToRel
<1>3. QED
  BY <1>2

(* What is added up minute by minute.                                        *)
AddsUp(s, g, m) ==
  /\ s \in [0 .. m -> Int] /\ s[0] = g[0]
  /\ \A i \in 1 .. m : s[i] = s[i - 1] + g[i]

LEMMA SumExists ==
  ASSUME NEW m \in Nat, NEW g \in [0 .. m -> Int]
  PROVE  \E s : AddsUp(s, g, m)
<1> DEFINE Missing == {k \in 0 .. m : ~ \E s : AddsUp(s, g, k)}
<1>0. m \in 0 .. m
  OBVIOUS
<1>1. SUFFICES ASSUME Missing # {} PROVE FALSE
  BY <1>0, Zenon
<1>2. PICK k \in Missing : \A j \in Missing : k <= j
  <2>1. Missing \in SUBSET Nat
    OBVIOUS
  <2> HIDE DEF Missing
  <2>2. QED
    BY <1>1, <2>1, LeastNumber
<1>3. CASE k = 0
  <2>1. AddsUp([i \in 0 .. 0 |-> g[i]], g, 0)
    BY DEF AddsUp
  <2>2. QED
    BY <1>3, <2>1
<1>4. CASE k # 0
  <2>1. k - 1 \in 0 .. m /\ k - 1 \notin Missing /\ k \in 0 .. m
    BY <1>2, <1>4
  <2>2. PICK s : AddsUp(s, g, k - 1)
    BY <2>1
  <2> DEFINE h == [i \in 0 .. k |-> IF i = k THEN s[k - 1] + g[k] ELSE s[i]]
  <2>3. s[k - 1] \in Int /\ g[k] \in Int /\ \A i \in 0 .. k - 1 : s[i] \in Int
    BY <2>1, <2>2 DEF AddsUp
  <2>4. h \in [0 .. k -> Int] /\ h[0] = g[0]
    BY <1>4, <2>1, <2>2, <2>3 DEF AddsUp
  <2>5. ASSUME NEW i \in 1 .. k PROVE h[i] = h[i - 1] + g[i]
    <3>1. h[i - 1] = s[i - 1]
      BY <2>1
    <3>2. CASE i = k
      BY <3>1, <3>2
    <3>3. CASE i # k
      <4>1. i \in 1 .. k - 1 /\ h[i] = s[i]
        BY <2>1, <3>3
      <4>2. QED
        BY <2>2, <3>1, <4>1 DEF AddsUp
    <3>4. QED
      BY <3>2, <3>3
  <2>6. AddsUp(h, g, k)
    BY <2>4, <2>5 DEF AddsUp
  <2>7. QED
    BY <2>6
<1>5. QED
  BY <1>3, <1>4

LEMMA SumAddsUp ==
  ASSUME NEW m \in Nat, NEW g \in [0 .. m -> Int]
  PROVE  AddsUp(RunningSum(g), g, m)
<1>1. PICK s : AddsUp(s, g, m)
  BY SumExists
<1>2. s = [t \in DOMAIN g |-> (IF t = 0 THEN 0 ELSE s[t - 1]) + g[t]]
  <2>1. \A t \in 0 .. m : s[t] = (IF t = 0 THEN 0 ELSE s[t - 1]) + g[t]
    BY <1>1 DEF AddsUp
  <2>2. s \in [0 .. m -> Int] /\ DOMAIN g = 0 .. m
    BY <1>1 DEF AddsUp
  <2>3. QED
    BY <2>1, <2>2
<1> DEFINE r == RunningSum(g)
<1>3. r = [t \in DOMAIN g |-> (IF t = 0 THEN 0 ELSE r[t - 1]) + g[t]]
  BY <1>2 DEF RunningSum
<1> HIDE DEF r
<1>4. r[0] = g[0] /\ (\A i \in 1 .. m : r[i] = r[i - 1] + g[i]) /\ DOMAIN r = 0 .. m
  BY <1>3
<1> DEFINE Wrong == {t \in 0 .. m : r[t] \notin Int}
<1>5. ASSUME Wrong # {} PROVE FALSE
  <2>1. PICK t \in Wrong : \A u \in Wrong : t <= u
    <3>1. Wrong \in SUBSET Nat
      OBVIOUS
    <3> HIDE DEF Wrong
    <3>2. QED
      BY <1>5, <3>1, LeastNumber
  <2>2. t # 0
    BY <1>4
  <2>3. t - 1 \in 0 .. m /\ t - 1 \notin Wrong
    BY <2>1, <2>2
  <2>4. QED
    BY <1>4, <2>2, <2>3
<1>6. r = [t \in 0 .. m |-> r[t]]
  BY <1>3, <1>4
<1>7. QED
  BY <1>4, <1>5, <1>6 DEF AddsUp, r

-------------------------------------------------------------------------------
(* The walk over readings from an anchor on.                                 *)
Drop(walk, anchor, t) ==
  IF \E o \in walk \ {anchor} : o.at = t
  THEN Latest(AtOrBefore(walk, t - 1)).remaining - Latest(AtOrBefore(walk, t)).remaining
  ELSE 0

Drops(walk, anchor) == [t \in 0 .. minute |-> SpendOf(Drop(walk, anchor, t))]
Rises(walk, anchor) ==
  [t \in 0 .. minute |-> IF Drop(walk, anchor, t) < 0 THEN - Drop(walk, anchor, t) ELSE 0]

(* At each minute the walk has seen no more drops than was spent since the   *)
(* anchor, and the drops exceed the rises by what the balance lost.          *)
Walked(walk, anchor, s, r, t) ==
  LET c == Latest(AtOrBefore(walk, t)) IN
  IF t < anchor.at THEN s[t] = 0 /\ r[t] = 0
  ELSE /\ 0 <= s[t] /\ s[t] <= c.total - anchor.total
       /\ s[t] - r[t] = anchor.remaining - c.remaining

LEMMA WalkStep ==
  ASSUME BalanceInv, NEW walk \in SUBSET series, NEW anchor \in walk,
         \A o \in walk : anchor.at <= o.at,
         NEW t \in 0 .. minute, t > anchor.at
  PROVE  LET c == Latest(AtOrBefore(walk, t - 1))
             d == Latest(AtOrBefore(walk, t))
         IN /\ c \in series /\ d \in series /\ c.total <= d.total /\ c.deposits <= d.deposits
            /\ Drop(walk, anchor, t) = c.remaining - d.remaining
<1> DEFINE B == AtOrBefore(walk, t - 1)
           N == AtOrBefore(walk, t)
<1>1. /\ B \in SUBSET series /\ N \in SUBSET series /\ B \subseteq N /\ anchor \in B /\ anchor \in N
      /\ t \in Nat /\ anchor.at \in Nat /\ \A o \in series : o \in Reading /\ o.at \in Nat
  <2>1. \A o \in series : o \in Reading /\ o.at \in Nat
    BY DEF BalanceInv, BalanceTyped, Reading
  <2>2. minute \in Nat
    BY DEF BalanceInv, BalanceTyped
  <2>3. QED
    BY <2>1, <2>2 DEF AtOrBefore
<1>2. PICK c \in B : c = Latest(B) /\ \A p \in B : p.at <= c.at
  <2> HIDE DEF B
  <2>1. QED
    BY <1>1, LatestIs
<1>3. PICK d \in N : d = Latest(N) /\ \A p \in N : p.at <= d.at
  <2> HIDE DEF N
  <2>1. QED
    BY <1>1, LatestIs
<1>4. /\ c \in Reading /\ d \in Reading /\ c.at <= d.at /\ InOrder(c, d)
      /\ c \in series /\ d \in series
  BY <1>1, <1>2, <1>3 DEF BalanceInv
<1>5. c.total <= d.total /\ c.deposits <= d.deposits
  BY <1>4 DEF InOrder, Flow, Reading
<1>6. CASE \E o \in walk \ {anchor} : o.at = t
  BY <1>2, <1>3, <1>4, <1>5, <1>6 DEF Drop
<1>7. CASE ~ \E o \in walk \ {anchor} : o.at = t
  <2>1. \A o \in N : o.at \in Nat /\ o.at <= t /\ o.at # t
    BY <1>1, <1>7 DEF AtOrBefore
  <2>2. B = N
    BY <1>1, <2>1 DEF AtOrBefore
  <2>3. c.remaining - d.remaining = 0
    BY <1>2, <1>3, <1>4, <2>2 DEF Reading
  <2>4. QED
    BY <1>2, <1>3, <1>4, <1>5, <1>7, <2>3 DEF Drop
<1>8. QED
  BY <1>6, <1>7

LEMMA DropIsInt ==
  ASSUME BalanceInv, NEW walk \in SUBSET series, NEW anchor \in walk,
         \A o \in walk : anchor.at <= o.at, NEW t \in 0 .. minute
  PROVE  Drop(walk, anchor, t) \in Int /\ (t <= anchor.at => Drop(walk, anchor, t) = 0)
<1>1. \A o \in series : o \in Reading /\ o.at \in Nat /\ o.remaining \in Int
  BY DEF BalanceInv, BalanceTyped, Reading
<1>2. CASE t <= anchor.at
  <2>1. \A o \in walk \ {anchor} : o.at # anchor.at
    BY DEF BalanceInv, InOrder
  <2>2. ~ \E o \in walk \ {anchor} : o.at = t
    BY <1>1, <1>2, <2>1
  <2>3. QED
    BY <2>2 DEF Drop
<1>3. CASE t > anchor.at
  <2>1. PICK c \in series, d \in series : Drop(walk, anchor, t) = c.remaining - d.remaining
    BY <1>3, WalkStep
  <2>2. QED
    BY <1>1, <1>3, <2>1
<1>4. QED
  BY <1>1, <1>2, <1>3

LEMMA WalkIsBounded ==
  ASSUME BalanceInv, NEW walk \in SUBSET series, NEW anchor \in walk,
         \A o \in walk : anchor.at <= o.at, NEW t \in 0 .. minute
  PROVE  Walked(walk, anchor, RunningSum(Drops(walk, anchor)), RunningSum(Rises(walk, anchor)), t)
<1> DEFINE s == RunningSum(Drops(walk, anchor))
           r == RunningSum(Rises(walk, anchor))
           Wrong == {u \in 0 .. minute : ~ Walked(walk, anchor, s, r, u)}
<1>1. \A u \in 0 .. minute : Drop(walk, anchor, u) \in Int
  BY DropIsInt
<1>2. Drops(walk, anchor) \in [0 .. minute -> Int] /\ Rises(walk, anchor) \in [0 .. minute -> Int]
  BY <1>1 DEF Drops, Rises, SpendOf
<1>3. AddsUp(s, Drops(walk, anchor), minute) /\ AddsUp(r, Rises(walk, anchor), minute)
  BY <1>2, SumAddsUp DEF BalanceInv, BalanceTyped
<1> HIDE DEF s, r
<1>4. \A u \in 0 .. minute : s[u] \in Int /\ r[u] \in Int
  BY <1>3 DEF AddsUp
<1>5. \A u \in 1 .. minute : /\ s[u] = s[u - 1] + SpendOf(Drop(walk, anchor, u))
                             /\ r[u] = r[u - 1] + (IF Drop(walk, anchor, u) < 0
                                                   THEN - Drop(walk, anchor, u) ELSE 0)
  <2>1. SUFFICES ASSUME NEW u \in 1 .. minute
                 PROVE  /\ s[u] = s[u - 1] + SpendOf(Drop(walk, anchor, u))
                        /\ r[u] = r[u - 1] + (IF Drop(walk, anchor, u) < 0
                                              THEN - Drop(walk, anchor, u) ELSE 0)
    OBVIOUS
  <2>2. u \in 0 .. minute
    BY DEF BalanceInv, BalanceTyped
  <2>3. /\ Drops(walk, anchor)[u] = SpendOf(Drop(walk, anchor, u))
        /\ Rises(walk, anchor)[u] = IF Drop(walk, anchor, u) < 0
                                    THEN - Drop(walk, anchor, u) ELSE 0
    BY <2>2 DEF Drops, Rises
  <2>4. s[u] = s[u - 1] + Drops(walk, anchor)[u] /\ r[u] = r[u - 1] + Rises(walk, anchor)[u]
    BY <1>3 DEF AddsUp
  <2>5. QED
    BY <2>3, <2>4
<1>6. s[0] = 0 /\ r[0] = 0
  <2>1. 0 \in 0 .. minute /\ anchor.at \in Nat
    BY DEF BalanceInv, BalanceTyped, Reading
  <2>2. Drop(walk, anchor, 0) = 0
    BY <2>1, DropIsInt
  <2>3. QED
    BY <1>3, <2>1, <2>2 DEF AddsUp, Drops, Rises, SpendOf
<1>7. \A o \in series : /\ o \in Reading /\ o.at \in Nat /\ o.total \in Nat
                        /\ o.remaining \in Int /\ o.remaining = o.deposits - o.total
                        /\ o.deposits \in Nat
  BY DEF BalanceInv, BalanceTyped, Reading, Fits
<1>8. Latest(AtOrBefore(walk, anchor.at)) = anchor
  <2> DEFINE S == AtOrBefore(walk, anchor.at)
  <2>1. S = {anchor}
    BY <1>7 DEF AtOrBefore, BalanceInv, InOrder
  <2>2. Latest(S) \in S
    <3> HIDE DEF S
    <3>1. QED
      BY <2>1, LatestIs
  <2>3. QED
    BY <2>1, <2>2
<1>9. \A u \in 1 .. minute : u <= anchor.at => s[u] = s[u - 1] /\ r[u] = r[u - 1]
  <2>1. SUFFICES ASSUME NEW u \in 1 .. minute, u <= anchor.at
                 PROVE  s[u] = s[u - 1] /\ r[u] = r[u - 1]
    OBVIOUS
  <2>2. Drop(walk, anchor, u) = 0
    BY <2>1, DropIsInt
  <2>3. u - 1 \in 0 .. minute
    BY DEF BalanceInv, BalanceTyped
  <2>4. QED
    BY <1>4, <1>5, <2>2, <2>3 DEF SpendOf
<1>10. ASSUME Wrong # {} PROVE FALSE
  <2>1. PICK u \in Wrong : \A v \in Wrong : u <= v
    <3>1. Wrong \in SUBSET Nat
      OBVIOUS
    <3> HIDE DEF Wrong
    <3>2. QED
      BY <1>10, <3>1, LeastNumber
  <2>2. ~ Walked(walk, anchor, s, r, u)
    OBVIOUS
  <2>3. CASE u = 0
    <3>1. anchor.at \in Nat
      BY <1>7
    <3>2. QED
      BY <1>6, <1>7, <1>8, <2>2, <2>3, <3>1 DEF Walked
  <2>4. CASE u # 0
    <3>1. u \in 1 .. minute /\ u - 1 \in 0 .. minute /\ Walked(walk, anchor, s, r, u - 1)
      BY <2>1, <2>4 DEF BalanceInv, BalanceTyped
    <3>2. CASE u < anchor.at
      <4>1. s[u - 1] = 0 /\ r[u - 1] = 0
        BY <1>7, <3>1, <3>2 DEF Walked
      <4>2. QED
        BY <1>7, <1>9, <2>2, <3>1, <3>2, <4>1 DEF Walked
    <3>3. CASE u = anchor.at
      <4>1. s[u - 1] = 0 /\ r[u - 1] = 0
        BY <1>7, <3>1, <3>3 DEF Walked
      <4>2. QED
        BY <1>7, <1>8, <1>9, <2>2, <3>1, <3>3, <4>1 DEF Walked
    <3>4. CASE u > anchor.at
      <4>1. PICK c \in series, d \in series :
              /\ c = Latest(AtOrBefore(walk, u - 1)) /\ d = Latest(AtOrBefore(walk, u))
              /\ c.total <= d.total /\ c.deposits <= d.deposits
              /\ Drop(walk, anchor, u) = c.remaining - d.remaining
        BY <3>1, <3>4, WalkStep
      <4>2. /\ 0 <= s[u - 1] /\ s[u - 1] <= c.total - anchor.total
            /\ s[u - 1] - r[u - 1] = anchor.remaining - c.remaining
        BY <1>7, <3>1, <3>4, <4>1 DEF Walked
      <4>3. /\ s[u] = s[u - 1] + SpendOf(c.remaining - d.remaining)
            /\ r[u] = r[u - 1] + (IF c.remaining - d.remaining < 0
                                  THEN - (c.remaining - d.remaining) ELSE 0)
        BY <1>5, <3>1, <4>1
      <4>4. /\ 0 <= s[u] /\ s[u] <= d.total - anchor.total
            /\ s[u] - r[u] = anchor.remaining - d.remaining
        BY <1>4, <1>7, <3>1, <4>1, <4>2, <4>3 DEF SpendOf
      <4>5. QED
        BY <1>7, <2>2, <3>1, <3>4, <4>1, <4>4 DEF Walked
    <3>5. QED
      BY <1>7, <3>1, <3>2, <3>3, <3>4
  <2>5. QED
    BY <2>3, <2>4
<1>11. QED
  BY <1>10 DEF s, r

(* So what a balance shows is no more than was spent since its anchor.       *)
LEMMA BalanceShowsLess == BalanceInv => BalanceNeverOverstates
<1> SUFFICES ASSUME BalanceInv, NEW since \in 0 .. minute, windowedSpendBalance(since).ok
             PROVE  LET r == windowedSpendBalance(since)
                        last == Latest(series)
                        spent == last.total - r.anchor.total
                        paid  == last.deposits - r.anchor.deposits
                    IN  /\ 0 <= r.spend /\ r.spend <= spent
                        /\ spent - r.spend = paid - r.topups
  BY DEF BalanceNeverOverstates
<1> DEFINE window == {o \in series : o.at >= since}
           before == AtOrBefore(series, since)
           first  == IF before # {} THEN Latest(before) ELSE Earliest(window)
<1>1. window # {} /\ window \in SUBSET series /\ before \in SUBSET series
  BY DEF windowedSpendBalance, NoReading, AtOrBefore
<1>2. /\ minute \in 0 .. minute
      /\ \A o \in series : /\ o \in Reading /\ o.at \in Nat /\ o.at <= minute /\ o.total \in Nat
                           /\ o.remaining \in Int /\ o.remaining = o.deposits - o.total
                           /\ o.deposits \in Nat
  BY DEF BalanceInv, BalanceTyped, Reading, Fits
<1>3. PICK anchor \in series : anchor = first
  <2> HIDE DEF window, before
  <2>1. QED
    BY <1>1, LatestIs, EarliestIs
<1>4. \A o \in window : anchor.at <= o.at
  <2>1. CASE before # {}
    <3>1. anchor \in before
      <4> HIDE DEF before
      <4>1. QED
        BY <1>1, <1>3, <2>1, LatestIs
    <3>2. QED
      BY <1>2, <3>1 DEF AtOrBefore
  <2>2. CASE before = {}
    <3> HIDE DEF window, before
    <3>1. QED
      BY <1>1, <1>3, <2>2, EarliestIs
  <2>3. QED
    BY <2>1, <2>2
<1> DEFINE walk == window \cup {anchor}
           r == windowedSpendBalance(since)
           s == RunningSum(Drops(walk, anchor))
           u == RunningSum(Rises(walk, anchor))
<1>5. r.anchor = anchor /\ r.spend = s[minute] /\ r.topups = u[minute]
  BY <1>1, <1>3 DEF windowedSpendBalance, Drops, Rises, Drop
<1>6. PICK last \in series : last = Latest(series) /\ \A o \in series : o.at <= last.at
  BY <1>1, LatestIs
<1>7. Latest(AtOrBefore(walk, minute)) = last
  <2> DEFINE S == AtOrBefore(walk, minute)
  <2>1. S = walk /\ S \in SUBSET series /\ last \in S
    BY <1>1, <1>2, <1>6 DEF AtOrBefore
  <2> HIDE DEF S
  <2>2. Latest(S) \in S /\ \A p \in S : p.at <= Latest(S).at
    BY <2>1, LatestIs
  <2>3. PICK q \in series : q = Latest(S) /\ last.at <= q.at
    BY <2>1, <2>2
  <2>4. q.at = last.at
    <3>1. q.at <= last.at /\ last.at <= q.at
      BY <1>6, <2>3
    <3>2. q.at \in Nat /\ last.at \in Nat
      BY <1>2
    <3>3. QED
      BY <3>1, <3>2
  <2>5. q = last
    BY <2>4 DEF BalanceInv, InOrder
  <2>6. QED
    BY <2>3, <2>5 DEF S
<1>8. Walked(walk, anchor, s, u, minute)
  <2>1. walk \in SUBSET series /\ anchor \in walk /\ \A o \in walk : anchor.at <= o.at
    BY <1>1, <1>2, <1>4
  <2> HIDE DEF walk
  <2>2. QED
    BY <1>2, <2>1, WalkIsBounded
<1> HIDE DEF s, u, r, walk
<1>9. /\ 0 <= s[minute] /\ s[minute] <= last.total - anchor.total
      /\ s[minute] - u[minute] = anchor.remaining - last.remaining
  BY <1>2, <1>7, <1>8 DEF Walked
<1>10. s[minute] \in Int /\ u[minute] \in Int
  <2>1. walk \in SUBSET series /\ anchor \in walk /\ \A o \in walk : anchor.at <= o.at
    BY <1>1, <1>2, <1>4 DEF walk
  <2>2. \A t \in 0 .. minute : Drop(walk, anchor, t) \in Int
    BY <2>1, DropIsInt
  <2>3. Drops(walk, anchor) \in [0 .. minute -> Int] /\ Rises(walk, anchor) \in [0 .. minute -> Int]
    BY <2>2 DEF Drops, Rises, SpendOf
  <2>4. AddsUp(s, Drops(walk, anchor), minute) /\ AddsUp(u, Rises(walk, anchor), minute)
    BY <2>3, SumAddsUp DEF BalanceInv, BalanceTyped, s, u
  <2>5. QED
    BY <1>2, <2>4 DEF AddsUp
<1>11. /\ 0 <= r.spend /\ r.spend <= last.total - r.anchor.total
       /\ (last.total - r.anchor.total) - r.spend = (last.deposits - r.anchor.deposits) - r.topups
  <2>1. /\ last.total \in Nat /\ last.deposits \in Nat /\ last.remaining = last.deposits - last.total
        /\ anchor.total \in Nat /\ anchor.deposits \in Nat
        /\ anchor.remaining = anchor.deposits - anchor.total
    BY <1>2
  <2>2. /\ 0 <= s[minute] /\ s[minute] <= last.total - anchor.total
        /\ (last.total - anchor.total) - s[minute] = (last.deposits - anchor.deposits) - u[minute]
    BY <1>9, <1>10, <2>1
  <2>3. QED
    BY <1>5, <2>2
<1>12. QED
  BY <1>6, <1>11 DEF r

(* No window ever shows more than was spent since its anchor.                *)
THEOREM SpendIsNotOverstated == BalanceSpec => []SpendNeverOverstates
BY BalanceStarts, BalanceSteps, BalanceShowsLess, CounterShowsLess, PTL
   DEF BalanceSpec, SpendNeverOverstates

===============================================================================
