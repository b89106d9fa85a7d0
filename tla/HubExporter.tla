------------------------------ MODULE HubExporter ------------------------------
(***************************************************************************)
(* Machines that export their usage to a hub.  A machine's exporter keeps  *)
(* the latest snapshots and pushes them every interval, one push at a      *)
(* time, each with a timeout; errors are logged and forgotten.  The hub    *)
(* keeps in memory what each machine pushed, and drops what was received   *)
(* too long ago when it is read.  A push whose sender gave up may be in    *)
(* the hub's hands already.                                                *)
(***************************************************************************)
EXTENDS Integers, FiniteSets

CONSTANTS
  Machines,
  MaxData,     (* bound: the last version of a machine's snapshots           *)
  StaleTimeout,(* in units of time                                           *)
  MaxTimeouts, (* bound: pushes that time out                                *)
  MaxFaults    (* bound: restarts of the hub, refusals, machines that stop   *)

Nothing == 0     (* Exporter.latest is empty, Store has no entry             *)

VARIABLES
  version,  (* version[m]: the newest snapshots of m                         *)
  latest,   (* Exporter.latest of m: a version or Nothing                    *)
  busy,     (* m is inside push                                              *)
  running,  (* m runs                                                        *)
  pushes,   (* requests on their way or in a handler: [from, v, waiting]     *)
  machines, (* Store.machines[m]: [v, age]                                   *)
  timeouts, faults

exportVars == <<version, latest, busy, running>>
hubVars == <<exportVars, pushes, machines, timeouts, faults>>

NoEntry == [v |-> Nothing, age |-> 0]

HubInit ==
  /\ version = [m \in Machines |-> 0] /\ latest = [m \in Machines |-> Nothing]
  /\ busy = [m \in Machines |-> FALSE] /\ running = [m \in Machines |-> TRUE]
  /\ pushes = {} /\ machines = [m \in Machines |-> NoEntry]
  /\ timeouts = 0 /\ faults = 0

-------------------------------------------------------------------------------
(* The exporter.  Ingest replaces the latest snapshots; none pauses it.      *)
Ingest(m) ==
  /\ running[m] /\ version[m] < MaxData
  /\ version' = [version EXCEPT ![m] = @ + 1]
  /\ \E v \in {version'[m], Nothing} : latest' = [latest EXCEPT ![m] = v]
  /\ UNCHANGED <<busy, running, pushes, machines, timeouts, faults>>

tickAnyway(m) ==   \* mutant: a push does not wait for the one before
  /\ running[m] /\ latest[m] # Nothing
  /\ busy' = [busy EXCEPT ![m] = TRUE]
  /\ pushes' = pushes \cup {[from |-> m, v |-> latest[m], waiting |-> TRUE]}
  /\ UNCHANGED <<version, latest, running, machines, timeouts, faults>>

tick(m) ==
  /\ running[m] /\ ~ busy[m] /\ latest[m] # Nothing
  /\ busy' = [busy EXCEPT ![m] = TRUE]
  /\ pushes' = pushes \cup {[from |-> m, v |-> latest[m], waiting |-> TRUE]}
  /\ UNCHANGED <<version, latest, running, machines, timeouts, faults>>

(* The sender gives up; the request is lost, or goes on without it.          *)
PushTimesOut(p) ==
  /\ p.waiting /\ timeouts < MaxTimeouts /\ timeouts' = timeouts + 1
  /\ busy' = [busy EXCEPT ![p.from] = FALSE]
  /\ \/ pushes' = pushes \ {p}
     \/ pushes' = (pushes \ {p}) \cup {[p EXCEPT !.waiting = FALSE]}
  /\ UNCHANGED <<version, latest, running, machines, faults>>

Returned(p) == busy' = IF p.waiting THEN [busy EXCEPT ![p.from] = FALSE] ELSE busy
Fault == faults < MaxFaults /\ faults' = faults + 1

MachineStops(m) ==
  /\ running[m] /\ Fault
  /\ running' = [running EXCEPT ![m] = FALSE] /\ busy' = [busy EXCEPT ![m] = FALSE]
  /\ pushes' = {[p EXCEPT !.waiting = @ /\ p.from # m] : p \in pushes}
  /\ UNCHANGED <<version, latest, machines, timeouts>>

-------------------------------------------------------------------------------
(* The hub: a push is refused (its token, size or body) or stored with the   *)
(* time it arrives, whatever it replaces.                                    *)
handlePushRefuses(p) ==
  /\ Fault /\ pushes' = pushes \ {p} /\ Returned(p)
  /\ UNCHANGED <<version, latest, running, machines, timeouts>>
Stored(entry, p) == [v |-> p.v, age |-> 0]

handlePush(p) ==
  /\ pushes' = pushes \ {p} /\ Returned(p)
  /\ machines' = [machines EXCEPT ![p.from] = Stored(@, p)]
  /\ UNCHANGED <<version, latest, running, timeouts, faults>>

(* Snapshots and MachineNames both drop what is stale as they read.          *)
TooOld(entry) == entry.age > StaleTimeout

PrunedNever == machines   \* mutant: stale machines stay

Pruned == [m \in Machines |-> IF TooOld(machines[m]) THEN NoEntry ELSE machines[m]]

Read ==
  /\ machines' = Pruned /\ UNCHANGED <<exportVars, pushes, timeouts, faults>>
HubRestarts ==
  /\ Fault /\ machines' = [m \in Machines |-> NoEntry]
  /\ busy' = [m \in Machines |-> FALSE] /\ pushes' = {}
  /\ UNCHANGED <<version, latest, running, timeouts>>

(* Time passes; ages beyond the timeout are all the same.                    *)
Older(entry) == IF entry = NoEntry \/ TooOld(entry) THEN entry ELSE [entry EXCEPT !.age = @ + 1]
TimePasses ==
  /\ machines' = [m \in Machines |-> IF machines[m].v = Nothing THEN NoEntry ELSE Older(machines[m])]
  /\ UNCHANGED <<exportVars, pushes, timeouts, faults>>

HubNext ==
  \/ \E m \in Machines : Ingest(m) \/ tick(m) \/ MachineStops(m)
  \/ \E p \in pushes : PushTimesOut(p) \/ handlePushRefuses(p) \/ handlePush(p)
  \/ Read \/ HubRestarts \/ TimePasses

Handled(m) == \E p \in pushes : p.from = m /\ handlePush(p)

(* Exporters' timers fire, the hub's handlers run, someone reads the hub.    *)
HubFairness ==
  /\ \A m \in Machines : WF_hubVars(tick(m)) /\ WF_hubVars(Handled(m))
  /\ WF_hubVars(Read) /\ WF_hubVars(TimePasses)

HubSpec == HubInit /\ [][HubNext]_hubVars
HubFairSpec == HubSpec /\ HubFairness

-------------------------------------------------------------------------------
(* What the hub shows of a machine goes back to an older version only when   *)
(* that push had been given up by its sender, who never sends two at once,   *)
(* or was stopped.                                                           *)
OnlyLatePushesGoBack ==
  [][ \A m \in Machines :
        machines'[m].v \in 1..(machines[m].v - 1) =>
          \E p \in pushes : p.from = m /\ p.v = machines'[m].v /\ ~ p.waiting ]_hubVars

(* Whatever is lost, refused, late or overtaken, and when the hub restarts:  *)
(* the newest snapshots of a machine that exports come to be what the hub    *)
(* has of it, and a machine that stopped disappears.                         *)
HubFollows ==
  \A m \in Machines :
    /\ <>[](running[m] /\ latest[m] # Nothing) => <>[](machines[m].v \in {latest[m], Nothing})
    /\ <>[](running[m] /\ latest[m] # Nothing) => []<>(machines[m].v = latest[m])
    /\ <>[](~ running[m]) => <>[](machines[m] = NoEntry)
================================================================================
