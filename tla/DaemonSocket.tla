----------------------------- MODULE DaemonSocket -----------------------------
(***************************************************************************)
(* Who owns the daemon's unix socket: daemon processes that start, serve,  *)
(* shut down and die; the service manager (systemd, Restart=always) that   *)
(* starts one when the unit is installed; and clients that run             *)
(* EnsureRunning, which uses a healthy daemon, asks the service manager    *)
(* for one, or spawns one.                                                 *)
(*                                                                         *)
(* The socket path is shared by all of them and only ever tested and       *)
(* unlinked by name, so the system calls of a start (stat, dial, unlink,   *)
(* bind) and of a shutdown (close, which unlinks, and remove) are steps of *)
(* their own.  A process is a member of Daemons and lives once.  A health  *)
(* request is answered by the listener the path names, at once.            *)
(***************************************************************************)
CONSTANTS
  Daemons,     (* daemon processes, each started at most once                *)
  Clients,     (* processes that call EnsureRunning                          *)
  NoFile,      (* nothing at the socket path                                 *)
  NotASocket,  (* a file of another kind at the socket path                  *)
  StaleSocket  (* the socket file of a daemon long dead                      *)

Versions == {"old", "new"}

VARIABLES
  path,        (* what the path names: NoFile, NotASocket, StaleSocket, a daemon *)
  proc,        (* Daemons -> where the process is                            *)
  listening,   (* daemons whose listener is open                             *)
  build,       (* Daemons -> the version the process runs                    *)
  installed,   (* the service unit is installed and enabled                  *)
  managed,     (* the daemon the service manager started last, as a set      *)
  ondisk,      (* the version of the installed binary                        *)
  client,      (* Clients -> where its EnsureRunning is                      *)
  mine,        (* Clients -> the version of the client's own binary          *)
  unlinked     (* history: an unlink hit the socket of a listening daemon    *)

daemonVars == <<path, proc, listening, build, unlinked>>
clientVars == <<client, mine>>
socketVars == <<daemonVars, clientVars, installed, managed, ondisk>>

Starting == {"stat", "dial", "unlink", "bind"}
Stopping == {"closing", "removing"}
Alive(d) == proc[d] \in Starting \cup {"serving"} \cup Stopping
Serving  == {d \in Daemons : proc[d] = "serving"}

SocketInit ==
  /\ path \in {NoFile, NotASocket, StaleSocket}
  /\ proc = [d \in Daemons |-> "unborn"] /\ listening = {}
  /\ build = [d \in Daemons |-> "old"]
  /\ installed \in BOOLEAN /\ managed = {} /\ ondisk = "old"
  /\ client = [c \in Clients |-> "probe"] /\ mine = [c \in Clients |-> "old"]
  /\ unlinked = FALSE

-------------------------------------------------------------------------------
(* The processes.                                                            *)

To(d, where) == proc' = [proc EXCEPT ![d] = where]

(* unlink(2) of the path, whoever's socket is there.                         *)
UnlinkPath ==
  /\ path' = NoFile
  /\ unlinked' = (unlinked \/ path \in listening)

Spawn(d) ==
  /\ proc[d] = "unborn" /\ To(d, "stat")
  /\ build' = [build EXCEPT ![d] = ondisk]

EnsureSocketPathAvailable(d) ==
  /\ proc[d] = "stat"
  /\ To(d, CASE path = NoFile     -> "bind"
             [] path = NotASocket -> "dead"
             [] OTHER             -> "dial")
  /\ UNCHANGED <<path, listening, build, unlinked>>

Dial(d) ==
  /\ proc[d] = "dial"
  /\ To(d, IF path \in listening THEN "dead" ELSE "unlink")
  /\ UNCHANGED <<path, listening, build, unlinked>>

RemoveStale(d) ==
  /\ proc[d] = "unlink"
  /\ IF path = NoFile THEN To(d, "dead") /\ UNCHANGED <<path, unlinked>>
                      ELSE To(d, "bind") /\ UnlinkPath
  /\ UNCHANGED <<listening, build>>

ListenAnyway(d) ==   \* mutant: the bind replaces what is at the path
  /\ proc[d] = "bind"
  /\ To(d, "serving") /\ path' = d /\ listening' = listening \cup {d}
  /\ UNCHANGED <<build, unlinked>>

Listen(d) ==
  /\ proc[d] = "bind"
  /\ IF path = NoFile
       THEN To(d, "serving") /\ path' = d /\ listening' = listening \cup {d}
       ELSE To(d, "dead") /\ UNCHANGED <<path, listening>>
  /\ UNCHANGED <<build, unlinked>>

(* ctx is done.  The goroutine of startSocketServer shuts the server down,   *)
(* which closes the listener, which unlinks the path; then it removes the    *)
(* path once more.  RunServer does not wait for it: the process may be gone  *)
(* before either.                                                            *)
Signal(d) ==
  /\ proc[d] = "serving" /\ To(d, "closing")
  /\ UNCHANGED <<path, listening, build, unlinked>>

CloseListener(d) ==
  /\ proc[d] = "closing" /\ To(d, "removing")
  /\ UnlinkPath /\ listening' = listening \ {d}
  /\ UNCHANGED build

RemovePath(d) ==
  /\ proc[d] = "removing" /\ To(d, "dead")
  /\ UnlinkPath /\ UNCHANGED <<listening, build>>

(* The process is killed, or exits during its shutdown: the kernel closes    *)
(* the listener and leaves the file.                                         *)
Die(d) ==
  /\ Alive(d) /\ To(d, "dead")
  /\ listening' = listening \ {d}
  /\ UNCHANGED <<path, build, unlinked>>

DaemonStep(d) ==
  \/ EnsureSocketPathAvailable(d) \/ Dial(d) \/ RemoveStale(d) \/ Listen(d)
  \/ CloseListener(d) \/ RemovePath(d)

-------------------------------------------------------------------------------
(* The service manager.  `daemon install` writes and enables the unit and    *)
(* restarts it: a running unit gets SIGTERM and is started again once its    *)
(* process is gone, as after any other exit.                                 *)
ManagedAlive == {d \in managed : Alive(d)}

SignalManaged ==
  proc' = [d \in Daemons |-> IF d \in managed /\ proc[d] = "serving"
                               THEN "closing" ELSE proc[d]]

Install ==
  /\ installed' = TRUE /\ SignalManaged
  /\ UNCHANGED <<path, listening, build, unlinked, clientVars, managed, ondisk>>

Uninstall ==
  /\ installed /\ installed' = FALSE /\ SignalManaged
  /\ UNCHANGED <<path, listening, build, unlinked, clientVars, managed, ondisk>>

ManagerStartsOnce(d) ==   \* mutant: a unit without Restart=always
  /\ installed /\ managed = {}
  /\ Spawn(d) /\ managed' = {d}
  /\ UNCHANGED <<path, listening, unlinked, clientVars, installed, ondisk>>

ManagerStarts(d) ==
  /\ installed /\ ManagedAlive = {}
  /\ Spawn(d) /\ managed' = {d}
  /\ UNCHANGED <<path, listening, unlinked, clientVars, installed, ondisk>>

Upgrade ==
  /\ ondisk = "old" /\ ondisk' = "new"
  /\ UNCHANGED <<daemonVars, clientVars, installed, managed>>

-------------------------------------------------------------------------------
(* EnsureRunning.                                                            *)

Answered   == path \in listening
SameVersion(c) == build[path] = mine[c]
Unborn     == {d \in Daemons : proc[d] = "unborn"}

ClientGoes(c, where) == client' = [client EXCEPT ![c] = where]

(* WaitForHealthInfo for 1.2 s: a daemon that answers is used or refused.    *)
ProbeDaemon(c) ==
  /\ client[c] = "probe" /\ Answered
  /\ ClientGoes(c, IF SameVersion(c) THEN "ok" ELSE "outdated")
  /\ UNCHANGED <<daemonVars, installed, managed, ondisk, mine>>

(* Nobody answered: the installed service is started - it is already, or     *)
(* ManagerStarts follows - or else a process is spawned.                     *)
StartService(c) ==
  /\ client[c] = "probe" /\ ~ Answered /\ installed /\ ClientGoes(c, "wait")
  /\ UNCHANGED <<daemonVars, installed, managed, ondisk, mine>>

SpawnHelper(c) ==
  /\ client[c] = "probe" /\ ~ Answered /\ ~ installed
  /\ \/ \E d \in Daemons : Spawn(d) /\ ClientGoes(c, "wait")
     \/ ClientGoes(c, "failed") /\ UNCHANGED <<proc, build>>
  /\ UNCHANGED <<path, listening, unlinked, installed, managed, ondisk, mine>>

(* WaitForHealth for 25 s.                                                   *)
WaitForHealth(c) ==
  /\ client[c] = "wait" /\ ClientGoes(c, IF Answered THEN "verify" ELSE "failed")
  /\ UNCHANGED <<daemonVars, installed, managed, ondisk, mine>>

(* A daemon that stops answering before its version was seen is accepted.    *)
WaitAndVerifyDaemon(c) ==
  /\ client[c] = "verify"
  /\ ClientGoes(c, IF Answered /\ ~ SameVersion(c) THEN "outdated" ELSE "ok")
  /\ UNCHANGED <<daemonVars, installed, managed, ondisk, mine>>

(* The client asks again, or a new process of the binary on disk does.       *)
Again(c) ==
  /\ client[c] \in {"ok", "outdated", "failed"} /\ ClientGoes(c, "probe")
  /\ \E v \in {mine[c], ondisk} : mine' = [mine EXCEPT ![c] = v]
  /\ UNCHANGED <<daemonVars, installed, managed, ondisk>>

EnsureRunning(c) ==
  \/ ProbeDaemon(c) \/ StartService(c) \/ SpawnHelper(c)
  \/ WaitForHealth(c) \/ WaitAndVerifyDaemon(c)

-------------------------------------------------------------------------------
SocketNext ==
  \/ \E d \in Daemons :
       \/ /\ DaemonStep(d) \/ Signal(d) \/ Die(d)
          /\ UNCHANGED <<clientVars, installed, managed, ondisk>>
       \/ ManagerStarts(d)
  \/ Install \/ Uninstall \/ Upgrade
  \/ \E c \in Clients : EnsureRunning(c) \/ Again(c)

SocketSpec == SocketInit /\ [][SocketNext]_socketVars

(* A process that is starting or stopping goes on, the service manager       *)
(* starts what is installed, and EnsureRunning is bounded by its timeouts.   *)
StartsGoOn(d)   == DaemonStep(d) /\ UNCHANGED <<clientVars, installed, managed, ondisk>>
ManagerGoesOn   == \E d \in Daemons : ManagerStarts(d)

SocketFairness ==
  /\ \A d \in Daemons : WF_socketVars(StartsGoOn(d))
  /\ WF_socketVars(ManagerGoesOn)
  /\ \A c \in Clients : WF_socketVars(EnsureRunning(c))

SocketFairSpec == SocketSpec /\ SocketFairness

-------------------------------------------------------------------------------
(* One daemon polls the providers and answers on the socket, unless an       *)
(* unlink hit a live daemon's socket: a second daemon that found a dead      *)
(* socket removed the one a third had put in its place, or a daemon that was *)
(* shutting down removed its successor's.  docs/superpowers/plans/           *)
(* 2026-09-05-usage-simplification.md, T2: "One daemon polling".             *)
OneDaemonUnlessUnlinked == unlinked \/ \A d, e \in Serving : d = e

(* Whatever died and whatever file it left behind: while the unit is         *)
(* installed a daemon answers again, unless an unlink has hidden a live one. *)
(* Out of processes to start, or a foreign file at the path, are the         *)
(* exceptions; the first is the model's bound.                               *)
ServiceHeals ==
  (installed /\ ~ Answered)
    ~> (Answered \/ unlinked \/ ~ installed \/ Unborn = {} \/ path = NotASocket)

===============================================================================
