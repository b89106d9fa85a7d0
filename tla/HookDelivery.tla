----------------------------- MODULE HookDelivery -----------------------------
(***************************************************************************)
(* How one hook event of a coding assistant reaches the database, by each  *)
(* of its three ways, while the daemon crashes and restarts:               *)
(*   - the shell hooks of Claude Code and Codex write a file straight into *)
(*     the hook spool;                                                     *)
(*   - the OpenCode plugin writes a request to the socket, closes the      *)
(*     connection without reading the answer, and spools (a temporary file *)
(*     and a rename) only when it could not write;                         *)
(*   - `agentusage daemon hook` posts to the socket, reads the answer, and *)
(*     falls back to the database and the telemetry spool.                 *)
(* The daemon's hook spool loop reads the files and cleans the directory.  *)
(* Each sender has one event and is identified with it.  A file is known   *)
(* by its name; the order of names is the order the daemon lists them in,  *)
(* which for the shell hooks' $$$RANDOM is not the order of creation.  The *)
(* telemetry spool is SpoolPipeline's: an event in it counts as delivered. *)
(***************************************************************************)
EXTENDS Integers, FiniteSets, Functions

CONSTANTS
  Scripts, Plugins, Commands, (* the senders of the three kinds              *)
  Names,       (* bound: file names of the hook spool, numbers               *)
  BatchLimit,  (* hookSpoolBatchLimit, 200                                   *)
  MaxFiles,    (* 500                                                        *)
  MaxAge,      (* 24 hours                                                   *)
  MaxNow,      (* bound: where the clock stops                               *)
  MaxCrashes   (* bound: deaths of the daemon                                *)

Senders == Scripts \cup Plugins \cup Commands

VARIABLES
  sender,   (* Senders -> where the sender is                                *)
  requests, (* plugins whose request is in the socket, its connection closed *)
  spool,    (* the *.json files: name -> [by, whole, mtime]                  *)
  tmps,     (* the *.json.tmp files: name -> sender                          *)
  stored,   (* events in the database or in the telemetry spool              *)
  up,       (* the daemon is running                                         *)
  batch,    (* the names processHookSpool has still to visit                 *)
  reading,  (* the names it has ingested or given up and has yet to remove   *)
  fate,     (* history: Senders -> why the event was given up                *)
  now, crashes

hookVars == <<sender, requests, spool, tmps, stored, up, batch, reading, fate, now, crashes>>

Init ==
  /\ sender = [s \in Senders |-> "idle"]
  /\ requests = {} /\ spool = <<>> /\ tmps = <<>> /\ stored = {}
  /\ up \in BOOLEAN /\ batch = {} /\ reading = {}
  /\ fate = [s \in Senders |-> "none"]
  /\ now = 0 /\ crashes = 0

-------------------------------------------------------------------------------
Goes(s, where) == sender' = [sender EXCEPT ![s] = where]
Without(f, N)  == Restrict(f, DOMAIN f \ N)
With(f, N, x)  == [n \in DOMAIN f \cup N |-> IF n \in N THEN x ELSE f[n]]
Free(n)        == n \notin DOMAIN spool /\ n \notin DOMAIN tmps

(* The file's event will not be read any more, unless it is stored already.  *)
GivenUp(N, why) ==
  fate' = [s \in Senders |->
             IF \E n \in N : spool[n].by = s THEN why ELSE fate[s]]

DaemonSame == UNCHANGED <<up, batch, reading, now, crashes>>

(* The shell opens the file before it writes: the file exists empty.         *)
ScriptOpen(s) ==
  /\ sender[s] = "idle" /\ Goes(s, "opened")
  /\ \E n \in Names : /\ Free(n)
                      /\ spool' = With(spool, {n}, [by |-> s, whole |-> FALSE, mtime |-> now])
  /\ DaemonSame /\ UNCHANGED <<requests, tmps, stored, fate>>

(* It writes to the file it opened, which may have been removed.             *)
ScriptWrite(s) ==
  /\ sender[s] = "opened" /\ Goes(s, "done")
  /\ spool' = [n \in DOMAIN spool |->
                 IF spool[n].by = s THEN [spool[n] EXCEPT !.whole = TRUE, !.mtime = now]
                                    ELSE spool[n]]
  /\ DaemonSame /\ UNCHANGED <<requests, tmps, stored, fate>>

(* postToSocket: once the request is written the plugin is done.  A daemon   *)
(* too slow to take the connection leaves it to the fallback, and may read   *)
(* the request later all the same.                                           *)
PostToSocket(s) ==
  /\ sender[s] = "idle"
  /\ \/ up /\ requests' = requests \cup {s} /\ \E w \in {"done", "spool"} : Goes(s, w)
     \/ ~ up /\ Goes(s, "spool") /\ UNCHANGED requests
  /\ DaemonSame /\ UNCHANGED <<spool, tmps, stored, fate>>

SpoolToDisk(s) ==
  /\ sender[s] = "spool"
  /\ IF Cardinality(DOMAIN spool) >= MaxFiles
       THEN /\ Goes(s, "done") /\ fate' = [fate EXCEPT ![s] = "full"]
            /\ UNCHANGED tmps
       ELSE /\ Goes(s, "rename") /\ UNCHANGED fate
            /\ \E n \in Names : Free(n) /\ tmps' = With(tmps, {n}, s)
  /\ DaemonSame /\ UNCHANGED <<requests, spool, stored>>

RenameTmp(s) ==
  /\ sender[s] = "rename" /\ Goes(s, "done")
  /\ LET mine == {n \in DOMAIN tmps : tmps[n] = s} IN
       /\ spool' = With(spool, mine, [by |-> s, whole |-> TRUE, mtime |-> now])
       /\ tmps' = Without(tmps, mine)
       /\ fate' = IF mine = {} THEN [fate EXCEPT ![s] = "swept"] ELSE fate
  /\ DaemonSame /\ UNCHANGED <<requests, stored>>

IngestHookWithoutFallback(s) ==   \* mutant: no answer in time ends the command
  /\ sender[s] = "idle" /\ Goes(s, "done")
  /\ \/ stored' = stored \cup {s} \/ UNCHANGED stored
  /\ DaemonSame /\ UNCHANGED <<requests, spool, tmps, fate>>

(* The command: the daemon ingests and answers 200 whether or not the        *)
(* database took the event; no answer within 5 s, and the daemon may or may  *)
(* not have ingested it, leads to the local fallback.                        *)
IngestHook(s) ==
  /\ sender[s] = "idle"
  /\ \/ up /\ Goes(s, "done") /\ stored' = stored \cup {s} /\ UNCHANGED fate
     \/ up /\ Goes(s, "done") /\ fate' = [fate EXCEPT ![s] = "refused"] /\ UNCHANGED stored
     \/ up /\ Goes(s, "local") /\ stored' = stored \cup {s} /\ UNCHANGED fate
     \/ Goes(s, "local") /\ UNCHANGED <<stored, fate>>
  /\ DaemonSame /\ UNCHANGED <<requests, spool, tmps>>

(* IngestHookLocally: the database, then the telemetry spool; with neither   *)
(* the command fails, or reports one failed event.                           *)
IngestHookLocally(s) ==
  /\ sender[s] = "local" /\ Goes(s, "done")
  /\ \/ stored' = stored \cup {s} /\ UNCHANGED fate
     \/ fate' = [fate EXCEPT ![s] = "failed"] /\ UNCHANGED stored
  /\ DaemonSame /\ UNCHANGED <<requests, spool, tmps>>

-------------------------------------------------------------------------------
(* The daemon.                                                               *)

(* ingestBatch under the request's context, which ends as soon as the server *)
(* sees the connection closed: the plugin has closed it already, and whether *)
(* the ingest or the cancellation comes first is open.                       *)
HandleHook(s) ==
  /\ up /\ s \in requests /\ requests' = requests \ {s}
  /\ \/ stored' = stored \cup {s} /\ UNCHANGED fate
     \/ fate' = [fate EXCEPT ![s] = "refused"] /\ UNCHANGED stored
  /\ UNCHANGED <<sender, spool, tmps, up, batch, reading, now, crashes>>

Idle == batch = {} /\ reading = {}

Oldest(S, k) == {n \in S : Cardinality({m \in S : m < n}) < k}

(* processHookSpool lists the directory in the order of names, ...           *)
ListHookSpool ==
  /\ up /\ Idle /\ DOMAIN spool # {}
  /\ batch' = Oldest(DOMAIN spool, BatchLimit)
  /\ UNCHANGED <<sender, requests, spool, tmps, stored, up, reading, fate, now, crashes>>

IngestFileLeavesHalf(n) ==   \* mutant: what is not all there is left for later
  /\ up /\ reading = {} /\ n \in batch /\ \A m \in batch : n <= m
  /\ batch' = batch \ {n}
  /\ IF n \in DOMAIN spool /\ spool[n].whole
       THEN reading' = {n} /\ stored' = stored \cup {spool[n].by}
       ELSE UNCHANGED <<reading, stored>>
  /\ UNCHANGED <<sender, requests, spool, tmps, up, fate, now, crashes>>

(* ... and of each file ingests the event, if it is all there, ...           *)
IngestFile(n) ==
  /\ up /\ reading = {} /\ n \in batch /\ \A m \in batch : n <= m
  /\ batch' = batch \ {n}
  /\ reading' = {n}
  /\ CASE n \notin DOMAIN spool -> UNCHANGED <<stored, fate>>
       [] n \in DOMAIN spool /\ ~ spool[n].whole ->
            GivenUp({n}, "half") /\ UNCHANGED stored
       [] OTHER -> \/ stored' = stored \cup {spool[n].by} /\ UNCHANGED fate
                   \/ GivenUp({n}, "refused") /\ UNCHANGED stored
  /\ UNCHANGED <<sender, requests, spool, tmps, up, now, crashes>>

(* ... and removes the file, in each case.                                   *)
RemoveFile ==
  /\ up /\ reading # {} /\ reading' = {}
  /\ spool' = Without(spool, reading)
  /\ UNCHANGED <<sender, requests, tmps, stored, up, batch, fate, now, crashes>>

(* cleanupHookSpool, between two rounds: the files past their age, then the  *)
(* first in the order of names beyond MaxFiles, and every temporary file.    *)
CleanupHookSpool ==
  /\ up /\ Idle
  /\ LET old  == {n \in DOMAIN spool : now - spool[n].mtime > MaxAge}
         kept == DOMAIN spool \ old
         over == Oldest(kept, Cardinality(kept) - MaxFiles)
     IN /\ old \cup over # {} \/ tmps # <<>>
        /\ spool' = Without(spool, old \cup over)
        /\ tmps' = <<>>
        /\ GivenUp(old \cup over, "evicted")
  /\ UNCHANGED <<sender, requests, stored, up, batch, reading, now, crashes>>

Tick ==
  /\ now < MaxNow /\ now' = now + 1
  /\ UNCHANGED <<sender, requests, spool, tmps, stored, up, batch, reading, fate, crashes>>

Crash ==
  /\ up /\ crashes < MaxCrashes /\ up' = FALSE /\ crashes' = crashes + 1
  /\ batch' = {} /\ reading' = {} /\ requests' = {}
  /\ fate' = [s \in Senders |-> IF s \in requests THEN "unread" ELSE fate[s]]
  /\ UNCHANGED <<sender, spool, tmps, stored, now>>

Restart ==
  /\ ~ up /\ up' = TRUE
  /\ UNCHANGED <<sender, requests, spool, tmps, stored, batch, reading, fate, now, crashes>>

SenderStep ==
  \/ \E s \in Scripts : ScriptOpen(s) \/ ScriptWrite(s)
  \/ \E s \in Plugins : PostToSocket(s) \/ SpoolToDisk(s) \/ RenameTmp(s)
  \/ \E s \in Commands : IngestHook(s) \/ IngestHookLocally(s)

ProcessHookSpool == ListHookSpool \/ RemoveFile \/ \E n \in Names : IngestFile(n)

Next ==
  \/ SenderStep \/ ProcessHookSpool \/ CleanupHookSpool
  \/ \E s \in Plugins : HandleHook(s)
  \/ Tick \/ Crash \/ Restart

Spec == Init /\ [][Next]_hookVars

(* The hook spool loop ticks every 5 s and the service manager restarts the  *)
(* daemon.                                                                   *)
Fairness == WF_hookVars(ProcessHookSpool) /\ WF_hookVars(Restart)

FairSpec == Spec /\ Fairness

-------------------------------------------------------------------------------
InFile(s) == \E n \in DOMAIN spool : spool[n].by = s /\ (spool[n].whole \/ sender[s] = "opened")

Delivered(s) == s \in stored \/ s \in requests \/ InFile(s) \/ sender[s] # "done"

(* Every way an event of each kind of sender can vanish.  A shell hook's     *)
(* file can be read half written, a plugin's only be swept before its rename *)
(* or not be accepted; both can be evicted; a command loses nothing to files *)
(* or crashes, only when the daemon could not ingest and said 200, or its    *)
(* own fallback failed.  A daemon that crashes anywhere between ingest and   *)
(* removal loses nothing.                                                    *)
LossIsExplained ==
  /\ \A s \in Scripts  : Delivered(s) \/ fate[s] \in {"half", "refused", "evicted"}
  /\ \A s \in Plugins  : Delivered(s) \/ fate[s] \in {"refused", "unread", "full", "swept", "evicted"}
  /\ \A s \in Commands : Delivered(s) \/ fate[s] \in {"refused", "failed"}

(* No file stays in the hook spool for ever, whatever is in it.              *)
HookFilesAreConsumed ==
  \A n \in Names : n \in DOMAIN spool ~> n \notin DOMAIN spool

===============================================================================
