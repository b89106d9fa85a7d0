----------------------------- MODULE SpoolPipeline -----------------------------
(***************************************************************************)
(* The telemetry spool - a directory with one file per event whose ingest  *)
(* failed - and the flushers that work on it: the daemon's collect cycle,  *)
(* its spool maintenance loop, and hook processes that fell back to local  *)
(* ingest.  Only the collect cycle and the cleanup take the daemon's       *)
(* spoolMu; the maintenance loop flushes without it and the hook processes *)
(* cannot take it.                                                         *)
(*                                                                         *)
(* A file is identified with its name; names are numbers in the order of   *)
(* creation, which is the order of the time stamps the real names start    *)
(* with.  MarkFailed rewrites a file through <name>.tmp, a path that all   *)
(* flushers share, so the system calls of that rewrite are steps of their  *)
(* own; Append uses a name nobody else knows and is one step.  What a      *)
(* failed Ack or a failing disk does is left out.                          *)
(***************************************************************************)
EXTENDS Integers, Sequences, FiniteSets, FiniteSetsExt, Functions

CONSTANTS
  Events,      (* the telemetry events                                       *)
  Poison,      (* events the database refuses every time                     *)
  Oversized,   (* events whose line exceeds the 64 KiB of a bufio.Scanner    *)
  Daemon,      (* the daemon's flushers, {} while it is not running          *)
  Hooks,       (* hook processes                                             *)
  CollectLimit, MaintLimit,  (* 2000 and 10000 events per flush              *)
  BatchLimit,  (* 10000                                                      *)
  MaxAge, MaxFiles, (* the cleanup policy: 96 hours, 25000 files             *)
  Size, MaxBytes,   (* Events -> Nat, and 768 MiB                            *)
  MaxNow,      (* bound: where the modelled clock stops                      *)
  MaxAppends,  (* bound: files ever created                                  *)
  MaxCrashes   (* bound: flushers killed before no more process is           *)

ASSUME SpoolAssumption ==
  /\ Poison \cup Oversized \subseteq Events
  /\ Daemon \subseteq {"collect", "maint"}
  /\ Hooks \cap {"collect", "maint", "free"} = {}
  /\ IsFiniteSet(Events) /\ IsFiniteSet(Hooks)
  /\ {CollectLimit, MaintLimit, BatchLimit, MaxFiles} \subseteq Nat \ {0}
  /\ {MaxAge, MaxBytes, MaxNow, MaxAppends, MaxCrashes} \subseteq Nat
  /\ Size \in [Events -> Nat]

Actors == Daemon \cup Hooks
Free   == "free"

Names == 1 .. MaxAppends

VARIABLES
  log,     (* history: log[n] is the event written to the file named n       *)
  files,   (* the *.jsonl files: name -> inode                               *)
  tmps,    (* the *.jsonl.tmp files MarkFailed is working on: name -> inode  *)
  stored,  (* events the database has                                        *)
  dropped, (* history: events the cleanup removed                            *)
  lock,    (* the holder of spoolMu                                          *)
  pc,      (* Actors -> where the flusher is                                 *)
  todo,    (* Actors -> requests to append before the flush                  *)
  flush,   (* Actors -> [batch, budget, gain] of FlushInBatches              *)
  now,
  crashes  (* history: flushers killed at work                                *)

disk == <<files, tmps>>
spoolVars == <<log, files, tmps, stored, dropped, lock, pc, todo, flush, now, crashes>>

Inode == [mtime : Nat, blank : BOOLEAN, writers : SUBSET Actors]
PCs   == {"idle", "flush", "item", "ack", "mark", "write", "rename", "remove"}

SpoolTypeOK ==
  /\ log \in Seq(Events) /\ Len(log) <= MaxAppends
  /\ DOMAIN files \cup DOMAIN tmps \subseteq DOMAIN log
  /\ \A n \in DOMAIN files : files[n] \in Inode
  /\ \A n \in DOMAIN tmps : tmps[n] \in Inode
  /\ stored \subseteq Events /\ dropped \subseteq Events
  /\ lock \in {Free, "collect"}
  /\ pc \in [Actors -> PCs]
  /\ todo \in [Actors -> SUBSET Events]
  /\ \A a \in Actors : /\ flush[a].batch \subseteq DOMAIN log
                       /\ flush[a].budget \in Nat
                       /\ flush[a].gain \in BOOLEAN
                       /\ pc[a] \in {"ack", "mark", "write", "rename", "remove"}
                            => flush[a].batch # {}
  /\ now \in Nat /\ crashes \in Nat

NoFlush == [batch |-> {}, budget |-> 0, gain |-> FALSE]

SpoolInit ==
  /\ log = <<>>
  /\ files = << >> /\ tmps = << >>
  /\ stored = {} /\ dropped = {}
  /\ lock = Free
  /\ pc = [a \in Actors |-> "idle"]
  /\ todo = [a \in Actors |-> {}]
  /\ flush = [a \in Actors |-> NoFlush]
  /\ now = 0 /\ crashes = 0

Put(dir, n, inode) == [m \in DOMAIN dir \cup {n} |-> IF m = n THEN inode ELSE dir[m]]
Del(dir, S)        == Restrict(dir, DOMAIN dir \ S)

Goto(a, label) == pc' = [pc EXCEPT ![a] = label]
Current(a)     == Min(flush[a].batch)

-------------------------------------------------------------------------------
(* A flusher starts: the collect cycle with the requests whose direct ingest *)
(* just failed, if any, the maintenance loop with none, and a hook process   *)
(* with at least one; told to spool only, it returns without flushing.       *)
Start(a, requests, budget) ==
  /\ a \in Actors /\ pc[a] = "idle"
  /\ requests # {} => Len(log) + Cardinality(requests) <= MaxAppends
  /\ requests # {} => \A b \in Actors : todo[b] = {}
  /\ Goto(a, "flush")
  /\ todo' = [todo EXCEPT ![a] = requests]
  /\ flush' = [flush EXCEPT ![a].budget = budget]
  /\ UNCHANGED <<log, disk, stored, dropped, now, crashes>>

FlushBacklog(requests) ==
  /\ lock = Free
  /\ lock' = "collect"
  /\ Start("collect", requests, CollectLimit)

FlushSpoolBacklog == Start("maint", {}, MaintLimit) /\ UNCHANGED lock

IngestHookLocally(h, requests, spoolOnly) ==
  /\ requests # {}
  /\ Start(h, requests, IF spoolOnly THEN 0 ELSE Cardinality(requests))
  /\ UNCHANGED lock

(* EnqueueRequests: one Append, and the Append that fails, which ends the    *)
(* enqueueing; the collect cycle then still flushes, a hook process returns. *)
Append_(a, e) ==
  /\ pc[a] = "flush" /\ e \in todo[a]
  /\ log' = Append(log, e)
  /\ files' = Put(files, Len(log) + 1, [mtime |-> now, blank |-> FALSE, writers |-> {}])
  /\ todo' = [todo EXCEPT ![a] = @ \ {e}]
  /\ UNCHANGED <<tmps, stored, dropped, lock, pc, flush, now, crashes>>

AppendFails(a) ==
  /\ pc[a] = "flush" /\ todo[a] # {}
  /\ todo' = [todo EXCEPT ![a] = {}]
  /\ IF a \in Hooks
     THEN Goto(a, "idle") /\ flush' = [flush EXCEPT ![a] = NoFlush]
     ELSE UNCHANGED <<pc, flush>>
  /\ UNCHANGED <<log, disk, stored, dropped, lock, now, crashes>>

-------------------------------------------------------------------------------
(* FlushInBatches.  readSpoolFile accepts a file with a complete first line. *)
Readable(n) == n \in DOMAIN files /\ ~ files[n].blank /\ log[n] \notin Oversized

(* ReadOldest, taken as one look at the directory.                           *)
Oldest(limit) ==
  LET good == {n \in DOMAIN files : Readable(n)}
  IN  {n \in good : Cardinality({m \in good : m < n}) < limit}

NextBatch(a) == Oldest(IF flush[a].budget < BatchLimit THEN flush[a].budget ELSE BatchLimit)

ReadOldest(a) ==
  /\ pc[a] = "flush" /\ todo[a] = {}
  /\ NextBatch(a) # {}
  /\ flush' = [flush EXCEPT ![a] = [batch  |-> NextBatch(a),
                                    budget |-> @.budget - Cardinality(NextBatch(a)),
                                    gain   |-> FALSE]]
  /\ Goto(a, "item")
  /\ UNCHANGED <<log, disk, stored, dropped, lock, todo, now, crashes>>

(* After a batch: once more if it got anything into the database.            *)
BatchDone(a) ==
  /\ pc[a] = "item" /\ flush[a].batch = {} /\ flush[a].gain
  /\ Goto(a, "flush")
  /\ UNCHANGED <<log, disk, stored, dropped, lock, todo, flush, now, crashes>>

FlushDone(a) ==
  /\ \/ pc[a] = "flush" /\ todo[a] = {} /\ NextBatch(a) = {}
     \/ pc[a] = "item" /\ flush[a].batch = {} /\ ~ flush[a].gain
  /\ Goto(a, "idle")
  /\ flush' = [flush EXCEPT ![a] = NoFlush]
  /\ lock' = IF a = "collect" THEN Free ELSE lock
  /\ UNCHANGED <<log, disk, stored, dropped, todo, now, crashes>>

(* Pipeline.Flush, for the oldest event of the batch, read into memory.      *)
IngestOK(a, e) ==
  /\ pc[a] = "item" /\ flush[a].batch # {}
  /\ e = log[Current(a)] /\ e \notin Poison
  /\ stored' = stored \cup {e}
  /\ flush' = [flush EXCEPT ![a].gain = TRUE]
  /\ Goto(a, "ack")
  /\ UNCHANGED <<log, disk, dropped, lock, todo, now, crashes>>

IngestFails(a) ==
  /\ pc[a] = "item" /\ flush[a].batch # {}
  /\ Goto(a, "mark")
  /\ UNCHANGED <<log, disk, stored, dropped, lock, todo, flush, now, crashes>>

NextItemSamePlace(a) ==   \* mutant: the flusher stays where it is
  /\ UNCHANGED pc
  /\ flush' = [flush EXCEPT ![a].batch = @ \ {Current(a)}]

NextItemOrGiveUp(a) ==   \* mutant: a failure abandons the rest of the batch
  /\ Goto(a, "item")
  /\ flush' = [flush EXCEPT ![a].batch = IF flush[a].gain THEN @ \ {Current(a)} ELSE {}]

NextItem(a) ==
  /\ Goto(a, "item")
  /\ flush' = [flush EXCEPT ![a].batch = @ \ {Current(a)}]

AckDropsNext(a) ==   \* mutant: acknowledges a path other than the one ingested
  /\ pc[a] = "ack"
  /\ files' = Del(files, {Current(a) + 1})
  /\ NextItem(a)
  /\ UNCHANGED <<log, tmps, stored, dropped, lock, todo, now, crashes>>

Ack(a) ==
  /\ pc[a] = "ack"
  /\ files' = Del(files, {Current(a)})
  /\ NextItem(a)
  /\ UNCHANGED <<log, tmps, stored, dropped, lock, todo, now, crashes>>

(* MarkFailed: read the file; open and truncate the temporary file, which    *)
(* another flusher may have open; write it; rename it; and, deferred, remove *)
(* whatever then has the temporary name.                                     *)
MarkFailedUnreadable(a) ==
  /\ pc[a] = "mark" /\ ~ Readable(Current(a))
  /\ NextItem(a)
  /\ UNCHANGED <<log, disk, stored, dropped, lock, todo, now, crashes>>

OpenTmp(a) ==
  LET n      == Current(a)
      others == IF n \in DOMAIN tmps THEN tmps[n].writers ELSE {}
  IN  /\ pc[a] = "mark" /\ Readable(n)
      /\ tmps' = Put(tmps, n, [mtime |-> now, blank |-> TRUE, writers |-> others \cup {a}])
      /\ Goto(a, "write")
      /\ UNCHANGED <<log, files, stored, dropped, lock, todo, flush, now, crashes>>

Written(a, dir) ==
  [n \in DOMAIN dir |-> IF a \in dir[n].writers
                        THEN [mtime |-> now, blank |-> FALSE, writers |-> dir[n].writers \ {a}]
                        ELSE dir[n]]

WriteTmp(a) ==
  /\ pc[a] = "write"
  /\ tmps' = Written(a, tmps) /\ files' = Written(a, files)
  /\ Goto(a, "rename")
  /\ UNCHANGED <<log, stored, dropped, lock, todo, flush, now, crashes>>

RenameTmpRemovesFirst(a) ==   \* mutant: the file goes before the rename
  LET n == Current(a)
  IN  /\ pc[a] = "rename"
      /\ IF n \in DOMAIN tmps
         THEN files' = Put(files, n, tmps[n]) /\ tmps' = Del(tmps, {n})
         ELSE files' = Del(files, {n}) /\ tmps' = tmps
      /\ Goto(a, "remove")
      /\ UNCHANGED <<log, stored, dropped, lock, todo, flush, now, crashes>>

RenameTmp(a) ==
  LET n == Current(a)
  IN  /\ pc[a] = "rename"
      /\ IF n \in DOMAIN tmps
         THEN files' = Put(files, n, tmps[n]) /\ tmps' = Del(tmps, {n})
         ELSE UNCHANGED disk
      /\ Goto(a, "remove")
      /\ UNCHANGED <<log, stored, dropped, lock, todo, flush, now, crashes>>

RemoveTmp(a) ==
  /\ pc[a] = "remove"
  /\ tmps' = Del(tmps, {Current(a)})
  /\ NextItem(a)
  /\ UNCHANGED <<log, files, stored, dropped, lock, todo, now, crashes>>

-------------------------------------------------------------------------------
(* Spool.Cleanup, run by the maintenance loop between its flushes: files not *)
(* modified for MaxAge go, then the oldest, by name, until count and size    *)
(* are within the limits.                                                    *)
Bytes(S) == Cardinality(UNION {{n} \X (1 .. Size[log[n]]) : n \in S})

Expired == {n \in DOMAIN files : now - files[n].mtime > MaxAge}

ExcessNewest ==   \* mutant: the newest files go first
  LET kept == DOMAIN files \ Expired
      upTo(n) == {m \in kept : m <= n}
  IN  {n \in kept : Cardinality(upTo(n)) > MaxFiles \/ Bytes(upTo(n)) > MaxBytes}

Excess == LET kept == DOMAIN files \ Expired
              from(n) == {m \in kept : m >= n}
          IN  {n \in kept : Cardinality(from(n)) > MaxFiles \/ Bytes(from(n)) > MaxBytes}

Cleanup ==
  /\ "maint" \in Daemon /\ pc["maint"] = "idle" /\ lock = Free
  /\ Expired \cup Excess # {}
  /\ files' = Del(files, Expired \cup Excess)
  /\ dropped' = dropped \cup {log[n] : n \in Expired \cup Excess}
  /\ UNCHANGED <<log, tmps, stored, lock, pc, todo, flush, now, crashes>>

ClockTicks ==
  /\ now < MaxNow
  /\ now' = now + 1
  /\ UNCHANGED <<log, disk, stored, dropped, lock, pc, todo, flush, crashes>>

(* The daemon or a hook process is killed; its open files are closed.        *)
Close(dir, A) == [n \in DOMAIN dir |-> [dir[n] EXCEPT !.writers = @ \ A]]

Kill(A) ==
  /\ crashes < MaxCrashes
  /\ \E a \in A : pc[a] # "idle"
  /\ crashes' = crashes + Cardinality({a \in A : pc[a] # "idle"})
  /\ pc' = [a \in Actors |-> IF a \in A THEN "idle" ELSE pc[a]]
  /\ todo' = [a \in Actors |-> IF a \in A THEN {} ELSE todo[a]]
  /\ flush' = [a \in Actors |-> IF a \in A THEN NoFlush ELSE flush[a]]
  /\ lock' = IF lock \in A THEN Free ELSE lock
  /\ files' = Close(files, A) /\ tmps' = Close(tmps, A)
  /\ UNCHANGED <<log, stored, dropped, now>>

-------------------------------------------------------------------------------
FlushStep(a) ==
  \/ \E e \in Events : Append_(a, e) \/ IngestOK(a, e)
  \/ AppendFails(a) \/ ReadOldest(a) \/ BatchDone(a) \/ FlushDone(a)
  \/ IngestFails(a) \/ Ack(a) \/ MarkFailedUnreadable(a)
  \/ OpenTmp(a) \/ WriteTmp(a) \/ RenameTmp(a) \/ RemoveTmp(a)

SpoolNext ==
  \/ \E requests \in SUBSET Events : \/ FlushBacklog(requests)
                                     \/ \E h \in Hooks, spoolOnly \in BOOLEAN :
                                          IngestHookLocally(h, requests, spoolOnly)
  \/ FlushSpoolBacklog
  \/ \E a \in Actors : FlushStep(a)
  \/ Cleanup
  \/ ClockTicks
  \/ \E A \in {Daemon} \cup {{h} : h \in Hooks} : Kill(A)

SpoolSpec == SpoolInit /\ [][SpoolNext]_spoolVars

(* The loops of the daemon keep running, a flush once started goes on, and   *)
(* the database does not refuse an acceptable event for ever.                *)
SpoolFairness ==
  /\ WF_spoolVars(FlushSpoolBacklog)
  /\ \A a \in Actors : WF_spoolVars(FlushStep(a))
  /\ \A e \in Events : SF_spoolVars(IngestOK("maint", e))

SpoolFairSpec == SpoolSpec /\ SpoolFairness

-------------------------------------------------------------------------------
(* The files whose event a flusher can still read, now or once the writer    *)
(* that truncated the file has written it.                                   *)
Recoverable == {n \in DOMAIN files : files[n].blank => files[n].writers # {}}

(* An event put into the spool is in the database, was given up by the       *)
(* cleanup policy, or is still in its file - though flushers read, rewrite,  *)
(* acknowledge and remove the same files, and share their temporary names.   *)
(* docs/user-flow-diagram.md: a hook writes to the spool "so no usage data   *)
(* is ever lost".                                                            *)
NothingLost ==
  \A n \in DOMAIN log : log[n] \in stored \cup dropped \/ n \in Recoverable

(* Killing processes at the worst moment - a flusher has truncated the       *)
(* shared temporary file and another has renamed it over the original -      *)
(* costs at most one event for each flusher that was killed at work.         *)
Lost == {n \in DOMAIN log : log[n] \notin stored \cup dropped /\ n \notin Recoverable}

LossIsBounded == Cardinality(Lost) <= crashes

(* The spool implements Delivery: every system call of every flusher is one  *)
(* of its steps or none.                                                     *)
D == INSTANCE Delivery WITH owed      <- {log[n] : n \in Recoverable},
                            delivered <- stored,
                            givenUp   <- dropped

DeliverySpec == D!Spec

(* After a cleanup the directory is within its limits.  A file that went had *)
(* not been rewritten by any flusher for MaxAge, or it is older than every   *)
(* file kept and the limits do not admit it beside the newer ones.           *)
WithinLimits(S) == Cardinality(S) <= MaxFiles /\ Bytes(S) <= MaxBytes

CleanupKeepsTheNewest ==
  [][Cleanup =>
       /\ WithinLimits(DOMAIN files')
       /\ \A n \in DOMAIN files \ DOMAIN files' :
            \/ now - files[n].mtime > MaxAge
            \/ /\ \A m \in DOMAIN files' : m > n
               /\ ~ WithinLimits({m \in DOMAIN files : m >= n /\ now - files[m].mtime <= MaxAge})]_spoolVars

(* An event that the database accepts and a line can hold is delivered, if   *)
(* the cleanup does not give it up and no crash destroys its file: neither   *)
(* the events that keep failing nor the other flushers starve it.            *)
EventuallyDelivered ==
  \A n \in Names :
    n \in DOMAIN log /\ log[n] \notin Poison \cup Oversized
      ~> n \in DOMAIN log /\ (log[n] \in stored \cup dropped \/ n \in Lost)

===============================================================================
