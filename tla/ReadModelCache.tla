---------------------------- MODULE ReadModelCache ----------------------------
(***************************************************************************)
(* The daemon's cached read model: who recomputes the view of the          *)
(* telemetry database that clients are served, and when.  Ingests commit   *)
(* and then mark the arrival of data; the cache loop, the poll cycle and   *)
(* the requests of clients compute views - slowly, outside every lock -    *)
(* and store them.                                                         *)
(*                                                                         *)
(* The database is the number of ingests committed so far, and a view is   *)
(* the number of those it was computed from; Failed is the view without    *)
(* data that computeReadModel falls back to when its query fails, and the  *)
(* view of an empty database has nothing usable either.  The time stamps   *)
(* lastIngestAt and updatedAt are only ever compared with each other:      *)
(* "since" says that a mark came after the entry, and the entries are kept *)
(* in the order of updatedAt.  A handler's look at its entry and at        *)
(* lastIngestAt is taken as one step.                                      *)
(***************************************************************************)
EXTENDS Integers, Sequences, FiniteSets, SequencesExt

CONSTANTS
  Keys,        (* request keys: accounts and time window                     *)
  ConfigKey,   (* the key of the configured request, which the loops refresh *)
  Clients,
  HooksOverHTTP, (* whether hooks are ingested through the daemon's socket   *)
  MaxEntries,  (* 50                                                         *)
  MaxData,     (* bound: ingests                                             *)
  MaxFailures  (* bound: failing computations                                *)

ASSUME CacheAssumption ==
  /\ ConfigKey \in Keys
  /\ HooksOverHTTP \in BOOLEAN
  /\ MaxEntries \in Nat \ {0}
  /\ {MaxData, MaxFailures} \subseteq Nat

Failed == -1

VARIABLES
  data,         (* ingests committed                                         *)
  unmarked,     (* an ingester has committed and not yet marked              *)
  dataIngested, (* the flag the cache loop consumes                          *)
  cache,        (* the entries, least recently updated first                 *)
  inFlight,     (* keys with a refresh under way                             *)
  jobs,         (* the refresh goroutines                                    *)
  poll,         (* the poll cycle                                            *)
  client,       (* Clients -> the handler serving the client                 *)
  failures      (* history                                                   *)

ingestVars == <<data, unmarked>>
workVars   == <<inFlight, jobs>>
vars == <<data, unmarked, dataIngested, cache, inFlight, jobs, poll, client,
          failures>>

Views  == Failed .. MaxData
Entry  == [key : Keys, view : Views, since : BOOLEAN, byRefresh : BOOLEAN]
Job    == [key : Keys, stage : {"compute", "set", "end"}, view : Views]
Worker == [key : Keys, stage : {"idle", "compute", "set"}, view : Views]

CachedKeys == {cache[i].key : i \in DOMAIN cache}
EntryOf(k) == CHOOSE e \in Range(cache) : e.key = k

TypeOK ==
  /\ data \in 0 .. MaxData
  /\ unmarked \in BOOLEAN /\ dataIngested \in BOOLEAN
  /\ cache \in Seq(Entry) /\ Len(cache) <= MaxEntries
  /\ Cardinality(CachedKeys) = Len(cache)
  /\ jobs \subseteq Job /\ inFlight = {j.key : j \in jobs}
  /\ poll \in Worker /\ client \in [Clients -> Worker]
  /\ failures \in 0 .. MaxFailures

Resting == [key |-> ConfigKey, stage |-> "idle", view |-> Failed]

(* The loop marks and starts a refresh before it first waits.                *)
Init ==
  /\ data = 0
  /\ unmarked = FALSE /\ dataIngested = TRUE
  /\ cache = <<>>
  /\ inFlight = {ConfigKey}
  /\ jobs = {[key |-> ConfigKey, stage |-> "compute", view |-> Failed]}
  /\ poll = Resting
  /\ client = [c \in Clients |-> Resting]
  /\ failures = 0

-------------------------------------------------------------------------------
(* The steps everybody shares.                                               *)
Marked(entries) == [i \in DOMAIN entries |-> [entries[i] EXCEPT !.since = TRUE]]

markDataIngested ==
  /\ dataIngested' = TRUE
  /\ cache' = Marked(cache)

(* readModelCache.set: the entry becomes the newest; beyond the limit, those *)
(* older than five minutes go, however many, and then the oldest.            *)
Kept(entries) ==
  IF Len(entries) <= MaxEntries THEN {entries}
  ELSE {SubSeq(entries, i, Len(entries)) : i \in Len(entries) - MaxEntries + 1 .. Len(entries)}

Others(entries, k) ==
  LET held == {i \in DOMAIN entries : entries[i].key = k}
  IN  IF held = {} THEN entries ELSE RemoveAt(entries, CHOOSE i \in held : TRUE)

Set(k, view, byRefresh) ==
  cache' \in Kept(Append(Others(cache, k),
                         [key |-> k, view |-> view, since |-> FALSE, byRefresh |-> byRefresh]))

StartJob(k) ==
  /\ inFlight' = inFlight \cup {k}
  /\ jobs' = jobs \cup {[key |-> k, stage |-> "compute", view |-> Failed]}

BeginUnguarded(k) == StartJob(k)   \* mutant: a refresh under way is not noticed

(* refreshReadModelCacheAsync: at most one refresh of a key is under way.    *)
Begin(k) == IF k \in inFlight THEN UNCHANGED workVars ELSE StartJob(k)

(* computeReadModel reads the database, or cannot.                           *)
Compute(view) ==
  \/ view = data /\ UNCHANGED failures
  \/ view = Failed /\ failures < MaxFailures /\ failures' = failures + 1

-------------------------------------------------------------------------------
(* Ingests.  The collect cycle and the spool loops mark after they have      *)
(* committed; handleHook never does; the file watcher marks without having   *)
(* ingested anything.                                                        *)
IngestCommitted ==
  /\ data < MaxData
  /\ data' = data + 1 /\ unmarked' = TRUE
  /\ UNCHANGED <<dataIngested, cache, workVars, poll, client, failures>>

HookCommitted ==
  /\ HooksOverHTTP /\ data < MaxData
  /\ data' = data + 1
  /\ UNCHANGED <<unmarked, dataIngested, cache, workVars, poll, client, failures>>

IngestMarked ==
  /\ unmarked /\ unmarked' = FALSE
  /\ markDataIngested
  /\ UNCHANGED <<data, workVars, poll, client, failures>>

FileChanged ==
  /\ markDataIngested
  /\ UNCHANGED <<ingestVars, workVars, poll, client, failures>>

-------------------------------------------------------------------------------
(* runReadModelCacheLoop, a tick: the flag is consumed whether or not the    *)
(* refresh can begin.                                                        *)
LoopTick ==
  /\ dataIngested /\ dataIngested' = FALSE
  /\ Begin(ConfigKey)
  /\ UNCHANGED <<ingestVars, cache, poll, client, failures>>

(* The goroutine of refreshReadModelCacheAsync.                              *)
RefreshComputes(j) ==
  /\ j \in jobs /\ j.stage = "compute"
  /\ \E view \in Views :
       /\ Compute(view)
       /\ jobs' = (jobs \ {j}) \cup {[j EXCEPT !.stage = "set", !.view = view]}
  /\ UNCHANGED <<ingestVars, dataIngested, cache, inFlight, poll, client>>

RefreshSets(j) ==
  /\ j \in jobs /\ j.stage = "set"
  /\ Set(j.key, j.view, TRUE)
  /\ jobs' = (jobs \ {j}) \cup {[j EXCEPT !.stage = "end", !.view = Failed]}
  /\ UNCHANGED <<ingestVars, dataIngested, inFlight, poll, client, failures>>

RefreshEndsNot(j) ==   \* mutant: endRefresh is forgotten
  /\ j \in jobs /\ j.stage = "end"
  /\ UNCHANGED inFlight
  /\ jobs' = jobs \ {j}
  /\ UNCHANGED <<ingestVars, dataIngested, cache, poll, client, failures>>

RefreshEnds(j) ==
  /\ j \in jobs /\ j.stage = "end"
  /\ inFlight' = inFlight \ {j.key}
  /\ jobs' = jobs \ {j}
  /\ UNCHANGED <<ingestVars, dataIngested, cache, poll, client, failures>>

(* The end of pollProviders: mark, then publishReadModelSync.                *)
PollMarks ==
  /\ poll.stage = "idle"
  /\ markDataIngested
  /\ poll' = [poll EXCEPT !.stage = "compute"]
  /\ UNCHANGED <<ingestVars, workVars, client, failures>>

PollComputes ==
  /\ poll.stage = "compute"
  /\ \E view \in Views : /\ Compute(view)
                         /\ poll' = [poll EXCEPT !.stage = "set", !.view = view]
  /\ UNCHANGED <<ingestVars, dataIngested, cache, workVars, client>>

PollSets ==
  /\ poll.stage = "set"
  /\ Set(ConfigKey, poll.view, FALSE)
  /\ poll' = Resting
  /\ UNCHANGED <<ingestVars, dataIngested, workVars, client, failures>>

-------------------------------------------------------------------------------
(* handleReadModel.  A cached entry is served as it is, which is no step of  *)
(* this module; when data came in since and the entry is more than two       *)
(* seconds old, a refresh is begun.                                          *)
HitStale(c, k) ==
  /\ client[c].stage = "idle" /\ k \in CachedKeys /\ EntryOf(k).since
  /\ Begin(k)
  /\ UNCHANGED <<ingestVars, dataIngested, cache, poll, client, failures>>

(* A miss, or a request with "refresh": the handler computes.                *)
Miss(c, k, refresh) ==
  /\ client[c].stage = "idle" /\ (refresh \/ k \notin CachedKeys)
  /\ client' = [client EXCEPT ![c] = [key |-> k, stage |-> "compute", view |-> Failed]]
  /\ UNCHANGED <<ingestVars, dataIngested, cache, workVars, poll, failures>>

ClientComputes(c) ==
  /\ client[c].stage = "compute"
  /\ \E view \in Views :
       /\ Compute(view)
       /\ client' = [client EXCEPT ![c].stage = "set", ![c].view = view]
  /\ UNCHANGED <<ingestVars, dataIngested, cache, workVars, poll>>

AnswerComputed(c) ==
  /\ client[c].stage = "set" /\ client[c].view > 0
  /\ Set(client[c].key, client[c].view, FALSE)
  /\ client' = [client EXCEPT ![c] = Resting]
  /\ UNCHANGED <<ingestVars, dataIngested, workVars, poll, failures>>

UsableCached(k) == k \in CachedKeys /\ EntryOf(k).view > 0

AnswerCached(c) ==
  LET k == client[c].key
  IN  /\ client[c].stage = "set" /\ client[c].view <= 0 /\ UsableCached(k)
      /\ client' = [client EXCEPT ![c] = Resting]
      /\ UNCHANGED <<ingestVars, dataIngested, cache, workVars, poll, failures>>

AnswerTemplates(c) ==
  LET k == client[c].key
  IN  /\ client[c].stage = "set" /\ client[c].view <= 0 /\ ~ UsableCached(k)
      /\ markDataIngested
      /\ Begin(k)
      /\ client' = [client EXCEPT ![c] = Resting]
      /\ UNCHANGED <<ingestVars, poll, failures>>

-------------------------------------------------------------------------------
JobStep(k) ==
  \E j \in jobs : j.key = k /\ (RefreshComputes(j) \/ RefreshSets(j) \/ RefreshEnds(j))

PollStep == PollMarks \/ PollComputes \/ PollSets

Answer(c) == ClientComputes(c) \/ AnswerComputed(c) \/ AnswerCached(c) \/ AnswerTemplates(c)

Next ==
  \/ IngestCommitted \/ HookCommitted \/ IngestMarked \/ FileChanged
  \/ LoopTick
  \/ \E k \in Keys : JobStep(k)
  \/ PollStep
  \/ \E c \in Clients :
       \/ \E k \in Keys : \/ HitStale(c, k)
                          \/ \E refresh \in BOOLEAN : Miss(c, k, refresh)
       \/ Answer(c)

Spec == Init /\ [][Next]_vars

(* Goroutines and handlers go on; the poll cycle comes round; clients keep   *)
(* asking for the keys that nothing else refreshes, also once the entry is   *)
(* two seconds old.                                                          *)
Fairness ==
  /\ WF_vars(PollStep)
  /\ \A k \in Keys : WF_vars(JobStep(k))
  /\ \A c \in Clients :
       /\ WF_vars(Answer(c))
       /\ \A k \in Keys \ {ConfigKey} : SF_vars(HitStale(c, k) \/ Miss(c, k, FALSE))

FairSpec == Spec /\ Fairness

-------------------------------------------------------------------------------
(* Background refreshes of a key do not overtake each other: one that read   *)
(* the database earlier never replaces the view of one that read it later.   *)
(* (The poll cycle and the handlers take no part in this exclusion.)         *)
RefreshesKeepOrder ==
  [][\A e \in Range(cache), n \in Range(cache') :
       e.key = n.key /\ e.byRefresh /\ n.byRefresh
         => n.view >= e.view \/ n.view = Failed]_vars

(* What was ingested reaches the cached view of a key that only clients ask  *)
(* for, though nothing but their own requests refreshes it: no refresh that  *)
(* is missed because another is under way, no older view stored over a newer *)
(* one and no failed computation hides it for good, as long as polls keep    *)
(* marking.                                                                  *)
ViewsCatchUp ==
  \A k \in Keys \ {ConfigKey}, n \in 1 .. MaxData :
    data >= n ~> k \in CachedKeys /\ EntryOf(k).view >= n

(* server.go on markDataIngested: it "stamps the ingest time so on-demand    *)
(* readers can tell whether their cached view is stale relative to real      *)
(* data".                                                                    *)
ReadersCanTellStale ==
  ~ unmarked => \A i \in DOMAIN cache : cache[i].view < data => cache[i].since

===============================================================================
