------------------------------- MODULE UsageView -------------------------------
(***************************************************************************)
(* The aggregated usage a dashboard account is shown: which events belong  *)
(* to it (applyCanonicalUsageViewWithDB), and the process-wide cache of    *)
(* aggregates (usage_view_cache.go), which trusts an entry as long as      *)
(* the largest rowid and the number of rows behind it are what they were.  *)
(* Readers interleave with writers that insert and prune rows; an update   *)
(* in place, which no fingerprint sees, is left out.                       *)
(*                                                                         *)
(* An aggregate is the set of rows it was computed from.  usage_events is  *)
(* an ordinary rowid table: a new row gets one more than the largest rowid *)
(* present, so the rowid of a pruned newest row is used again; serial is   *)
(* the row's identity that SQLite does not know.                           *)
(***************************************************************************)
EXTENDS Integers, Sequences, FiniteSets, FiniteSetsExt, SequencesExt

CONSTANTS
  Accounts,      (* dashboard accounts: [provider, scope] records            *)
  Links,         (* telemetry.provider_links: set of <<source, target>>      *)
  EventAccounts, (* the account ids events carry                             *)
  EventProviders,
  Windows,       (* first days of the windows that are asked for             *)
  Days,          (* days events occur on                                     *)
  HotDay,        (* first day retention keeps                                *)
  MaxEntries,    (* usageViewCacheMaxEntries, 64                             *)
  Readers,
  MaxRows,       (* bound: rows at a time                                    *)
  MaxSerial      (* bound: rows ever                                         *)

AnyAccount == "any"

(* A snapshot's account is never blank (daemon/accounts.go:210, :318).       *)
ASSUME ViewAssumption ==
  MaxEntries \in Nat \ {0} /\ \A a \in Accounts : a.scope # AnyAccount

VARIABLES
  rows,        (* usage_events: set of [id, serial, account, provider, day]           *)
  serial,      (* history: rows inserted so far                              *)
  newestGone,  (* history: a prune has removed the newest row of a scope      *)
  cache,       (* key -> [agg, max, count], as a set of records with a key   *)
  order,       (* keys in the order of insertion                             *)
  reader       (* Readers -> [at, key, max, count, agg]                      *)

viewVars == <<rows, serial, newestGone, cache, order, reader>>

NoRead == [at |-> "idle", key |-> <<>>, max |-> 0, count |-> 0, agg |-> {}]

ViewInit ==
  /\ rows = {} /\ serial = 0 /\ newestGone = FALSE
  /\ cache = {} /\ order = <<>>
  /\ reader = [r \in Readers |-> NoRead]

-------------------------------------------------------------------------------
(* Which events an account is shown.                                         *)

SourceProviders(target) ==
  {target} \cup {l[1] : l \in {k \in Links : k[2] = target}}

(* usageWhereClause; probeUsageEventsFingerprint leaves out the window.      *)
Scoped(R, providers, account) ==
  {r \in R : r.provider \in providers /\ account \in {AnyAccount, r.account}}

Matching(R, key) ==
  {r \in Scoped(R, key.providers, key.account) : r.day >= key.since}

Key(providers, account, since) ==
  [providers |-> providers, account |-> account, since |-> since]

SoleAccountAlways(a) == TRUE   \* mutant: the fall-back is for everybody

SoleAccount(a) ==
  \A b \in Accounts : SourceProviders(b.provider) = SourceProviders(a.provider)
                        => b.scope = a.scope

(* loadUsageViewForProviderWithSources: the account's own events or, if it   *)
(* has none and nobody else shares its sources, all events of the sources.   *)
KeyShown(R, a, since) ==
  LET sources == SourceProviders(a.provider)
      own     == Key(sources, a.scope, since)
  IN IF Matching(R, own) # {} \/ ~ SoleAccount(a)
       THEN own ELSE Key(sources, AnyAccount, since)

Shown(R, a, since) == Matching(R, KeyShown(R, a, since))

-------------------------------------------------------------------------------
(* The cache.                                                                *)

(* The rows behind the entries there can be.                                 *)
Scopes == UNION {{Scoped(rows, SourceProviders(a.provider), s) : s \in {AnyAccount, a.scope}} :
                   a \in Accounts}

MaxRowID(R) == IF R = {} THEN 0 ELSE Max({r.id : r \in R})

Fingerprint(key) ==
  LET R == Scoped(rows, key.providers, key.account)
  IN [max |-> MaxRowID(R), count |-> Cardinality(R)]

Entry(key) == {e \in cache : e.key = key}

HitByNewest(key) == \E e \in Entry(key) : e.max = Fingerprint(key).max   \* mutant

Hit(key) == \E e \in Entry(key) :
              e.max = Fingerprint(key).max /\ e.count = Fingerprint(key).count

(* loadUsageViewCached: a hit is served, a miss keeps the fingerprint it     *)
(* probed before the rows are read.                                          *)
ProbeCache(r) ==
  /\ reader[r].at = "idle"
  /\ \E a \in Accounts, since \in Windows : \E scope \in {AnyAccount, a.scope} :
       LET key == Key(SourceProviders(a.provider), scope, since) IN
       reader' = [reader EXCEPT ![r] =
         IF Hit(key)
           THEN [at |-> "served", key |-> key, max |-> 0, count |-> 0,
                 agg |-> (CHOOSE e \in Entry(key) : TRUE).agg]
           ELSE [at |-> "missed", key |-> key, max |-> Fingerprint(key).max,
                 count |-> Fingerprint(key).count, agg |-> {}]]
  /\ UNCHANGED <<rows, serial, newestGone, cache, order>>

Materialize(r) ==
  /\ reader[r].at = "missed"
  /\ reader' = [reader EXCEPT ![r].at = "loaded",
                              ![r].agg = Matching(rows, reader[r].key)]
  /\ UNCHANGED <<rows, serial, newestGone, cache, order>>

EvictedOneLate(line) ==   \* mutant: an entry too many is kept
  IF Len(line) > MaxEntries + 1 THEN Len(line) - MaxEntries ELSE 0

(* How many of the oldest keys go.                                           *)
Evicted(line) == IF Len(line) > MaxEntries THEN Len(line) - MaxEntries ELSE 0

(* storeUsageViewCache: a new key may push the oldest ones out.              *)
Store(r) ==
  /\ reader[r].at = "loaded"
  /\ LET new   == [key |-> reader[r].key, agg |-> reader[r].agg,
                   max |-> reader[r].max, count |-> reader[r].count]
         known == Entry(new.key) # {}
         line  == IF known THEN order ELSE Append(order, new.key)
         kept  == SubSeq(line, Evicted(line) + 1, Len(line))
     IN /\ order' = kept
        /\ cache' = {e \in cache : e.key # new.key /\ Contains(kept, e.key)} \cup {new}
  /\ reader' = [reader EXCEPT ![r] = NoRead]
  /\ UNCHANGED <<rows, serial, newestGone>>

Done(r) ==
  /\ reader[r].at = "served" /\ reader' = [reader EXCEPT ![r] = NoRead]
  /\ UNCHANGED <<rows, serial, newestGone, cache, order>>

-------------------------------------------------------------------------------
(* The writers, as the view sees them.                                       *)

Insert(account, provider, day) ==
  /\ Cardinality(rows) < MaxRows /\ serial < MaxSerial
  /\ serial' = serial + 1
  /\ rows' = rows \cup {[id |-> MaxRowID(rows) + 1, serial |-> serial', account |-> account,
                         provider |-> provider, day |-> day]}
  /\ UNCHANGED <<newestGone, cache, order, reader>>

(* PruneOldEvents removes the days before the hot window: an event that was  *)
(* imported late may be the newest row.                                      *)
Prune ==
  LET gone == {r \in rows : r.day < HotDay} IN
  /\ gone # {} /\ rows' = rows \ gone
  /\ newestGone' = (newestGone \/ \E S \in Scopes : \E r \in gone \cap S : r.id = MaxRowID(S))
  /\ UNCHANGED <<serial, cache, order, reader>>

ViewNext ==
  \/ \E r \in Readers : ProbeCache(r) \/ Materialize(r) \/ Store(r) \/ Done(r)
  \/ \E account \in EventAccounts, provider \in EventProviders, day \in Days :
       Insert(account, provider, day)
  \/ Prune

ViewSpec == ViewInit /\ [][ViewNext]_viewVars

-------------------------------------------------------------------------------
Serials(R) == {r.serial : r \in R}

Served(r)  == reader[r].at = "idle" /\ reader'[r].at = "served"
UpToDate(r) == Serials(reader'[r].agg) = Serials(Matching(rows, reader'[r].key))

(* A reader that is served from the cache sees exactly the events a fresh    *)
(* computation would - although rows came and went between the probe, the    *)
(* computation and the store of the entry, and later - unless a prune has    *)
(* removed the newest row behind some entry: an event imported late, whose   *)
(* rowid and count the next insert may bring back.  usage_view_cache.go:22   *)
(* claims it without the exception; updates in place it never sees.          *)
HitsSeeInsertsAndPrunes ==
  [][\A r \in Readers : Served(r) => UpToDate(r) \/ newestGone]_viewVars

(* Two accounts on the same sources are never shown the same event.  (Two    *)
(* whose sources overlap through a provider link without being the same may  *)
(* be: the guard compares the whole sets.)                                   *)
SiblingsDoNotShare ==
  \A a, b \in Accounts, since \in Windows :
    a.scope # b.scope /\ SourceProviders(a.provider) = SourceProviders(b.provider)
      => Shown(rows, a, since) \cap Shown(rows, b, since) = {}

(* The cache keeps to its limit, and its entries are those in the queue.     *)
CacheIsBounded ==
  /\ Len(order) <= MaxEntries
  /\ {e.key : e \in cache} = ToSet(order) /\ Cardinality(cache) = Len(order)

===============================================================================
