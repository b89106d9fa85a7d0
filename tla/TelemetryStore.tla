---------------------------- MODULE TelemetryStore ----------------------------
(***************************************************************************)
(* The telemetry database of internal/telemetry: the tables                *)
(* usage_raw_events, usage_events and usage_rollup_daily, the rollup       *)
(* watermark kept in daemon_meta, and the transactions the daemon runs on  *)
(* them - ingest, the daily rollup, and the prunes of the retention and    *)
(* collect loops.                                                          *)
(*                                                                         *)
(* Every action is one SQLite transaction, so the interleavings are those  *)
(* of whole transactions; a transaction that fails or is cut short by a    *)
(* crash is rolled back and is no step at all.  The dedup key is a model   *)
(* value: two requests share one exactly when BuildDedupKey hashes them    *)
(* alike.  A table is a set of rows.                                       *)
(***************************************************************************)
EXTENDS Integers, FiniteSets, EventMerge

CONSTANTS
  Keys,          (* the dedup keys                                           *)
  KindOf,        (* Keys -> Kinds: the event type, part of the hashed key    *)
  LogicalOf,     (* Keys -> the logical event the rollup's dedup sees        *)
  QualityWeight, (* Fields -> Nat: what a filled column adds to the quality  *)
  RawIds,        (* the ids newUUID may draw, for a raw row and its event     *)
  EventRank,     (* RawIds -> Nat: the order of those event ids, all distinct *)
  Requests,      (* the ingest requests the collectors and hooks may send    *)
  HoursPerDay,   (* 24 in the code                                           *)
  RetentionDays, (* config retention_days, at least 1 once normalised        *)
  PruneBatch,    (* pruneEventsBatch                                         *)
  MaxPassDays,   (* bound: day boundaries one retention pass may straddle    *)
  MaxDay         (* bound: where the modelled clock stops                    *)

Kinds    == {"usage", "limit", "other"}
Payloads == {"usable", "junk", "empty"}

ASSUME StoreAssumption ==
  /\ HoursPerDay \in Nat \ {0}
  /\ RetentionDays \in Nat \ {0}
  /\ PruneBatch \in Nat \ {0}
  /\ MaxPassDays \in Nat
  /\ MaxDay \in Nat \ {0}
  /\ KindOf \in [Keys -> Kinds]
  /\ EventRank \in [RawIds -> Nat]
  /\ IsFiniteSet(Fields) /\ QualityWeight \in [Fields -> Nat]
  /\ Requests \subseteq [key : Keys, channel : SourceChannels, day : Nat,
                         payload : Payloads, canon : Canonical]

NoWatermark == -1
NoPass      == 0

VARIABLES
  day, hour,  (* the wall clock, UTC                                         *)
  raws,       (* usage_raw_events                                            *)
  events,     (* usage_events                                                *)
  rollup,     (* usage_rollup_daily: the contributions its sums add up       *)
  watermark,  (* daemon_meta[rollup_daily_watermark]                         *)
  passDay,    (* the day the retention pass under way rolled up, or NoPass   *)
  offered     (* history: requests committed for the rows now in events      *)

clockVars == <<day, hour>>
tables    == <<raws, events, offered>>
vars      == <<day, hour, raws, events, rollup, watermark, passDay, offered>>

RawRow       == [id : RawIds, channel : SourceChannels, payload : Payloads,
                 day : Nat, hour : 0 .. HoursPerDay - 1]
EventRow     == [key : Keys, raw : RawIds, day : Nat, canon : Canonical]
Contribution == [day : Nat, key : Keys, canon : Canonical]

TypeOK ==
  /\ day \in Nat \ {0}
  /\ hour \in 0 .. HoursPerDay - 1
  /\ raws \subseteq RawRow
  /\ events \subseteq EventRow
  /\ rollup \subseteq Contribution
  /\ watermark \in NoWatermark .. day - 1
  /\ passDay \in NoPass .. day
  /\ offered \subseteq Requests

Init ==
  /\ day = 1
  /\ hour = 0
  /\ raws = {}
  /\ events = {}
  /\ rollup = {}
  /\ watermark = NoWatermark
  /\ passDay = NoPass
  /\ offered = {}

-------------------------------------------------------------------------------
(* The clock.  A retention pass works under timeouts of minutes, so it may   *)
(* straddle midnight but not many days.                                      *)
Tick ==
  /\ IF hour + 1 < HoursPerDay
     THEN hour' = hour + 1 /\ day' = day
     ELSE /\ day < MaxDay
          /\ passDay # NoPass => day + 1 - passDay <= MaxPassDays
          /\ hour' = 0
          /\ day' = day + 1
  /\ UNCHANGED <<tables, rollup, watermark, passDay>>

-------------------------------------------------------------------------------
(* Store.Ingest.  The raw row is found by a join, so an event whose raw row  *)
(* is gone cannot be enriched: the transaction fails.                        *)
RawOf(e) == {r \in raws : r.id = e.raw}

IngestNew(req, id) ==
  /\ ~ \E e \in events : e.key = req.key
  /\ id \notin {r.id : r \in raws} \cup {e.raw : e \in events}
  /\ raws' = raws \cup {[id |-> id, channel |-> req.channel, payload |-> req.payload,
                         day |-> day, hour |-> hour]}
  /\ events' = events \cup {[key |-> req.key, raw |-> id, day |-> req.day,
                             canon |-> req.canon]}

(* repairEmptyLimitSnapshotPayload                                           *)
Repaired(raw, req) ==
  IF KindOf[req.key] = "limit" /\ raw.payload # "usable" /\ req.payload = "usable"
  THEN [raw EXCEPT !.payload = req.payload]
  ELSE raw

IngestDuplicate(req) ==
  \E e \in events : \E raw \in RawOf(e) :
    /\ e.key = req.key
    /\ events' = (events \ {e}) \cup
                   {[e EXCEPT !.canon = Enrich(e.canon, raw.channel, req.canon, req.channel)]}
    /\ raws' = (raws \ {raw}) \cup {Repaired(raw, req)}

Ingest(req) ==
  /\ req.day <= day
  /\ (\E id \in RawIds : IngestNew(req, id)) \/ IngestDuplicate(req)
  /\ offered' = offered \cup {req}
  /\ UNCHANGED <<clockVars, rollup, watermark, passDay>>

-------------------------------------------------------------------------------
(* Store.RollupDaily with the ranking of dedupedUsageCTEWhere.               *)
Priority(e) == LET raw == CHOOSE r \in raws : r.id = e.raw
               IN  sourceChannelPriority(raw.channel)

(* The sum of the weights of the columns that are filled.                    *)
Quality(e) == Cardinality(UNION {{f} \X (1 .. QualityWeight[f]) :
                                   f \in {g \in Fields : e.canon.fields[g] # NULL}})

(* ORDER BY source_priority DESC, quality_score DESC, occurred_at DESC, id   *)
Outranks(e, o) ==
  \/ Priority(e) > Priority(o)
  \/ /\ Priority(e) = Priority(o)
     /\ \/ Quality(e) > Quality(o)
        \/ /\ Quality(e) = Quality(o)
           /\ \/ e.day > o.day
              \/ e.day = o.day /\ EventRank[e.raw] > EventRank[o.raw]

Countable(S) == {e \in S : KindOf[e.key] = "usage" /\ RawOf(e) # {}}

(* deduped_usage: of the events that stand for one logical event, row 1.     *)
Deduped(S) ==
  {e \in S : \A o \in S : LogicalOf[o.key] = LogicalOf[e.key] => o = e \/ Outranks(e, o)}

Contributions(S) == {[day |-> e.day, key |-> e.key, canon |-> e.canon] : e \in S}

RollupSinceEver     == NoWatermark     \* mutant: every rollup recomputes all history
RollupSinceOneEarly == watermark - 1   \* mutant: a settled day is recomputed

(* The days a rollup recomputes start at the watermark, inclusive.           *)
RollupSince == watermark

LastSettledDayIsToday == day           \* mutant: the day under way counts as settled
LastSettledDayIsKept  == watermark     \* mutant: the watermark is never advanced

LastSettledDay == day - 1

RollupScope == Countable({e \in events : e.day >= RollupSince})

RollupDaily ==
  /\ passDay = NoPass
  /\ rollup' = {c \in rollup : c.day < RollupSince} \cup Contributions(Deduped(RollupScope))
  /\ watermark' = LastSettledDay
  /\ passDay' = day
  /\ UNCHANGED <<clockVars, tables>>

-------------------------------------------------------------------------------
(* Store.PruneOldEvents, one DELETE: the oldest PruneBatch rows that are     *)
(* past the hot window and on a rolled-up day.  occurred_at is compared as   *)
(* text with a datetime() that has a blank where it has a 'T', so the        *)
(* cutoff falls on a whole day.  A short batch ends the pass.                *)
PastHotWindowOffByOne(e) == e.day <= day - RetentionDays   \* mutant

PastHotWindow(e) == e.day < day - RetentionDays

Prunable == {e \in events : PastHotWindow(e) /\ e.day <= watermark}

OldestBatch(S) ==
  {B \in SUBSET S : /\ \/ Cardinality(B) = PruneBatch
                       \/ Cardinality(B) < PruneBatch /\ B = S
                    /\ \A e \in B, o \in S \ B : e.day <= o.day}

PruneOldEvents ==
  /\ passDay # NoPass
  /\ watermark # NoWatermark
  /\ \E B \in OldestBatch(Prunable) :
       /\ events' = events \ B
       /\ offered' = {r \in offered : \A e \in B : r.key # e.key}
       /\ passDay' = IF Cardinality(B) < PruneBatch THEN NoPass ELSE passDay
  /\ UNCHANGED <<clockVars, raws, rollup, watermark>>

(* The pass runs out of its budget, fails, or the daemon stops.              *)
AbandonPass ==
  /\ passDay # NoPass
  /\ passDay' = NoPass
  /\ UNCHANGED <<clockVars, tables, rollup, watermark>>

(* Store.PruneOrphanRawEvents; its limit is taken as never reached.          *)
OrphanRawsByAge == {r \in raws : r.day < day - RetentionDays}   \* mutant

OrphanRaws == {r \in raws : \A e \in events : e.raw # r.id}

PruneOrphanRawEvents ==
  /\ OrphanRaws # {}
  /\ raws' = raws \ OrphanRaws
  /\ UNCHANGED <<clockVars, events, offered, rollup, watermark, passDay>>

(* Store.PruneRawEventPayloads(1 hour): ingested_at < datetime('now', '-1    *)
(* hours'), again a comparison of texts that decides by the date alone.  Its *)
(* limit too is taken as never reached.                                      *)
PayloadFromYesterday(r) == r.day < day   \* mutant: the hour is left out of the cutoff

PayloadExpired(r) == r.day < (IF hour >= 1 THEN day ELSE day - 1)

PruneRawEventPayloads ==
  /\ \E r \in raws : PayloadExpired(r) /\ r.payload # "empty"
  /\ raws' = {IF PayloadExpired(r) THEN [r EXCEPT !.payload = "empty"] ELSE r : r \in raws}
  /\ UNCHANGED <<clockVars, events, offered, rollup, watermark, passDay>>

-------------------------------------------------------------------------------
Next ==
  \/ Tick
  \/ \E req \in Requests : Ingest(req)
  \/ RollupDaily
  \/ PruneOldEvents
  \/ AbandonPass
  \/ PruneOrphanRawEvents
  \/ PruneRawEventPayloads

Spec == Init /\ [][Next]_vars

(* The retention loop starts a pass every six hours, or a minute after one   *)
(* that did not finish.  That a rollup ends within its two minutes, and that *)
(* not all passes run out of budget before their DELETE, is assumed and not  *)
(* guaranteed: the prune's 30 seconds run from before the rollup             *)
(* (server_collect.go:217), which works through all history at first and     *)
(* from the watermark later, so that only later passes are short.            *)
Fairness == WF_vars(RollupDaily) /\ SF_vars(PruneOldEvents)

FairSpec == Spec /\ Fairness

-------------------------------------------------------------------------------
(* Each dedup key has one event, and each event a raw row of its own: the    *)
(* join by which every reader and the merge itself reach the source channel  *)
(* and payload never loses an event, whatever the prunes of two loops do     *)
(* around an ingest.                                                         *)
EventsHaveTheirRaw ==
  /\ \A e1, e2 \in events : e1.key = e2.key \/ e1.raw = e2.raw => e1 = e2
  /\ \A e \in events : Cardinality(RawOf(e)) = 1

(* What the merge promises for a column: it is NULL only while no committed  *)
(* request provided it, its value was provided by one of them, and once a    *)
(* channel outranking the one the row was created from has provided it, the  *)
(* value is one that such a channel provided - whatever the order, and       *)
(* however often a request is delivered again.                               *)
Providers(e, f) == {r \in offered : r.key = e.key /\ r.canon.fields[f] # NULL}

OutrankingChannelWins ==
  \A e \in events, f \in Fields :
    LET value  == e.canon.fields[f]
        strong == {r \in Providers(e, f) : sourceChannelPriority(r.channel) > Priority(e)}
    IN  /\ Providers(e, f) # {} => value \in {r.canon.fields[f] : r \in Providers(e, f)}
        /\ strong # {} => value \in {r.canon.fields[f] : r \in strong}
        /\ Providers(e, f) = {} => value = NULL

(* The comment of enrichEventByDedupKey: "Hook payloads take precedence over *)
(* file/sqlite events when both provide values."                             *)
HookPrecedence ==
  \A e \in events, f \in Fields :
    LET hooks == {r \in Providers(e, f) : r.channel = "hook"}
    IN  hooks # {} => e.canon.fields[f] \in {r.canon.fields[f] : r \in hooks}

(* A row that came in during another hour is less than HoursOld + 1 and more *)
(* than HoursOld - 1 hours old.                                              *)
HoursOld(r) == (day - r.day) * HoursPerDay + hour - r.hour

OlderThanAnHour(r) == HoursOld(r) > 1

(* A stored quota snapshot that can be decoded stays so for an hour: neither *)
(* a later duplicate nor a repair damages it, and when the payload prune     *)
(* blanks it, its row is older than that - the comment of                    *)
(* PruneRawEventPayloads: "Keeps payloads for events newer than              *)
(* retentionHours", although it compares texts that no hour decides.         *)
UsablePayloadSurvives ==
  [][\A r \in raws, s \in raws' :
       r.id = s.id /\ r.payload = "usable" /\ s.payload # "usable"
         => s.payload = "empty" /\ OlderThanAnHour(r)]_vars

(* The other side of that promise, in the comment on balance_observations:   *)
(* the raw payloads are "wiped to '{}' after 1h".  A prune leaves none to a  *)
(* row that is older than an hour.                                           *)
PayloadsGoAfterAnHour ==
  [][PruneRawEventPayloads
       => \A s \in raws' : OlderThanAnHour(s) => s.payload = "empty"]_vars

(* Whatever PruneOldEvents deletes belongs to a day before the watermark, so *)
(* no later rollup, which recomputes from the watermark on, will look for it *)
(* and miss it - even when midnight passes between rollup and prune.         *)
PrunedDaysAreSettled ==
  [][\A e \in events : (\A n \in events' : n.key # e.key) => e.day < RollupSince]_vars

(* A logical event that the daily rollup counts is counted for ever, though  *)
(* its rows are deleted, re-imported by the collectors and deleted again,    *)
(* and though a better-ranked duplicate may take its place.                  *)
AggregateKept ==
  [][\A c \in rollup : \E n \in rollup' : LogicalOf[n.key] = LogicalOf[c.key]]_vars

(* Once a day is behind the watermark its aggregates are final: re-imported  *)
(* history is not added to it a second time.                                 *)
SettledDaysAreFinal ==
  [][{c \in rollup' : c.day < watermark} = {c \in rollup : c.day < watermark}]_vars

(* store.go on PruneOldEvents: "per-event detail is never discarded before   *)
(* its aggregate exists".                                                    *)
DetailOutlivesNoAggregate ==
  [][\A e \in events : KindOf[e.key] = "usage" /\ (\A n \in events' : n.key # e.key)
       => \E c \in rollup : LogicalOf[c.key] = LogicalOf[e.key]]_vars

(* Collectors that find an old event in a tool's files again import it again *)
(* when its row has been pruned.  They leave the prune room if, from some    *)
(* time on, what they import of expired detail fits into a batch with what   *)
(* is there of it; otherwise what is oldest may come again and again and a   *)
(* batch never reach the rest.                                               *)
ExpiredRows(S) == {e \in S : PastHotWindow(e)}

ImportsFitBatches ==
  <>[][Cardinality(ExpiredRows(events')) > Cardinality(ExpiredRows(events)) /\ day' = day
         => Cardinality(ExpiredRows(events')) <= PruneBatch]_vars

(* Then all detail past the hot window goes, whatever the backlog: again and *)
(* again the batches and the rescheduling of the retention loop have reached *)
(* every expired row.                                                        *)
ExpiredDetailIsPruned == ImportsFitBatches => []<>(ExpiredRows(events) = {})

===============================================================================
