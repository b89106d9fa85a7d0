------------------------- MODULE TelemetryStoreProofs -------------------------
(***************************************************************************)
(* Theorems about the telemetry database, for every set of keys, requests  *)
(* and raw ids, every hot window and every batch size.                     *)
(***************************************************************************)
EXTENDS TelemetryStore, FiniteSetTheorems, WellFoundedInduction, TLAPS

-------------------------------------------------------------------------------
(* The merge yields a well-formed row: enrichEventByDedupKey writes back     *)
(* only what one of its two inputs held.                                     *)
LEMMA EnrichType ==
  ASSUME NEW row \in Canonical, NEW req \in Canonical, NEW rowChannel, NEW reqChannel
  PROVE  Enrich(row, rowChannel, req, reqChannel) \in Canonical
<1> DEFINE override == sourceChannelPriority(reqChannel) > sourceChannelPriority(rowChannel)
<1> HIDE DEF override
<1>1. \A f \in Fields : chooseField(row.fields[f], req.fields[f], override) \in Values \cup {NULL}
  BY DEF chooseField, Canonical
<1>2. chooseToolName(row.tool, req.tool, override) \in ToolNames \cup {NULL}
  BY DEF chooseToolName, Canonical
<1>3. chooseStatus(row.status, req.status, override) \in Statuses
  BY DEF chooseStatus, Canonical
<1>4. QED
  BY <1>1, <1>2, <1>3 DEF Enrich, Canonical, override

(* A repaired raw row keeps its id, its channel and its times.               *)
LEMMA RepairedType ==
  ASSUME NEW raw \in RawRow, NEW req \in Requests
  PROVE  /\ Repaired(raw, req) \in RawRow
         /\ Repaired(raw, req).id = raw.id
         /\ Repaired(raw, req).channel = raw.channel
BY StoreAssumption DEF Repaired, RawRow, Payloads

-------------------------------------------------------------------------------
(* Every reachable state is well-typed; the watermark is always behind the   *)
(* current day, and a retention pass never works for a day to come.          *)
LEMMA TypeInit == Init => TypeOK
BY StoreAssumption DEF Init, TypeOK, NoWatermark, NoPass

LEMMA TypeNext == TypeOK /\ [Next]_vars => TypeOK'
<1> SUFFICES ASSUME TypeOK, [Next]_vars PROVE TypeOK'
  OBVIOUS
<1> USE StoreAssumption
<1>1. CASE Tick
  BY <1>1 DEF Tick, TypeOK, tables, NoWatermark, NoPass
<1>2. ASSUME NEW req \in Requests, Ingest(req) PROVE TypeOK'
  <2>1. req.day \in Nat /\ req.key \in Keys /\ req.channel \in SourceChannels
          /\ req.payload \in Payloads /\ req.canon \in Canonical
    OBVIOUS
  <2>2. CASE \E id \in RawIds : IngestNew(req, id)
    <3>1. PICK id \in RawIds : IngestNew(req, id)
      BY <2>2
    <3>2. raws' \subseteq RawRow
      BY <2>1, <3>1 DEF IngestNew, RawRow, TypeOK
    <3>3. events' \subseteq EventRow
      BY <2>1, <3>1 DEF IngestNew, EventRow, TypeOK
    <3>4. QED
      BY <1>2, <3>2, <3>3 DEF Ingest, TypeOK, clockVars
  <2>3. CASE IngestDuplicate(req)
    <3> PICK e \in events : \E raw \in RawOf(e) :
            /\ e.key = req.key
            /\ events' = (events \ {e}) \cup
                 {[e EXCEPT !.canon = Enrich(e.canon, raw.channel, req.canon, req.channel)]}
            /\ raws' = (raws \ {raw}) \cup {Repaired(raw, req)}
      BY <2>3 DEF IngestDuplicate
    <3>1. PICK raw \in RawOf(e) :
            /\ events' = (events \ {e}) \cup
                 {[e EXCEPT !.canon = Enrich(e.canon, raw.channel, req.canon, req.channel)]}
            /\ raws' = (raws \ {raw}) \cup {Repaired(raw, req)}
      OBVIOUS
    <3>2. e \in EventRow /\ raw \in RawRow
      BY DEF TypeOK, RawOf
    <3>3. Repaired(raw, req) \in RawRow
      BY <3>2, RepairedType
    <3>4. Enrich(e.canon, raw.channel, req.canon, req.channel) \in Canonical
      BY <2>1, <3>2, EnrichType DEF EventRow
    <3>5. [e EXCEPT !.canon = Enrich(e.canon, raw.channel, req.canon, req.channel)] \in EventRow
      BY <3>2, <3>4 DEF EventRow
    <3>6. QED
      BY <1>2, <3>1, <3>3, <3>5 DEF Ingest, TypeOK, clockVars
  <2>4. QED
    BY <1>2, <2>2, <2>3 DEF Ingest
<1>3. CASE RollupDaily
  <2>1. Contributions(Deduped(RollupScope)) \subseteq Contribution
    BY DEF Contributions, Deduped, RollupScope, Countable, TypeOK, EventRow, Contribution
  <2>2. rollup' \subseteq Contribution
    BY <1>3, <2>1 DEF RollupDaily, TypeOK
  <2>3. QED
    BY <1>3, <2>2 DEF RollupDaily, TypeOK, LastSettledDay, clockVars, tables, NoWatermark, NoPass
<1>4. CASE PruneOldEvents
  BY <1>4 DEF PruneOldEvents, TypeOK, clockVars, NoPass
<1>5. CASE AbandonPass
  BY <1>5 DEF AbandonPass, TypeOK, clockVars, tables, NoPass
<1>6. CASE PruneOrphanRawEvents
  BY <1>6 DEF PruneOrphanRawEvents, TypeOK, clockVars
<1>7. CASE PruneRawEventPayloads
  <2>1. \A r \in RawRow : [r EXCEPT !.payload = "empty"] \in RawRow
    BY DEF RawRow, Payloads
  <2>2. raws' \subseteq RawRow
    BY <1>7, <2>1 DEF PruneRawEventPayloads, TypeOK
  <2>3. QED
    BY <1>7, <2>2 DEF PruneRawEventPayloads, TypeOK, clockVars
<1>8. CASE UNCHANGED vars
  BY <1>8 DEF vars, TypeOK
<1>9. QED
  BY <1>1, <1>2, <1>3, <1>4, <1>5, <1>6, <1>7, <1>8 DEF Next

THEOREM Typing == Spec => []TypeOK
<1>1. Init => TypeOK
  BY TypeInit
<1>2. TypeOK /\ [Next]_vars => TypeOK'
  BY TypeNext
<1>3. QED
  BY <1>1, <1>2, PTL DEF Spec

-------------------------------------------------------------------------------
(* The retention pass.  While one is under way the watermark is the day      *)
(* before the one it rolled up, and the clock is at most MaxPassDays ahead.  *)
PassInv ==
  passDay # NoPass => watermark = passDay - 1 /\ day <= passDay + MaxPassDays

LEMMA PassInit == Init => PassInv
BY DEF Init, PassInv

LEMMA PassNext == TypeOK /\ PassInv /\ [Next]_vars => PassInv'
<1> SUFFICES ASSUME TypeOK, PassInv, [Next]_vars PROVE PassInv'
  OBVIOUS
<1> USE StoreAssumption DEF TypeOK, PassInv, NoPass
<1>1. CASE Tick
  BY <1>1 DEF Tick
<1>2. ASSUME NEW req \in Requests, Ingest(req) PROVE PassInv'
  BY <1>2 DEF Ingest, clockVars
<1>3. CASE RollupDaily
  BY <1>3 DEF RollupDaily, LastSettledDay, clockVars
<1>4. CASE PruneOldEvents
  BY <1>4 DEF PruneOldEvents, clockVars
<1>5. CASE AbandonPass
  BY <1>5 DEF AbandonPass
<1>6. CASE PruneOrphanRawEvents
  BY <1>6 DEF PruneOrphanRawEvents, clockVars
<1>7. CASE PruneRawEventPayloads
  BY <1>7 DEF PruneRawEventPayloads, clockVars
<1>8. CASE UNCHANGED vars
  BY <1>8 DEF vars
<1>9. QED
  BY <1>1, <1>2, <1>3, <1>4, <1>5, <1>6, <1>7, <1>8 DEF Next

(* With a hot window longer than a retention pass, PruneOldEvents deletes    *)
(* only rows of days strictly before the watermark - the days no later       *)
(* rollup recomputes - however many midnights and ingests fall between the   *)
(* rollup of a pass and its batches.                                         *)
THEOREM PruningIsSafe ==
  ASSUME RetentionDays > MaxPassDays
  PROVE  Spec => PrunedDaysAreSettled
<1> DEFINE Gone(e) == \A n \in events' : n.key # e.key
<1>1. ASSUME TypeOK, PassInv, [Next]_vars, NEW e \in events, Gone(e)
      PROVE  e.day < RollupSince
  <2>1. CASE PruneOldEvents
    <3>1. PICK B \in OldestBatch(Prunable) : events' = events \ B
      BY <2>1 DEF PruneOldEvents
    <3>2. e \in B
      BY <1>1, <3>1
    <3>3. e.day < day - RetentionDays
      BY <3>2 DEF OldestBatch, Prunable, PastHotWindow
    <3>4. watermark = passDay - 1 /\ day <= passDay + MaxPassDays
      BY <1>1, <2>1 DEF PruneOldEvents, PassInv
    <3>5. e.day \in Nat /\ day \in Nat /\ passDay \in Nat
      BY <1>1 DEF TypeOK, EventRow, NoPass
    <3>6. QED
      BY <3>3, <3>4, <3>5, StoreAssumption DEF RollupSince
  <2>2. ASSUME NEW req \in Requests, Ingest(req) PROVE FALSE
    <3>1. CASE \E id \in RawIds : IngestNew(req, id)
      BY <1>1, <3>1 DEF IngestNew
    <3>2. CASE IngestDuplicate(req)
      <4>1. PICK d \in events : \E raw \in RawOf(d) :
              events' = (events \ {d}) \cup
                {[d EXCEPT !.canon = Enrich(d.canon, raw.channel, req.canon, req.channel)]}
        BY <3>2 DEF IngestDuplicate
      <4>2. PICK raw \in RawOf(d) :
              events' = (events \ {d}) \cup
                {[d EXCEPT !.canon = Enrich(d.canon, raw.channel, req.canon, req.channel)]}
        BY <4>1
      <4>3. d.key = [d EXCEPT !.canon = Enrich(d.canon, raw.channel, req.canon, req.channel)].key
        BY <1>1 DEF TypeOK, EventRow
      <4>4. QED
        BY <1>1, <4>2, <4>3
    <3>3. QED
      BY <2>2, <3>1, <3>2 DEF Ingest
  <2>3. ASSUME events' = events PROVE FALSE
    BY <1>1, <2>3
  <2>4. QED
    BY <1>1, <2>1, <2>2, <2>3
       DEF Next, Tick, RollupDaily, AbandonPass, PruneOrphanRawEvents,
           PruneRawEventPayloads, tables, vars
<1>2. TypeOK /\ PassInv /\ [Next]_vars
        => [\A e \in events : Gone(e) => e.day < RollupSince]_vars
  BY <1>1
<1>3. QED
  BY <1>2, TypeInit, TypeNext, PassInit, PassNext, PTL DEF Spec, PrunedDaysAreSettled

-------------------------------------------------------------------------------
(* The two tables.  A key or a raw id has at most one event, an id at most   *)
(* one raw row, and an event's raw row is there.                             *)
TablesInv ==
  /\ \A e1, e2 \in events : e1.key = e2.key \/ e1.raw = e2.raw => e1 = e2
  /\ \A r1, r2 \in raws : r1.id = r2.id => r1 = r2
  /\ \A e \in events : \E r \in raws : r.id = e.raw

(* A merge replaces one row of each table and keeps its key and its ids.     *)
LEMMA DuplicateStep ==
  ASSUME TypeOK, NEW req \in Requests, IngestDuplicate(req)
  PROVE  \E e \in events : \E raw \in RawOf(e) : \E e2 \in EventRow : \E raw2 \in RawRow :
           /\ e.key = req.key /\ raw \in raws /\ raw.id = e.raw
           /\ e2.key = e.key /\ e2.raw = e.raw /\ e2.day = e.day
           /\ e2.canon = Enrich(e.canon, raw.channel, req.canon, req.channel)
           /\ raw2.id = raw.id /\ raw2.channel = raw.channel
           /\ events' = (events \ {e}) \cup {e2}
           /\ raws' = (raws \ {raw}) \cup {raw2}
<1> PICK e \in events : \E raw \in RawOf(e) :
      /\ e.key = req.key
      /\ events' = (events \ {e}) \cup
           {[e EXCEPT !.canon = Enrich(e.canon, raw.channel, req.canon, req.channel)]}
      /\ raws' = (raws \ {raw}) \cup {Repaired(raw, req)}
  BY DEF IngestDuplicate
<1>1. PICK raw \in RawOf(e) :
        /\ e.key = req.key
        /\ events' = (events \ {e}) \cup
             {[e EXCEPT !.canon = Enrich(e.canon, raw.channel, req.canon, req.channel)]}
        /\ raws' = (raws \ {raw}) \cup {Repaired(raw, req)}
  OBVIOUS
<1> DEFINE canon2 == Enrich(e.canon, raw.channel, req.canon, req.channel)
           e2     == [e EXCEPT !.canon = canon2]
           raw2   == Repaired(raw, req)
<1>2. e \in EventRow /\ raw \in RawRow /\ raw \in raws /\ raw.id = e.raw
  BY DEF TypeOK, RawOf
<1>3. canon2 \in Canonical
  BY <1>2, EnrichType, StoreAssumption DEF EventRow
<1> HIDE DEF canon2
<1>4. /\ e2 \in EventRow /\ e2.key = e.key /\ e2.raw = e.raw /\ e2.day = e.day
      /\ e2.canon = canon2
  BY <1>2, <1>3 DEF EventRow
<1>5. raw2 \in RawRow /\ raw2.id = raw.id /\ raw2.channel = raw.channel
  BY <1>2, RepairedType
<1>6. events' = (events \ {e}) \cup {e2} /\ raws' = (raws \ {raw}) \cup {raw2}
  BY <1>1 DEF canon2
<1> HIDE DEF e2, raw2
<1>7. QED
  BY <1>1, <1>2, <1>4, <1>5, <1>6 DEF canon2

LEMMA TablesInit == Init => TablesInv
BY DEF Init, TablesInv

LEMMA TablesNext == TypeOK /\ TablesInv /\ [Next]_vars => TablesInv'
<1> SUFFICES ASSUME TypeOK, TablesInv, [Next]_vars PROVE TablesInv'
  OBVIOUS
<1>1. ASSUME NEW req \in Requests, Ingest(req) PROVE TablesInv'
  <2>1. CASE \E id \in RawIds : IngestNew(req, id)
    <3>1. PICK id \in RawIds : IngestNew(req, id)
      BY <2>1
    <3> DEFINE r == [id |-> id, channel |-> req.channel, payload |-> req.payload,
                     day |-> day, hour |-> hour]
               e == [key |-> req.key, raw |-> id, day |-> req.day, canon |-> req.canon]
    <3>2. /\ r.id = id /\ e.raw = id /\ e.key = req.key
          /\ raws' = raws \cup {r} /\ events' = events \cup {e}
          /\ \A o \in events : o.key # req.key /\ o.raw # id
          /\ \A o \in raws : o.id # id
      BY <3>1 DEF IngestNew
    <3> HIDE DEF r, e
    <3>3. QED
      BY <3>2 DEF TablesInv
  <2>2. CASE IngestDuplicate(req)
    <3>1. PICK e \in events, raw \in raws, e2 \in EventRow, raw2 \in RawRow :
            /\ raw.id = e.raw
            /\ e2.key = e.key /\ e2.raw = e.raw /\ raw2.id = raw.id
            /\ events' = (events \ {e}) \cup {e2}
            /\ raws' = (raws \ {raw}) \cup {raw2}
      BY <2>2, DuplicateStep
    <3>2. QED
      BY <3>1 DEF TablesInv
  <2>3. QED
    BY <1>1, <2>1, <2>2 DEF Ingest
<1>2. CASE PruneOldEvents
  BY <1>2 DEF PruneOldEvents, TablesInv
<1>3. CASE PruneOrphanRawEvents
  BY <1>3 DEF PruneOrphanRawEvents, OrphanRaws, TablesInv
<1>4. CASE PruneRawEventPayloads
  <2>1. \A r \in raws : [r EXCEPT !.payload = "empty"].id = r.id
    BY DEF TypeOK, RawRow
  <2> DEFINE blanked(r) == IF PayloadExpired(r) THEN [r EXCEPT !.payload = "empty"] ELSE r
  <2>2. /\ raws' = {blanked(r) : r \in raws} /\ events' = events
        /\ \A r \in raws : blanked(r).id = r.id
    BY <1>4, <2>1 DEF PruneRawEventPayloads
  <2> HIDE DEF blanked
  <2>3. QED
    BY <2>2 DEF TablesInv
<1>5. ASSUME UNCHANGED <<raws, events>> PROVE TablesInv'
  BY <1>5 DEF TablesInv
<1>6. QED
  BY <1>1, <1>2, <1>3, <1>4, <1>5 DEF Next, Tick, RollupDaily, AbandonPass, tables, vars

(* No join on the raw row ever loses an event or doubles it: whatever the    *)
(* prunes of the two loops do around an ingest, every event has exactly one  *)
(* raw row and shares neither it nor its dedup key.                          *)
THEOREM EventsKeepTheirRaw == Spec => []EventsHaveTheirRaw
<1>1. TablesInv => EventsHaveTheirRaw
  <2> SUFFICES ASSUME TablesInv, NEW e \in events PROVE Cardinality(RawOf(e)) = 1
    BY DEF TablesInv, EventsHaveTheirRaw
  <2>1. PICK r \in raws : RawOf(e) = {r}
    BY DEF TablesInv, RawOf
  <2>2. QED
    BY <2>1, FS_Singleton
<1>2. QED
  BY <1>1, TypeInit, TypeNext, TablesInit, TablesNext, PTL DEF Spec

-------------------------------------------------------------------------------
(* What a stored column owes to the requests S that were committed for its   *)
(* row, when the channel the row was created from has priority p.            *)
Given(S, key, f)     == {r \in S : r.key = key /\ r.canon.fields[f] # NULL}
Strong(S, key, f, p) == {r \in Given(S, key, f) : sourceChannelPriority(r.channel) > p}

ColumnOwed(value, S, key, f, p) ==
  /\ Given(S, key, f) # {} => value \in {r.canon.fields[f] : r \in Given(S, key, f)}
  /\ Strong(S, key, f, p) # {} => value \in {r.canon.fields[f] : r \in Strong(S, key, f, p)}
  /\ Given(S, key, f) = {} => value = NULL

MergeInv ==
  /\ \A r \in offered : \E e \in events : e.key = r.key
  /\ \A e \in events, raw \in raws, f \in Fields :
       raw.id = e.raw
         => ColumnOwed(e.canon.fields[f], offered, e.key, f, sourceChannelPriority(raw.channel))

LEMMA PriorityIsNat == \A c \in SourceChannels : sourceChannelPriority(c) \in Nat
BY DEF SourceChannels, sourceChannelPriority

(* The choose functions on one column: a merge keeps the debt.               *)
LEMMA MergeKeepsDebt ==
  ASSUME NEW value, NEW S, NEW req, NEW f, NEW p,
         ColumnOwed(value, S, req.key, f, p)
  PROVE  ColumnOwed(chooseField(value, req.canon.fields[f],
                                sourceChannelPriority(req.channel) > p),
                    S \cup {req}, req.key, f, p)
<1> DEFINE incoming == req.canon.fields[f]
           override == sourceChannelPriority(req.channel) > p
           T        == S \cup {req}
<1>1. Given(T, req.key, f) = IF incoming # NULL THEN Given(S, req.key, f) \cup {req}
                                                ELSE Given(S, req.key, f)
  BY DEF Given
<1>2. Strong(T, req.key, f, p) = IF incoming # NULL /\ override
                                 THEN Strong(S, req.key, f, p) \cup {req}
                                 ELSE Strong(S, req.key, f, p)
  BY <1>1 DEF Strong
<1>3. Strong(S, req.key, f, p) \subseteq Given(S, req.key, f)
  BY DEF Strong
<1>4. \A r \in Given(S, req.key, f) : r.canon.fields[f] # NULL
  BY DEF Given
<1> HIDE DEF override, T
<1>5. CASE incoming = NULL
  BY <1>1, <1>2, <1>5 DEF ColumnOwed, chooseField, T, override
<1>6. CASE incoming # NULL /\ override
  BY <1>1, <1>2, <1>3, <1>6 DEF ColumnOwed, chooseField, T, override
<1>7. CASE incoming # NULL /\ ~ override
  BY <1>1, <1>2, <1>3, <1>4, <1>7 DEF ColumnOwed, chooseField, T, override
<1>8. QED
  BY <1>5, <1>6, <1>7

(* Requests for other keys are no concern of a column.                       *)
LEMMA OtherKeys ==
  ASSUME NEW S, NEW T, NEW key, \A r \in S \cup T : r.key = key => r \in S \cap T
  PROVE  \A value, f, p : ColumnOwed(value, S, key, f, p) => ColumnOwed(value, T, key, f, p)
<1> SUFFICES ASSUME NEW value, NEW f, NEW p, ColumnOwed(value, S, key, f, p)
             PROVE  ColumnOwed(value, T, key, f, p)
  OBVIOUS
<1>1. Given(S, key, f) = Given(T, key, f)
  BY DEF Given
<1>2. Strong(S, key, f, p) = Strong(T, key, f, p)
  BY <1>1 DEF Strong
<1>3. QED
  BY <1>1, <1>2 DEF ColumnOwed

LEMMA MergeInit == Init => MergeInv
BY DEF Init, MergeInv

LEMMA MergeNext == TypeOK /\ TablesInv /\ MergeInv /\ [Next]_vars => MergeInv'
<1> SUFFICES ASSUME TypeOK, TablesInv, MergeInv, [Next]_vars PROVE MergeInv'
  OBVIOUS
<1>1. ASSUME NEW req \in Requests, Ingest(req) PROVE MergeInv'
  <2>0. offered' = offered \cup {req} /\ req \in Requests
    BY <1>1 DEF Ingest
  <2>others. \A o \in events : o.key # req.key =>
          \A f, p : ColumnOwed(o.canon.fields[f], offered, o.key, f, p)
                      => ColumnOwed(o.canon.fields[f], offered', o.key, f, p)
    BY <2>0, OtherKeys
  <2>1. CASE \E id \in RawIds : IngestNew(req, id)
    <3>1. PICK id \in RawIds : IngestNew(req, id)
      BY <2>1
    <3> DEFINE r == [id |-> id, channel |-> req.channel, payload |-> req.payload,
                     day |-> day, hour |-> hour]
               e == [key |-> req.key, raw |-> id, day |-> req.day, canon |-> req.canon]
    <3>2. /\ r.id = id /\ r.channel = req.channel
          /\ e.raw = id /\ e.key = req.key /\ e.canon = req.canon
          /\ raws' = raws \cup {r} /\ events' = events \cup {e}
          /\ \A o \in events : o.key # req.key /\ o.raw # id
          /\ \A o \in raws : o.id # id
      BY <3>1 DEF IngestNew
    <3> HIDE DEF r, e
    <3>3. \A f \in Fields : ColumnOwed(e.canon.fields[f], offered', e.key, f,
                                       sourceChannelPriority(r.channel))
      <4> SUFFICES ASSUME NEW f \in Fields
                   PROVE  ColumnOwed(req.canon.fields[f], offered', req.key, f,
                                     sourceChannelPriority(req.channel))
        BY <3>2
      <4>1. \A o \in offered : o.key # req.key
        BY <3>2 DEF MergeInv
      <4>2. Given(offered', req.key, f) = IF req.canon.fields[f] # NULL THEN {req} ELSE {}
        BY <4>1, <2>0 DEF Given
      <4>3. ~ sourceChannelPriority(req.channel) > sourceChannelPriority(req.channel)
        BY PriorityIsNat, StoreAssumption
      <4>4. Strong(offered', req.key, f, sourceChannelPriority(req.channel)) = {}
        BY <4>2, <4>3 DEF Strong
      <4>5. QED
        BY <4>2, <4>4 DEF ColumnOwed
    <3>4. \A o \in events, raw \in raws', f \in Fields :
            raw.id = o.raw => ColumnOwed(o.canon.fields[f], offered', o.key, f,
                                         sourceChannelPriority(raw.channel))
      BY <2>others, <3>2 DEF MergeInv
    <3>5. \A raw \in raws' : raw.id = e.raw => raw = r
      BY <3>2
    <3>6. \A q \in offered' : \E o \in events' : o.key = q.key
      BY <2>0, <3>2 DEF MergeInv
    <3>7. QED
      BY <3>2, <3>3, <3>4, <3>5, <3>6 DEF MergeInv
  <2>2. CASE IngestDuplicate(req)
    <3>1. PICK e \in events, raw \in raws, e2 \in EventRow, raw2 \in RawRow :
            /\ e.key = req.key /\ raw.id = e.raw
            /\ e2.key = e.key /\ e2.raw = e.raw
            /\ e2.canon = Enrich(e.canon, raw.channel, req.canon, req.channel)
            /\ raw2.id = raw.id /\ raw2.channel = raw.channel
            /\ events' = (events \ {e}) \cup {e2}
            /\ raws' = (raws \ {raw}) \cup {raw2}
      BY <2>2, DuplicateStep
    <3> DEFINE p == sourceChannelPriority(raw.channel)
    <3>2. \A f \in Fields : ColumnOwed(e2.canon.fields[f], offered', e2.key, f, p)
      <4> SUFFICES ASSUME NEW f \in Fields
                   PROVE  ColumnOwed(e2.canon.fields[f], offered \cup {req}, req.key, f, p)
        BY <2>0, <3>1
      <4>1. e2.canon.fields[f] = chooseField(e.canon.fields[f], req.canon.fields[f],
                                             sourceChannelPriority(req.channel) > p)
        BY <3>1 DEF Enrich
      <4>2. ColumnOwed(e.canon.fields[f], offered, req.key, f, p)
        BY <3>1 DEF MergeInv
      <4> HIDE DEF p
      <4>3. QED
        BY <4>1, <4>2, SMTT(30), MergeKeepsDebt
    <3>3. \A q \in raws' : q.id = e2.raw => q.channel = raw.channel
      BY <3>1 DEF TablesInv
    <3>4. \A o \in events' \ {e2}, q \in raws' : q.id = o.raw => q \in raws /\ o.key # req.key
      BY <3>1 DEF TablesInv
    <3>5. \A o \in events' \ {e2}, q \in raws', f \in Fields :
            q.id = o.raw => ColumnOwed(o.canon.fields[f], offered', o.key, f,
                                       sourceChannelPriority(q.channel))
      <4> SUFFICES ASSUME NEW o \in events' \ {e2}, NEW q \in raws', NEW f \in Fields, q.id = o.raw
                   PROVE  ColumnOwed(o.canon.fields[f], offered', o.key, f,
                                     sourceChannelPriority(q.channel))
        OBVIOUS
      <4>1. o \in events /\ q \in raws /\ o.key # req.key
        BY <3>1, <3>4
      <4>2. ColumnOwed(o.canon.fields[f], offered, o.key, f, sourceChannelPriority(q.channel))
        BY <4>1 DEF MergeInv
      <4>3. QED
        BY <2>others, <4>1, <4>2
    <3>6. \A q \in offered' : \E o \in events' : o.key = q.key
      BY <2>0, <3>1 DEF MergeInv
    <3>7. QED
      BY <3>2, <3>3, <3>5, <3>6 DEF MergeInv
  <2>3. QED
    BY <1>1, <2>1, <2>2 DEF Ingest
<1>2. CASE PruneOldEvents
  <2>1. PICK B \in OldestBatch(Prunable) :
          /\ events' = events \ B /\ raws' = raws
          /\ offered' = {r \in offered : \A e \in B : r.key # e.key}
    BY <1>2 DEF PruneOldEvents
  <2>2. B \subseteq events
    BY DEF OldestBatch, Prunable
  <2>3. \A o \in events' : \A e \in B : o.key # e.key
    BY <2>1, <2>2 DEF TablesInv
  <2>4. \A o \in events' : \A f, p :
          ColumnOwed(o.canon.fields[f], offered, o.key, f, p)
            => ColumnOwed(o.canon.fields[f], offered', o.key, f, p)
    <3> SUFFICES ASSUME NEW o \in events'
                 PROVE  \A f, p : ColumnOwed(o.canon.fields[f], offered, o.key, f, p)
                                    => ColumnOwed(o.canon.fields[f], offered', o.key, f, p)
      OBVIOUS
    <3>1. \A r \in offered \cup offered' : r.key = o.key => r \in offered \cap offered'
      BY <2>1, <2>3
    <3>2. QED
      BY <3>1, OtherKeys
  <2>5. \A r \in offered' : \E e \in events' : e.key = r.key
    BY <2>1 DEF MergeInv
  <2>6. QED
    BY <2>1, <2>4, <2>5 DEF MergeInv
<1>3. CASE PruneOrphanRawEvents
  BY <1>3 DEF PruneOrphanRawEvents, MergeInv
<1>4. CASE PruneRawEventPayloads
  <2>1. \A r \in raws : /\ [r EXCEPT !.payload = "empty"].id = r.id
                        /\ [r EXCEPT !.payload = "empty"].channel = r.channel
    BY DEF TypeOK, RawRow
  <2> DEFINE blanked(r) == IF PayloadExpired(r) THEN [r EXCEPT !.payload = "empty"] ELSE r
  <2>2. /\ raws' = {blanked(r) : r \in raws} /\ events' = events /\ offered' = offered
        /\ \A r \in raws : blanked(r).id = r.id /\ blanked(r).channel = r.channel
    BY <1>4, <2>1 DEF PruneRawEventPayloads
  <2> HIDE DEF blanked
  <2>3. QED
    BY <2>2 DEF MergeInv
<1>5. ASSUME UNCHANGED <<raws, events, offered>> PROVE MergeInv'
  BY <1>5 DEF MergeInv
<1>6. QED
  BY <1>1, <1>2, <1>3, <1>4, <1>5 DEF Next, Tick, RollupDaily, AbandonPass, tables, vars

(* The merge promise for every column of every row: a column is NULL only    *)
(* while no committed request provided it, holds a value one of them         *)
(* provided, and holds a value of a channel that outranks the row's own as   *)
(* soon as one has provided any - in every order and under every repetition. *)
THEOREM MergeIsSound == Spec => []OutrankingChannelWins
<1>1. TablesInv /\ MergeInv => OutrankingChannelWins
  <2> SUFFICES ASSUME TablesInv, MergeInv, NEW e \in events, NEW f \in Fields
               PROVE  ColumnOwed(e.canon.fields[f], offered, e.key, f, Priority(e))
    BY DEF OutrankingChannelWins, ColumnOwed, Given, Strong, Providers
  <2>1. PICK raw \in raws : raw.id = e.raw
    BY DEF TablesInv
  <2>2. raw = CHOOSE r \in raws : r.id = e.raw
    BY <2>1 DEF TablesInv
  <2>3. QED
    BY <2>1, <2>2 DEF Priority, MergeInv
<1>2. QED
  BY <1>1, TypeInit, TypeNext, TablesInit, TablesNext, MergeInit, MergeNext, PTL DEF Spec

-------------------------------------------------------------------------------
(* The aggregates of a day before the watermark never change again, however  *)
(* much history is imported for that day.                                    *)
THEOREM SettledAggregatesStand == Spec => SettledDaysAreFinal
<1> DEFINE Settled(S) == {c \in S : c.day < watermark}
<1>1. ASSUME TypeOK, [Next]_vars PROVE Settled(rollup') = Settled(rollup)
  <2>1. CASE RollupDaily
    <3> DEFINE fresh == Contributions(Deduped(RollupScope))
    <3>1. rollup' = {c \in rollup : c.day < watermark} \cup fresh
      BY <2>1 DEF RollupDaily, RollupSince
    <3>2. \A c \in fresh : \E e \in events : c.day = e.day /\ e.day >= watermark
      BY DEF Contributions, Deduped, RollupScope, Countable, RollupSince
    <3>3. watermark \in Int /\ \A e \in events : e.day \in Int
      BY <1>1, StoreAssumption DEF TypeOK, EventRow, NoWatermark
    <3>4. \A c \in fresh : ~ c.day < watermark
      <4> SUFFICES ASSUME NEW c \in fresh PROVE ~ c.day < watermark
        OBVIOUS
      <4> HIDE DEF fresh
      <4>1. PICK e \in events : c.day = e.day /\ e.day >= watermark
        BY <3>2
      <4>2. QED
        BY <3>3, <4>1
    <3> HIDE DEF fresh
    <3>5. QED
      BY <3>1, <3>4
  <2>2. ASSUME UNCHANGED rollup PROVE Settled(rollup') = Settled(rollup)
    BY <2>2
  <2>3. QED
    BY <1>1, <2>1, <2>2 DEF Next, Tick, Ingest, PruneOldEvents, AbandonPass,
                            PruneOrphanRawEvents, PruneRawEventPayloads, vars
<1>2. TypeOK /\ [Next]_vars => [Settled(rollup') = Settled(rollup)]_vars
  BY <1>1
<1>3. QED
  BY <1>2, TypeInit, TypeNext, PTL DEF Spec, SettledDaysAreFinal

(* Between an hour of one day and a later one of the next lies more than an  *)
(* hour, however few hours a day has, and so does between hours of two days  *)
(* that are not neighbours.                                                  *)
LEMMA ExpiredIsOlder ==
  ASSUME TypeOK, NEW r \in raws, PayloadExpired(r)
  PROVE  OlderThanAnHour(r)
<1> DEFINE days == day - r.day
<1>1. /\ r.day \in Nat /\ r.hour \in Nat /\ r.hour <= HoursPerDay - 1
      /\ day \in Nat /\ hour \in Nat /\ hour <= HoursPerDay - 1
      /\ HoursPerDay \in Nat /\ HoursPerDay >= 1
  BY StoreAssumption DEF TypeOK, RawRow
<1>2. days \in Nat /\ days >= 1 /\ (hour >= 1 \/ days >= 2)
  BY <1>1 DEF PayloadExpired
<1>3. \E k \in Nat : days = k + 1
  <2>1. days - 1 \in Nat /\ days = (days - 1) + 1
    BY <1>2
  <2>2. QED
    BY <2>1
<1>4. PICK k \in Nat : days = k + 1
  BY <1>3
<1>5. /\ days * HoursPerDay = k * HoursPerDay + HoursPerDay
      /\ k * HoursPerDay \in Nat
      /\ k >= 1 => k * HoursPerDay >= HoursPerDay
  <2> HIDE DEF days
  <2>1. (k + 1) * HoursPerDay = k * HoursPerDay + HoursPerDay /\ k * HoursPerDay \in Nat
    BY <1>1
  <2>2. ASSUME k >= 1 PROVE k * HoursPerDay >= HoursPerDay
    <3>1. PICK m \in Nat : k = m + 1
      <4>1. k - 1 \in Nat /\ k = (k - 1) + 1
        BY <2>2
      <4>2. QED
        BY <4>1
    <3>2. (m + 1) * HoursPerDay = m * HoursPerDay + HoursPerDay /\ m * HoursPerDay \in Nat
      BY <1>1
    <3>3. QED
      BY <1>1, <3>1, <3>2
  <2>3. QED
    BY <1>4, <2>1, <2>2
<1>6. HoursOld(r) = k * HoursPerDay + HoursPerDay + hour - r.hour
  BY <1>5 DEF HoursOld
<1> HIDE DEF days
<1>7. HoursOld(r) > 1
  <2> DEFINE product == k * HoursPerDay
  <2>1. product \in Nat /\ (k >= 1 => product >= HoursPerDay)
    BY <1>5
  <2>2. HoursOld(r) = product + HoursPerDay + hour - r.hour
    BY <1>6
  <2> HIDE DEF product
  <2>3. CASE hour >= 1
    BY <1>1, <2>1, <2>2, <2>3
  <2>4. CASE k >= 1
    BY <1>1, <2>1, <2>2, <2>4
  <2>5. QED
    BY <1>2, <1>4, <2>3, <2>4
<1>8. QED
  BY <1>7 DEF OlderThanAnHour

(* A usable quota snapshot stays usable for an hour: a duplicate or a repair *)
(* leaves it alone, and the payload prune, which alone blanks it, takes no   *)
(* row that may be younger.                                                  *)
THEOREM UsablePayloadsStand == Spec => UsablePayloadSurvives
<1> DEFINE Kept == \A r \in raws, s \in raws' :
             r.id = s.id /\ r.payload = "usable" /\ s.payload # "usable"
               => s.payload = "empty" /\ OlderThanAnHour(r)
<1>1. ASSUME TypeOK, TablesInv, [Next]_vars PROVE Kept
  <2> SUFFICES ASSUME NEW r \in raws, NEW s \in raws', r.id = s.id,
                      r.payload = "usable", s.payload # "usable"
               PROVE  s.payload = "empty" /\ OlderThanAnHour(r)
    OBVIOUS
  <2>0. \A q \in raws : q.id = r.id => q = r
    BY <1>1 DEF TablesInv
  <2>1. ASSUME NEW req \in Requests, Ingest(req) PROVE FALSE
    <3>1. CASE \E id \in RawIds : IngestNew(req, id)
      BY <2>0, <3>1 DEF IngestNew
    <3>2. CASE IngestDuplicate(req)
      <4> PICK e \in events : \E raw \in RawOf(e) :
                raws' = (raws \ {raw}) \cup {Repaired(raw, req)}
        BY <3>2 DEF IngestDuplicate
      <4>1. PICK raw \in RawOf(e) : raws' = (raws \ {raw}) \cup {Repaired(raw, req)}
        OBVIOUS
      <4>2. raw \in raws /\ raw \in RawRow
        BY <1>1 DEF RawOf, TypeOK
      <4>3. Repaired(raw, req).id = raw.id
        BY <2>1, <4>2, RepairedType
      <4>4. s = Repaired(raw, req) /\ raw = r
        BY <2>0, <4>1, <4>2, <4>3
      <4>5. QED
        BY <4>4 DEF Repaired
    <3>3. QED
      BY <2>1, <3>1, <3>2 DEF Ingest
  <2>2. CASE PruneOrphanRawEvents
    BY <2>0, <2>2 DEF PruneOrphanRawEvents
  <2>3. CASE PruneRawEventPayloads
    <3>1. PICK q \in raws : s = IF PayloadExpired(q) THEN [q EXCEPT !.payload = "empty"] ELSE q
      BY <2>3 DEF PruneRawEventPayloads
    <3>2. s.id = q.id
      BY <1>1, <3>1 DEF TypeOK, RawRow
    <3>3. q = r
      BY <2>0, <3>2
    <3>4. PayloadExpired(r) /\ s.payload = "empty"
      BY <1>1, <3>1, <3>3 DEF TypeOK, RawRow
    <3>5. QED
      BY <1>1, <3>4, ExpiredIsOlder
  <2>4. ASSUME UNCHANGED raws PROVE FALSE
    BY <2>0, <2>4
  <2>5. QED
    BY <1>1, <2>1, <2>2, <2>3, <2>4
       DEF Next, Tick, RollupDaily, PruneOldEvents, AbandonPass, tables, vars
<1>2. TypeOK /\ TablesInv /\ [Next]_vars => [Kept]_vars
  BY <1>1
<1>3. QED
  BY <1>2, TypeInit, TypeNext, TablesInit, TablesNext, PTL DEF Spec, UsablePayloadSurvives

-------------------------------------------------------------------------------
(* Aggregates.  Of finitely many events one comes first in the ranking, for  *)
(* any two events compare.                                                   *)
LEMMA LeastNumber ==
  ASSUME NEW S \in SUBSET Nat, S # {}
  PROVE  \E x \in S : \A y \in S : x <= y
<1>1. \E x \in S : \A y \in S : ~ (<<y, x>> \in OpToRel(<, Nat))
  BY NatLessThanWellFounded, WFMin
<1>2. \E x \in S : \A y \in S : ~ (y < x)
  BY <1>1 DEF OpToRel
<1>3. QED
  BY <1>2

LEMMA FirstExists ==
  ASSUME NEW G, IsFiniteSet(G), G # {}, NEW before,
         \A x \in G : <<x, x>> \notin before,
         \A x, y, z \in G : <<x, y>> \in before /\ <<y, z>> \in before => <<x, z>> \in before,
         \A x, y \in G : x = y \/ <<x, y>> \in before \/ <<y, x>> \in before
  PROVE  \E x \in G : \A y \in G : y = x \/ <<x, y>> \in before
<1> DEFINE Above(x)  == {y \in G : <<y, x>> \in before}
           count(x) == Cardinality(Above(x))
           counts   == {n \in Nat : \E x \in G : count(x) = n}
<1>1. \A x \in G : Above(x) \in SUBSET G
  OBVIOUS
<1>2. \A x \in G : IsFiniteSet(Above(x)) /\ count(x) \in Nat
  <2>1. SUFFICES ASSUME NEW x \in G PROVE IsFiniteSet(Above(x)) /\ count(x) \in Nat
    OBVIOUS
  <2> HIDE DEF Above
  <2>2. IsFiniteSet(Above(x))
    BY <1>1, FS_Subset
  <2>3. QED
    BY <2>2, FS_CardinalityType
<1>3. counts \in SUBSET Nat /\ counts # {}
  <2>1. \A x \in G : count(x) \in counts
    <3> HIDE DEF count
    <3>1. QED
      BY <1>2
  <2>2. QED
    BY <2>1
<1>4. PICK x \in G : \A y \in G : count(x) <= count(y)
  <2> HIDE DEF count
  <2>1. \A y \in G : count(y) \in counts
    BY <1>2
  <2>2. \A n \in counts : \E x \in G : count(x) = n
    OBVIOUS
  <2> HIDE DEF counts
  <2>3. PICK n \in counts : \A m \in counts : n <= m
    BY <1>3, LeastNumber
  <2>4. PICK x \in G : count(x) = n
    BY <2>2
  <2>5. QED
    BY <2>1, <2>3, <2>4
<1>5. ASSUME NEW y \in G, <<y, x>> \in before PROVE FALSE
  <2>1. Above(y) \in SUBSET Above(x) /\ y \in Above(x) /\ y \notin Above(y)
    BY <1>5
  <2>2. IsFiniteSet(Above(x)) /\ count(x) \in Nat /\ count(y) \in Nat
    BY <1>2
  <2>3. count(y) <= count(x) /\ (count(x) = count(y) => Above(x) = Above(y))
    <3> HIDE DEF Above
    <3>1. QED
      BY <2>1, <2>2, FS_Subset, Zenon
  <2>4. count(x) = count(y)
    <3> HIDE DEF count
    <3>1. QED
      BY <1>4, <2>2, <2>3
  <2>5. QED
    BY <2>1, <2>3, <2>4
<1>6. QED
  BY <1>4, <1>5

LEMMA QualityIsNat ==
  ASSUME NEW e
  PROVE  Quality(e) \in Nat
<1> DEFINE filled    == {g \in Fields : e.canon.fields[g] # NULL}
           weight(f) == {f} \X (1 .. QualityWeight[f])
           weights   == {weight(f) : f \in filled}
           w         == [f \in filled |-> weight(f)]
<1>1. IsFiniteSet(filled)
  <2>1. filled \in SUBSET Fields
    OBVIOUS
  <2> HIDE DEF filled
  <2>2. QED
    BY <2>1, FS_Subset, StoreAssumption
<1>2. IsFiniteSet(weights)
  <2>1. w \in Surjection(filled, weights)
    BY DEF Surjection
  <2> HIDE DEF filled, weights, w
  <2>2. QED
    BY <1>1, <2>1, FS_Surjection
<1>3. \A S \in weights : IsFiniteSet(S)
  <2>1. ASSUME NEW f \in filled PROVE IsFiniteSet(weight(f))
    <3>1. QualityWeight[f] \in Nat
      BY StoreAssumption
    <3>2. IsFiniteSet({f})
      BY FS_Singleton
    <3>4. PICK n \in Nat : n = QualityWeight[f]
      BY <3>1
    <3>5. IsFiniteSet(1 .. n)
      BY FS_Interval
    <3>3. QED
      BY <3>2, <3>4, <3>5, FS_Product
  <2>2. QED
    BY <2>1
<1>4. IsFiniteSet(UNION weights)
  <2> HIDE DEF weights
  <2>1. QED
    BY <1>2, <1>3, FS_UNION
<1>5. Cardinality(UNION weights) \in Nat
  BY <1>4, FS_CardinalityType
<1>6. QED
  BY <1>5 DEF Quality

(* No two event ids are alike.                                               *)
RanksDiffer == \A i, j \in RawIds : EventRank[i] = EventRank[j] => i = j

Ranked(e) == Priority(e) \in Nat /\ Quality(e) \in Nat /\ e.day \in Nat /\ EventRank[e.raw] \in Nat

LEMMA OutranksOrders ==
  ASSUME NEW G, \A e \in G : Ranked(e)
  PROVE  /\ \A x \in G : ~ Outranks(x, x)
         /\ \A x, y, z \in G : Outranks(x, y) /\ Outranks(y, z) => Outranks(x, z)
         /\ \A x, y \in G : EventRank[x.raw] # EventRank[y.raw] => Outranks(x, y) \/ Outranks(y, x)
<1>1. \A x \in G : ~ Outranks(x, x)
  BY DEF Ranked, Outranks
<1>2. ASSUME NEW x \in G, NEW y \in G, NEW z \in G, Outranks(x, y), Outranks(y, z)
      PROVE  Outranks(x, z)
  <2>1. Ranked(x) /\ Ranked(y) /\ Ranked(z)
    OBVIOUS
  <2>2. QED
    BY <1>2, <2>1 DEF Ranked, Outranks
<1>3. ASSUME NEW x \in G, NEW y \in G, EventRank[x.raw] # EventRank[y.raw]
      PROVE  Outranks(x, y) \/ Outranks(y, x)
  <2>1. Ranked(x) /\ Ranked(y)
    OBVIOUS
  <2>2. QED
    BY <1>3, <2>1 DEF Ranked, Outranks
<1>4. QED
  BY <1>1, <1>2, <1>3

(* So of the events of one logical event the rollup counts one.              *)
LEMMA DedupKeepsOne ==
  ASSUME TypeOK, TablesInv, RanksDiffer, IsFiniteSet(events), NEW S \in SUBSET events,
         NEW e \in Countable(S)
  PROVE  \E d \in Deduped(Countable(S)) : LogicalOf[d.key] = LogicalOf[e.key]
<1> DEFINE G == {d \in Countable(S) : LogicalOf[d.key] = LogicalOf[e.key]}
           before == {p \in G \X G : Outranks(p[1], p[2])}
<1>1. G \in SUBSET events /\ e \in G
  BY DEF Countable
<1>2. \A d \in G : Ranked(d)
  <2>1. SUFFICES ASSUME NEW d \in G PROVE Ranked(d)
    OBVIOUS
  <2>2. d \in EventRow /\ d \in events
    BY <1>1 DEF TypeOK
  <2>3. \E r \in raws : r.id = d.raw
    BY <2>2 DEF TablesInv
  <2>4. (CHOOSE r \in raws : r.id = d.raw) \in RawRow
    BY <2>3 DEF TypeOK
  <2>5. Priority(d) \in Nat
    BY <2>4, PriorityIsNat DEF Priority, RawRow
  <2>6. d.day \in Nat /\ EventRank[d.raw] \in Nat
    BY <2>2, StoreAssumption DEF EventRow
  <2>7. QED
    BY <2>5, <2>6, QualityIsNat DEF Ranked
<1>3. IsFiniteSet(G)
  BY <1>1, FS_Subset
<1>4. \A x, y \in G : x = y \/ EventRank[x.raw] # EventRank[y.raw]
  <2>1. SUFFICES ASSUME NEW x \in G, NEW y \in G, EventRank[x.raw] = EventRank[y.raw] PROVE x = y
    OBVIOUS
  <2>2. x \in events /\ y \in events /\ x.raw \in RawIds /\ y.raw \in RawIds
    BY <1>1 DEF TypeOK, EventRow
  <2>3. QED
    BY <2>1, <2>2 DEF RanksDiffer, TablesInv
<1>5. \A x, y \in G : <<x, y>> \in before <=> Outranks(x, y)
  OBVIOUS
<1> HIDE DEF G, before
<1>6. /\ \A x \in G : <<x, x>> \notin before
      /\ \A x, y, z \in G : <<x, y>> \in before /\ <<y, z>> \in before => <<x, z>> \in before
      /\ \A x, y \in G : x = y \/ <<x, y>> \in before \/ <<y, x>> \in before
  <2>1. /\ \A x \in G : ~ Outranks(x, x)
        /\ \A x, y, z \in G : Outranks(x, y) /\ Outranks(y, z) => Outranks(x, z)
        /\ \A x, y \in G : EventRank[x.raw] # EventRank[y.raw] => Outranks(x, y) \/ Outranks(y, x)
    BY <1>2, OutranksOrders
  <2>2. QED
    BY <1>4, <1>5, <2>1
<1>7. PICK d \in G : \A o \in G : o = d \/ <<d, o>> \in before
  BY <1>1, <1>3, <1>6, FirstExists, Zenon
<1>8. d \in Countable(S) /\ LogicalOf[d.key] = LogicalOf[e.key]
  BY DEF G
<1>9. \A o \in Countable(S) : LogicalOf[o.key] = LogicalOf[d.key] => o = d \/ Outranks(d, o)
  <2>1. ASSUME NEW o \in Countable(S), LogicalOf[o.key] = LogicalOf[d.key]
        PROVE  o = d \/ Outranks(d, o)
    <3>1. o \in G
      BY <1>8, <2>1 DEF G
    <3>2. QED
      BY <1>5, <1>7, <3>1
  <2>2. QED
    BY <2>1
<1>10. QED
  BY <1>8, <1>9 DEF Deduped

-------------------------------------------------------------------------------
(* What the next rollup recomputes it will find again: an event behind each  *)
(* contribution from the watermark on.                                       *)
Behind(c, S, since) == \E e \in S : /\ e.day >= since /\ KindOf[e.key] = "usage"
                                    /\ LogicalOf[e.key] = LogicalOf[c.key]

RollupInv ==
  /\ IsFiniteSet(events)
  /\ \A c \in rollup : c.day >= watermark => Behind(c, events, watermark)

LEMMA RollupInit == Init => RollupInv
BY FS_EmptySet DEF Init, RollupInv

(* A prune takes only what lies before the watermark.                        *)
LEMMA PruneTakesSettled ==
  ASSUME TypeOK, PassInv, RetentionDays > MaxPassDays, passDay # NoPass, NEW e \in Prunable
  PROVE  e.day < watermark
<1>1. e.day < day - RetentionDays
  BY DEF Prunable, PastHotWindow
<1>2. watermark = passDay - 1 /\ day <= passDay + MaxPassDays
  BY DEF PassInv
<1>3. e.day \in Nat /\ day \in Nat /\ passDay \in Nat
  BY DEF TypeOK, EventRow, NoPass, Prunable
<1>4. QED
  BY <1>1, <1>2, <1>3, StoreAssumption

LEMMA ScopeIsBehind ==
  ASSUME NEW c \in Contributions(Deduped(RollupScope))
  PROVE  \E e \in events : /\ c.day = e.day /\ c.key = e.key /\ e.day >= watermark
                           /\ KindOf[e.key] = "usage"
BY DEF Contributions, Deduped, RollupScope, Countable, RollupSince

LEMMA RollupNext ==
  ASSUME TypeOK, PassInv, TablesInv, RollupInv, RetentionDays > MaxPassDays, [Next]_vars
  PROVE  RollupInv'
<1>0. /\ watermark \in Int /\ day \in Nat /\ watermark <= day - 1
      /\ \A e \in events : e.day \in Nat
      /\ \A c \in rollup : c.day \in Nat
  BY DEF TypeOK, EventRow, Contribution, NoWatermark
<1>1. ASSUME UNCHANGED <<rollup, watermark>>, IsFiniteSet(events'),
             \A e \in events : e.day >= watermark
                => \E n \in events' : n.key = e.key /\ n.day = e.day
      PROVE  RollupInv'
  <2>1. SUFFICES ASSUME NEW c \in rollup, c.day >= watermark PROVE Behind(c, events', watermark)
    BY <1>1 DEF RollupInv
  <2>2. PICK e \in events : /\ e.day >= watermark /\ KindOf[e.key] = "usage"
                            /\ LogicalOf[e.key] = LogicalOf[c.key]
    BY <2>1 DEF RollupInv, Behind
  <2>3. QED
    BY <1>1, <2>2 DEF Behind
<1>2. ASSUME NEW req \in Requests, Ingest(req) PROVE RollupInv'
  <2>1. CASE \E id \in RawIds : IngestNew(req, id)
    <3>1. PICK e : events' = events \cup {e}
      BY <2>1 DEF IngestNew
    <3>2. IsFiniteSet(events')
      BY <3>1, FS_AddElement DEF RollupInv
    <3>3. QED
      BY <1>1, <1>2, <3>1, <3>2 DEF Ingest
  <2>2. CASE IngestDuplicate(req)
    <3>1. PICK e \in events, e2 \in EventRow :
            e2.key = e.key /\ e2.day = e.day /\ events' = (events \ {e}) \cup {e2}
      BY <2>2, DuplicateStep
    <3>2. IsFiniteSet(events')
      BY <3>1, FS_AddElement, FS_RemoveElement DEF RollupInv
    <3>3. QED
      BY <1>1, <1>2, <3>1, <3>2 DEF Ingest
  <2>3. QED
    BY <1>2, <2>1, <2>2 DEF Ingest
<1>3. CASE RollupDaily
  <2> DEFINE fresh == Contributions(Deduped(RollupScope))
  <2>1. /\ rollup' = {c \in rollup : c.day < watermark} \cup fresh
        /\ watermark' = day - 1 /\ events' = events
    BY <1>3 DEF RollupDaily, RollupSince, LastSettledDay, tables
  <2>2. ASSUME NEW c \in rollup', c.day >= watermark' PROVE Behind(c, events', watermark')
    <3>1. CASE c \in fresh
      <4>1. PICK e \in events : c.day = e.day /\ c.key = e.key /\ KindOf[e.key] = "usage"
        BY <3>1, ScopeIsBehind
      <4>2. QED
        BY <2>1, <2>2, <4>1 DEF Behind
    <3>2. CASE c \in rollup /\ c.day < watermark
      BY <1>0, <2>1, <2>2, <3>2
    <3> HIDE DEF fresh
    <3>3. QED
      BY <2>1, <2>2, <3>1, <3>2
  <2>3. QED
    BY <2>1, <2>2 DEF RollupInv
<1>4. CASE PruneOldEvents
  <2>1. PICK B \in OldestBatch(Prunable) : events' = events \ B /\ UNCHANGED <<rollup, watermark>>
    BY <1>4 DEF PruneOldEvents
  <2>2. \A e \in B : e.day < watermark
    BY <1>4, PruneTakesSettled DEF PruneOldEvents, OldestBatch
  <2>3. events' \in SUBSET events
    BY <2>1
  <2>4. IsFiniteSet(events')
    BY <2>3, FS_Subset DEF RollupInv
  <2>5. \A e \in events : e.day >= watermark => e \in events'
    BY <1>0, <2>1, <2>2
  <2>6. QED
    BY <1>1, <2>1, <2>4, <2>5
<1>5. ASSUME UNCHANGED <<events, rollup, watermark>> PROVE RollupInv'
  BY <1>5 DEF RollupInv
<1>6. QED
  BY <1>2, <1>3, <1>4, <1>5 DEF Next, Tick, AbandonPass, PruneOrphanRawEvents,
                                PruneRawEventPayloads, tables, vars

(* A logical event that the rollup counts is counted for ever, provided that *)
(* the hot window is longer than a retention pass.                           *)
THEOREM AggregatesAreKept ==
  ASSUME RetentionDays > MaxPassDays, RanksDiffer
  PROVE  Spec => AggregateKept
<1> DEFINE Kept == \A c \in rollup : \E n \in rollup' : LogicalOf[n.key] = LogicalOf[c.key]
<1>1. ASSUME TypeOK, TablesInv, RollupInv, [Next]_vars PROVE Kept
  <2>1. CASE RollupDaily
    <3>1. SUFFICES ASSUME NEW c \in rollup
                   PROVE  \E n \in rollup' : LogicalOf[n.key] = LogicalOf[c.key]
      OBVIOUS
    <3>2. rollup' = {o \in rollup : o.day < watermark} \cup Contributions(Deduped(RollupScope))
      BY <2>1 DEF RollupDaily, RollupSince
    <3>3. CASE c.day < watermark
      BY <3>2, <3>3
    <3>4. CASE c.day >= watermark
      <4> DEFINE S == {e \in events : e.day >= RollupSince}
      <4>1. PICK e \in events : /\ e.day >= watermark /\ KindOf[e.key] = "usage"
                                /\ LogicalOf[e.key] = LogicalOf[c.key]
        BY <1>1, <3>4 DEF RollupInv, Behind
      <4>2. RawOf(e) # {}
        BY <1>1 DEF TablesInv, RawOf
      <4>3. e \in Countable(S) /\ S \in SUBSET events
        BY <4>1, <4>2 DEF Countable, RollupSince
      <4>4. RollupScope = Countable(S)
        BY DEF RollupScope
      <4> HIDE DEF S
      <4>5. PICK d \in Deduped(Countable(S)) : LogicalOf[d.key] = LogicalOf[e.key]
        BY <1>1, <4>3, DedupKeepsOne DEF RollupInv
      <4>6. [day |-> d.day, key |-> d.key, canon |-> d.canon] \in rollup'
        BY <3>2, <4>4 DEF Contributions
      <4>7. QED
        BY <4>1, <4>5, <4>6
    <3>5. c.day \in Nat /\ watermark \in Int
      BY <1>1 DEF TypeOK, Contribution, NoWatermark
    <3>6. QED
      BY <3>3, <3>4, <3>5
  <2>2. CASE UNCHANGED rollup
    BY <2>2
  <2>3. QED
    BY <1>1, <2>1, <2>2 DEF Next, Tick, Ingest, PruneOldEvents, AbandonPass,
                            PruneOrphanRawEvents, PruneRawEventPayloads, vars
<1>2. TypeOK /\ TablesInv /\ RollupInv /\ [Next]_vars => [Kept]_vars
  BY <1>1
<1>3. TypeOK /\ PassInv /\ TablesInv /\ RollupInv /\ [Next]_vars => RollupInv'
  BY RollupNext
<1>4. QED
  BY <1>2, <1>3, TypeInit, TypeNext, PassInit, PassNext, TablesInit, TablesNext,
     RollupInit, PTL DEF Spec, AggregateKept

===============================================================================
