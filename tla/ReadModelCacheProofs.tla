-------------------------- MODULE ReadModelCacheProofs -------------------------
(***************************************************************************)
(* Type correctness of the read-model cache, and the order of background   *)
(* refreshes, for any number of keys, clients, entries and ingests.        *)
(*                                                                         *)
(* The exclusion of refreshes is a set of keys beside the goroutines; that *)
(* it keeps their order rests on there being one goroutine of a key at     *)
(* most, on the database only growing, and on one entry of a key.          *)
(***************************************************************************)
EXTENDS ReadModelCache, SequenceTheorems, FunctionTheorems, FiniteSetTheorems, TLAPS

Distinct(entries) ==
  \A m, n \in DOMAIN entries : entries[m].key = entries[n].key => m = n

(* What a set leaves of the other entries.                                   *)
LEMMA RemoveAtProperties ==
  ASSUME NEW S, NEW s \in Seq(S), NEW i \in DOMAIN s
  PROVE  /\ RemoveAt(s, i) \in Seq(S)
         /\ Len(RemoveAt(s, i)) = Len(s) - 1
         /\ \A n \in 1 .. Len(s) - 1 : RemoveAt(s, i)[n] = s[IF n < i THEN n ELSE n + 1]
<1> DEFINE before == SubSeq(s, 1, i - 1)
           after  == SubSeq(s, i + 1, Len(s))
<1>1. i \in 1 .. Len(s) /\ Len(s) \in Nat
  BY LenProperties
<1>2. /\ before \in Seq(S) /\ Len(before) = i - 1
      /\ \A n \in 1 .. i - 1 : before[n] = s[n]
  BY <1>1, SubSeqProperties
<1>3. /\ after \in Seq(S) /\ Len(after) = Len(s) - i
      /\ \A n \in 1 .. Len(s) - i : after[n] = s[i + n]
  BY <1>1, SubSeqProperties
<1> HIDE DEF before, after
<1> DEFINE t == before \o after
<1>4. /\ t \in Seq(S) /\ Len(t) = Len(before) + Len(after)
      /\ \A n \in 1 .. Len(before) + Len(after) :
           t[n] = IF n <= Len(before) THEN before[n] ELSE after[n - Len(before)]
  BY <1>2, <1>3, ConcatProperties
<1>5. RemoveAt(s, i) = t
  BY DEF RemoveAt, before, after
<1> HIDE DEF t
<1>6. Len(t) = Len(s) - 1
  BY <1>1, <1>2, <1>3, <1>4
<1>7. \A n \in 1 .. Len(s) - 1 : t[n] = IF n <= i - 1 THEN before[n] ELSE after[n - (i - 1)]
  <2>1. Len(before) = i - 1
    BY <1>2
  <2>2. Len(before) + Len(after) = Len(s) - 1
    BY <1>1, <2>1, <1>3
  <2> HIDE DEF before, after
  <2> QED
    BY <2>1, <2>2, <1>4
<1>8. ASSUME NEW n \in 1 .. Len(s) - 1
      PROVE  t[n] = s[IF n < i THEN n ELSE n + 1]
  <2>1. CASE n < i
    BY <1>1, <1>2, <1>7, <2>1
  <2>2. CASE ~ n < i
    <3>1. n - (i - 1) \in 1 .. Len(s) - i
      BY <1>1, <2>2
    <3>2. t[n] = after[n - (i - 1)]
      BY <1>1, <1>7, <2>2
    <3>3. after[n - (i - 1)] = s[i + (n - (i - 1))]
      BY <1>3, <3>1
    <3>4. i + (n - (i - 1)) = n + 1
      BY <1>1
    <3> QED
      BY <2>2, <3>2, <3>3, <3>4
  <2> QED
    BY <2>1, <2>2
<1> QED
  BY <1>4, <1>5, <1>6, <1>8

LEMMA OthersProperties ==
  ASSUME NEW s \in Seq(Entry), Distinct(s), NEW k
  PROVE  /\ Others(s, k) \in Seq(Entry) /\ Len(Others(s, k)) <= Len(s)
         /\ Distinct(Others(s, k))
         /\ \A n \in DOMAIN Others(s, k) :
              /\ Others(s, k)[n].key # k
              /\ \E m \in DOMAIN s : Others(s, k)[n] = s[m]
<1> DEFINE held == {i \in DOMAIN s : s[i].key = k}
<1>1. CASE held = {}
  <2>1. Others(s, k) = s
    BY <1>1 DEF Others
  <2> QED
    BY <1>1, <2>1, LenProperties
<1>2. CASE held # {}
  <2> DEFINE i == CHOOSE j \in held : TRUE
             t == RemoveAt(s, i)
  <2>1. i \in DOMAIN s /\ s[i].key = k
    BY <1>2
  <2>2. Others(s, k) = t
    BY <1>2 DEF Others
  <2> HIDE DEF i
  <2>3. /\ t \in Seq(Entry)
        /\ Len(t) = Len(s) - 1
        /\ \A n \in 1 .. Len(s) - 1 : t[n] = s[IF n < i THEN n ELSE n + 1]
    BY <2>1, RemoveAtProperties
  <2> HIDE DEF t
  <2>4. DOMAIN t = 1 .. Len(s) - 1 /\ DOMAIN s = 1 .. Len(s) /\ Len(s) \in Nat
    BY <2>3, LenProperties
  <2>5. \A n \in DOMAIN t : /\ (IF n < i THEN n ELSE n + 1) \in DOMAIN s \ {i}
                            /\ t[n] = s[IF n < i THEN n ELSE n + 1]
    BY <2>1, <2>3, <2>4
  <2>6. \A n \in DOMAIN t : t[n].key # k
    BY <2>1, <2>5 DEF Distinct
  <2>7. Distinct(t)
    <3> SUFFICES ASSUME NEW m \in DOMAIN t, NEW n \in DOMAIN t, t[m].key = t[n].key
                 PROVE  m = n
      BY DEF Distinct
    <3>1. (IF m < i THEN m ELSE m + 1) = (IF n < i THEN n ELSE n + 1)
      BY <2>5 DEF Distinct
    <3> QED
      BY <3>1, <2>1, <2>4
  <2> QED
    BY <2>2, <2>3, <2>4, <2>5, <2>6, <2>7
<1> QED
  BY <1>1, <1>2

LEMMA KeptProperties ==
  ASSUME NEW s \in Seq(Entry), Distinct(s), NEW t \in Kept(s)
  PROVE  /\ t \in Seq(Entry) /\ Len(t) <= MaxEntries /\ Distinct(t)
         /\ \A n \in DOMAIN t : \E m \in DOMAIN s : t[n] = s[m]
<1>1. Len(s) \in Nat /\ DOMAIN s = 1 .. Len(s) /\ MaxEntries \in Nat \ {0}
  BY LenProperties, CacheAssumption
<1>2. CASE Len(s) <= MaxEntries
  <2>1. t = s
    BY <1>2 DEF Kept
  <2> QED
    BY <1>2, <2>1
<1>3. CASE Len(s) > MaxEntries
  <2>1. PICK i \in Len(s) - MaxEntries + 1 .. Len(s) : t = SubSeq(s, i, Len(s))
    BY <1>1, <1>3 DEF Kept
  <2>2. i \in 1 .. Len(s) /\ Len(s) - i + 1 <= MaxEntries
    BY <1>1, <1>3, <2>1
  <2>3. /\ t \in Seq(Entry) /\ Len(t) = Len(s) - i + 1
        /\ \A n \in 1 .. Len(s) - i + 1 : t[n] = s[i + n - 1]
    BY <1>1, <2>1, <2>2, SubSeqProperties
  <2>4. DOMAIN t = 1 .. Len(s) - i + 1
    BY <2>3, LenProperties
  <2>5. ASSUME NEW n \in DOMAIN t
        PROVE  i + n - 1 \in DOMAIN s /\ t[n] = s[i + n - 1]
    <3>1. n \in 1 .. Len(s) - i + 1
      BY <2>4
    <3>2. i + n - 1 \in 1 .. Len(s)
      BY <1>1, <2>2, <3>1
    <3> QED
      BY <1>1, <2>3, <3>1, <3>2
  <2>6. Distinct(t)
    <3> SUFFICES ASSUME NEW m \in DOMAIN t, NEW n \in DOMAIN t, t[m].key = t[n].key
                 PROVE  m = n
      BY DEF Distinct
    <3>1. i + m - 1 = i + n - 1
      <4>1. /\ i + m - 1 \in DOMAIN s /\ i + n - 1 \in DOMAIN s
            /\ s[i + m - 1].key = s[i + n - 1].key
        BY <2>5
      <4> QED
        BY <4>1 DEF Distinct
    <3> QED
      BY <3>1, <2>2, <2>4
  <2> QED
    BY <2>2, <2>3, <2>5, <2>6
<1> QED
  BY <1>1, <1>2, <1>3

LEMMA AppendKeeps ==
  ASSUME NEW s \in Seq(Entry), Distinct(s), NEW e \in Entry,
         \A n \in DOMAIN s : s[n].key # e.key
  PROVE  /\ Append(s, e) \in Seq(Entry) /\ Distinct(Append(s, e))
         /\ \A n \in DOMAIN Append(s, e) :
              Append(s, e)[n] = e \/ \E m \in DOMAIN s : Append(s, e)[n] = s[m]
<1> DEFINE t == Append(s, e)
<1>1. /\ t \in Seq(Entry) /\ Len(t) = Len(s) + 1
      /\ \A n \in 1 .. Len(s) : t[n] = s[n]
      /\ t[Len(s) + 1] = e
  BY AppendProperties
<1> HIDE DEF t
<1>2. DOMAIN t = 1 .. Len(s) + 1 /\ DOMAIN s = 1 .. Len(s) /\ Len(s) \in Nat
  BY <1>1, LenProperties
<1>3. ASSUME NEW n \in DOMAIN t
      PROVE  \/ n \in DOMAIN s /\ t[n] = s[n]
             \/ n = Len(s) + 1 /\ t[n] = e
  <2>1. n \in 1 .. Len(s) \/ n = Len(s) + 1
    BY <1>2
  <2> QED
    BY <1>1, <1>2, <2>1
<1>4. Distinct(t)
  BY <1>2, <1>3 DEF Distinct
<1>5. \A n \in DOMAIN t : t[n] = e \/ \E m \in DOMAIN s : t[n] = s[m]
  BY <1>3
<1>6. /\ t \in Seq(Entry) /\ Distinct(t)
      /\ \A n \in DOMAIN t : t[n] = e \/ \E m \in DOMAIN s : t[n] = s[m]
  BY <1>1, <1>4, <1>5
<1> QED
  BY <1>6 DEF t

(* A set brings its entry, keeps or drops the other ones, and no other.      *)
LEMMA SetProperties ==
  ASSUME cache \in Seq(Entry), Distinct(cache),
         NEW k \in Keys, NEW view \in Views, NEW byRefresh \in BOOLEAN,
         Set(k, view, byRefresh)
  PROVE  /\ cache' \in Seq(Entry) /\ Len(cache') <= MaxEntries /\ Distinct(cache')
         /\ \A n \in DOMAIN cache' :
              \/ /\ cache'[n].key = k /\ cache'[n].view = view
                 /\ cache'[n].byRefresh = byRefresh
              \/ cache'[n].key # k /\ \E m \in DOMAIN cache : cache'[n] = cache[m]
<1> DEFINE e == [key |-> k, view |-> view, since |-> FALSE, byRefresh |-> byRefresh]
           s == Others(cache, k)
<1>1. e \in Entry /\ e.key = k /\ e.view = view /\ e.byRefresh = byRefresh
  BY DEF Entry
<1>2. cache' \in Kept(Append(s, e))
  BY DEF Set
<1> HIDE DEF e
<1>3. /\ s \in Seq(Entry) /\ Distinct(s)
      /\ \A n \in DOMAIN s : s[n].key # k /\ \E m \in DOMAIN cache : s[n] = cache[m]
  BY OthersProperties
<1> HIDE DEF s
<1>4. /\ Append(s, e) \in Seq(Entry) /\ Distinct(Append(s, e))
      /\ \A n \in DOMAIN Append(s, e) :
           Append(s, e)[n] = e \/ \E m \in DOMAIN s : Append(s, e)[n] = s[m]
  BY <1>1, <1>3, AppendKeeps
<1>5. /\ cache' \in Seq(Entry) /\ Len(cache') <= MaxEntries /\ Distinct(cache')
      /\ \A n \in DOMAIN cache' : \E m \in DOMAIN Append(s, e) : cache'[n] = Append(s, e)[m]
  BY <1>2, <1>4, KeptProperties
<1>6. ASSUME NEW n \in DOMAIN cache'
      PROVE  \/ cache'[n] = e
             \/ cache'[n].key # k /\ \E m \in DOMAIN cache : cache'[n] = cache[m]
  <2>1. PICK m \in DOMAIN Append(s, e) : cache'[n] = Append(s, e)[m]
    BY <1>5
  <2>2. cache'[n] = e \/ \E i \in DOMAIN s : cache'[n] = s[i]
    BY <1>4, <2>1
  <2>3. \A i \in DOMAIN s : s[i].key # k /\ \E j \in DOMAIN cache : s[i] = cache[j]
    BY <1>3
  <2> QED
    BY <2>2, <2>3
<1> QED
  BY <1>1, <1>5, <1>6

(* Entries that are Same differ in their mark only.                          *)
Same(e, f) == e.key = f.key /\ e.view = f.view /\ e.byRefresh = f.byRefresh

LEMMA MarkProperties ==
  ASSUME cache \in Seq(Entry), Distinct(cache), Len(cache) <= MaxEntries, markDataIngested
  PROVE  /\ cache' \in Seq(Entry) /\ Len(cache') <= MaxEntries /\ Distinct(cache')
         /\ \A n \in DOMAIN cache' : \E m \in DOMAIN cache : Same(cache'[n], cache[m])
<1>1. cache' = [i \in DOMAIN cache |-> [cache[i] EXCEPT !.since = TRUE]]
  BY DEF markDataIngested, Marked
<1>2. DOMAIN cache = 1 .. Len(cache) /\ Len(cache) \in Nat
  BY LenProperties
<1>3. \A i \in DOMAIN cache : cache[i] \in Entry
  BY <1>2, ElementOfSeq
<1>4. \A i \in DOMAIN cache : cache'[i] \in Entry /\ Same(cache'[i], cache[i])
  BY <1>1, <1>3 DEF Entry, Same
<1>5. cache' \in [1 .. Len(cache) -> Entry]
  BY <1>1, <1>2, <1>4
<1>6. cache' \in Seq(Entry) /\ Len(cache') = Len(cache)
  BY <1>2, <1>5, LenProperties, SeqDef
<1>7. Distinct(cache')
  BY <1>1, <1>4 DEF Distinct, Same
<1> QED
  BY <1>1, <1>4, <1>6, <1>7

-------------------------------------------------------------------------------
(* The inductive invariant.                                                  *)
CacheShape == cache \in Seq(Entry) /\ Len(cache) <= MaxEntries /\ Distinct(cache)

JobShape == /\ jobs \subseteq Job /\ inFlight = {j.key : j \in jobs}
            /\ \A i, j \in jobs : i.key = j.key => i = j

OtherShape ==
  /\ data \in 0 .. MaxData
  /\ poll \in Worker /\ client \in [Clients -> Worker]
  /\ failures \in 0 .. MaxFailures

Flags == unmarked \in BOOLEAN /\ dataIngested \in BOOLEAN

Shape == CacheShape /\ JobShape /\ OtherShape /\ Flags

(* What refreshes have stored is from the past of the database, and what a   *)
(* refresh under way is about to store is no older.                          *)
Ordered ==
  /\ \A n \in DOMAIN cache : cache[n].byRefresh => cache[n].view <= data
  /\ \A j \in jobs : j.stage = "set" => j.view <= data
  /\ \A n \in DOMAIN cache, j \in jobs :
       cache[n].byRefresh /\ j.stage = "set" /\ j.key = cache[n].key
         => j.view = Failed \/ j.view >= cache[n].view

Inv == Shape /\ Ordered

LEMMA InitInv == Init => Inv
<1> SUFFICES ASSUME Init PROVE Inv
  OBVIOUS
<1>1. CacheShape
  <2>1. cache = <<>> /\ MaxEntries \in Nat
    BY CacheAssumption DEF Init
  <2>2. cache \in Seq(Entry) /\ Len(cache) = 0 /\ DOMAIN cache = {}
    BY <2>1
  <2> QED
    BY <2>1, <2>2 DEF CacheShape, Distinct
<1>2. JobShape
  <2>1. Failed \in Views /\ ConfigKey \in Keys
    BY CacheAssumption DEF Failed, Views
  <2> QED
    BY <2>1 DEF Init, JobShape, Job
<1>3. OtherShape
  <2>1. Resting \in Worker
    BY CacheAssumption DEF Resting, Worker, Views, Failed
  <2>2. 0 \in 0 .. MaxData /\ 0 \in 0 .. MaxFailures
    BY CacheAssumption
  <2> QED
    BY <2>1, <2>2 DEF Init, OtherShape
<1>5. Flags
  BY DEF Init, Flags
<1>4. Ordered
  <2>1. DOMAIN cache = {} /\ \A j \in jobs : j.stage = "compute"
    BY DEF Init
  <2> QED
    BY <2>1 DEF Ordered
<1> QED
  BY <1>1, <1>2, <1>3, <1>4, <1>5 DEF Inv, Shape

LEMMA BeginProperties ==
  ASSUME JobShape, NEW k \in Keys, Begin(k)
  PROVE  JobShape' /\ \A j \in jobs' : j.stage = "set" => j \in jobs
<1>1. CASE k \in inFlight
  BY <1>1 DEF Begin, workVars, JobShape
<1>2. CASE k \notin inFlight
  <2> DEFINE new == [key |-> k, stage |-> "compute", view |-> Failed]
  <2>1. new \in Job /\ new.key = k /\ new.stage = "compute"
    BY CacheAssumption DEF Job, Views, Failed
  <2>2. inFlight' = inFlight \cup {k} /\ jobs' = jobs \cup {new}
    BY <1>2 DEF Begin, StartJob
  <2> HIDE DEF new
  <2>3. \A j \in jobs : j.key # k
    BY <1>2 DEF JobShape
  <2> QED
    BY <2>1, <2>2, <2>3 DEF JobShape
<1> QED
  BY <1>1, <1>2

(* Every step leaves the other variables well-typed, and data do not shrink. *)
LEMMA ComputeProperties ==
  ASSUME OtherShape, NEW view \in Views, Compute(view)
  PROVE  failures' \in 0 .. MaxFailures /\ (view = Failed \/ view = data)
  BY CacheAssumption DEF OtherShape, Compute

LEMMA ClientStepShape ==
  ASSUME OtherShape, NEW c \in Clients, NEW k \in Keys, NEW refresh,
         HitStale(c, k) \/ Miss(c, k, refresh) \/ Answer(c)
  PROVE  OtherShape' /\ data <= data'
<1> USE DEF OtherShape
<1>1. CASE HitStale(c, k)
  BY <1>1 DEF HitStale, ingestVars
<1>2. CASE Miss(c, k, refresh)
  <2>1. [key |-> k, stage |-> "compute", view |-> Failed] \in Worker
    BY CacheAssumption DEF Worker, Views, Failed
  <2> QED
    BY <1>2, <2>1 DEF Miss, ingestVars
<1>3. CASE ClientComputes(c)
  <2>1. PICK view \in Views :
          /\ Compute(view)
          /\ client' = [client EXCEPT ![c].stage = "set", ![c].view = view]
    BY <1>3 DEF ClientComputes
  <2>2. [client[c] EXCEPT !.stage = "set", !.view = view] \in Worker
    BY DEF Worker
  <2>3. client' = [client EXCEPT ![c] = [client[c] EXCEPT !.stage = "set", !.view = view]]
    BY <2>1
  <2>4. client' \in [Clients -> Worker]
    BY <2>2, <2>3
  <2>5. failures' \in 0 .. MaxFailures
    BY <2>1, ComputeProperties
  <2> QED
    BY <1>3, <2>4, <2>5 DEF ClientComputes, ingestVars
<1>4. Resting \in Worker
  BY CacheAssumption DEF Resting, Worker, Views, Failed
<1>5. CASE AnswerComputed(c) \/ AnswerCached(c) \/ AnswerTemplates(c)
  <2>1. client' = [client EXCEPT ![c] = Resting] /\ UNCHANGED <<data, poll, failures>>
    BY <1>5 DEF AnswerComputed, AnswerCached, AnswerTemplates, ingestVars
  <2> QED
    BY <1>4, <2>1
<1> QED
  BY <1>1, <1>2, <1>3, <1>5 DEF Answer

LEMMA OtherStepShape ==
  ASSUME OtherShape, [Next]_vars
  PROVE  OtherShape' /\ data <= data'
<1> USE DEF OtherShape
<1>1. CASE IngestCommitted \/ HookCommitted
  <2>1. data' = data + 1 /\ data < MaxData /\ UNCHANGED <<poll, client, failures>>
    BY <1>1 DEF IngestCommitted, HookCommitted
  <2> QED
    BY <2>1, CacheAssumption
<1>5. CASE IngestMarked \/ FileChanged \/ LoopTick \/ UNCHANGED vars
  <2>1. UNCHANGED <<data, poll, client, failures>>
    BY <1>5 DEF IngestMarked, FileChanged, LoopTick, ingestVars, vars
  <2> QED
    BY <2>1
<1>2. ASSUME NEW k \in Keys, JobStep(k) PROVE OtherShape' /\ data <= data'
  <2>1. PICK j \in jobs : RefreshComputes(j) \/ RefreshSets(j) \/ RefreshEnds(j)
    BY <1>2 DEF JobStep
  <2>2. CASE RefreshComputes(j)
    <3>1. failures' \in 0 .. MaxFailures
      BY <2>2, ComputeProperties DEF RefreshComputes
    <3> QED
      BY <2>2, <3>1 DEF RefreshComputes, ingestVars
  <2>3. CASE RefreshSets(j) \/ RefreshEnds(j)
    <3>1. UNCHANGED <<data, poll, client, failures>>
      BY <2>3 DEF RefreshSets, RefreshEnds, ingestVars
    <3> QED
      BY <3>1
  <2> QED
    BY <2>1, <2>2, <2>3
<1>3. CASE PollStep
  <2>1. CASE PollMarks
    BY <2>1 DEF PollMarks, markDataIngested, ingestVars, Worker
  <2>2. CASE PollComputes
    <3>1. PICK view \in Views :
            Compute(view) /\ poll' = [poll EXCEPT !.stage = "set", !.view = view]
      BY <2>2 DEF PollComputes
    <3>2. failures' \in 0 .. MaxFailures
      BY <3>1, ComputeProperties
    <3>3. poll' \in Worker
      BY <3>1 DEF Worker
    <3>4. UNCHANGED <<data, client>>
      BY <2>2 DEF PollComputes, ingestVars
    <3> QED
      BY <3>2, <3>3, <3>4
  <2>3. CASE PollSets
    <3>1. Resting \in Worker
      BY CacheAssumption DEF Resting, Worker, Views, Failed
    <3> QED
      BY <2>3, <3>1 DEF PollSets, ingestVars
  <2> QED
    BY <1>3, <2>1, <2>2, <2>3 DEF PollStep
<1>4. ASSUME NEW c \in Clients, NEW k \in Keys, NEW refresh \in BOOLEAN,
             HitStale(c, k) \/ Miss(c, k, refresh) \/ Answer(c)
      PROVE  OtherShape' /\ data <= data'
  BY <1>4, ClientStepShape
<1> QED
  BY <1>1, <1>2, <1>3, <1>4, <1>5, CacheAssumption DEF Next

LEMMA FlagsStep ==
  ASSUME Flags, [Next]_vars
  PROVE  Flags'
<1>1. \A k \in Keys : JobStep(k) => UNCHANGED <<unmarked, dataIngested>>
  BY DEF JobStep, RefreshComputes, RefreshSets, RefreshEnds, ingestVars
<1>2. PollStep => unmarked' = unmarked /\ (dataIngested' = TRUE \/ dataIngested' = dataIngested)
  BY DEF PollStep, PollMarks, PollComputes, PollSets, markDataIngested, ingestVars
<1>3. \A c \in Clients, k \in Keys, refresh \in BOOLEAN :
        HitStale(c, k) \/ Miss(c, k, refresh) => UNCHANGED <<unmarked, dataIngested>>
  BY DEF HitStale, Miss, ingestVars
<1>4. \A c \in Clients :
        Answer(c) => unmarked' = unmarked /\ (dataIngested' = TRUE \/ dataIngested' = dataIngested)
  BY DEF Answer, ClientComputes, AnswerComputed, AnswerCached, AnswerTemplates, markDataIngested,
         ingestVars
<1>5. CASE IngestCommitted \/ HookCommitted \/ IngestMarked \/ FileChanged \/ LoopTick
  BY <1>5, Zenon DEF Flags, IngestCommitted, HookCommitted, IngestMarked, FileChanged, LoopTick,
                     markDataIngested, ingestVars
<1>6. CASE UNCHANGED vars
  BY <1>6 DEF Flags, vars
<1> QED
  BY <1>1, <1>2, <1>3, <1>4, <1>5, <1>6, CacheAssumption DEF Next, Flags

-------------------------------------------------------------------------------
(* What a step does to the refreshes: only a computation makes one ready to  *)
(* store, and what it is ready to store is the database of now.              *)
JobsAfter ==
  /\ JobShape'
  /\ \A j \in jobs' : j.stage = "set" =>
       j \in jobs \/ (cache' = cache /\ j.view \in {Failed, data})

LEMMA RefreshShape ==
  ASSUME JobShape, NEW j \in jobs, NEW stage \in {"set", "end"}, NEW view \in Views,
         inFlight' = inFlight, jobs' = (jobs \ {j}) \cup {[j EXCEPT !.stage = stage, !.view = view]}
  PROVE  JobShape'
<1> DEFINE new == [j EXCEPT !.stage = stage, !.view = view]
<1>1. new \in Job /\ new.key = j.key
  BY DEF JobShape, Job
<1>2. jobs' = (jobs \ {j}) \cup {new}
  OBVIOUS
<1> HIDE DEF new
<1>3. {i.key : i \in jobs'} = {i.key : i \in jobs}
  BY <1>1, <1>2
<1>4. \A i \in jobs : i.key = j.key => i = j
  BY DEF JobShape
<1>5. \A i, l \in jobs' : i.key = l.key => i = l
  BY <1>1, <1>2, <1>4 DEF JobShape
<1>6. jobs' \subseteq Job
  BY <1>1, <1>2 DEF JobShape
<1> QED
  BY <1>3, <1>5, <1>6 DEF JobShape

LEMMA RefreshStepJobs ==
  ASSUME JobShape, OtherShape, NEW j \in jobs,
         RefreshComputes(j) \/ RefreshSets(j) \/ RefreshEnds(j)
  PROVE  JobsAfter
<1>1. CASE RefreshComputes(j)
  <2>1. PICK view \in Views :
          /\ Compute(view)
          /\ jobs' = (jobs \ {j}) \cup {[j EXCEPT !.stage = "set", !.view = view]}
    BY <1>1 DEF RefreshComputes
  <2>2. inFlight' = inFlight /\ cache' = cache
    BY <1>1 DEF RefreshComputes
  <2>3. JobShape'
    BY <2>1, <2>2, RefreshShape
  <2>4. view \in {Failed, data}
    BY <2>1, ComputeProperties
  <2>5. [j EXCEPT !.stage = "set", !.view = view].view = view
    BY DEF JobShape, Job
  <2> QED
    BY <2>1, <2>2, <2>3, <2>4, <2>5 DEF JobsAfter
<1>2. CASE RefreshSets(j)
  <2>1. /\ jobs' = (jobs \ {j}) \cup {[j EXCEPT !.stage = "end", !.view = Failed]}
        /\ inFlight' = inFlight
    BY <1>2 DEF RefreshSets
  <2>2. Failed \in Views
    BY CacheAssumption DEF Failed, Views
  <2>3. JobShape'
    BY <2>1, <2>2, RefreshShape
  <2>4. [j EXCEPT !.stage = "end", !.view = Failed].stage = "end"
    BY DEF JobShape, Job
  <2> QED
    BY <2>1, <2>3, <2>4 DEF JobsAfter
<1>3. CASE RefreshEnds(j)
  <2>1. inFlight' = inFlight \ {j.key} /\ jobs' = jobs \ {j}
    BY <1>3 DEF RefreshEnds
  <2>2. \A i \in jobs : i.key = j.key => i = j
    BY DEF JobShape
  <2>3. inFlight' = {i.key : i \in jobs'}
    BY <2>1, <2>2 DEF JobShape
  <2> QED
    BY <2>1, <2>3 DEF JobsAfter, JobShape
<1> QED
  BY <1>1, <1>2, <1>3

LEMMA StepJobs ==
  ASSUME Shape, [Next]_vars
  PROVE  JobsAfter
<1> USE DEF Shape
<1>1. ASSUME UNCHANGED workVars PROVE JobsAfter
  BY <1>1 DEF workVars, JobsAfter, JobShape
<1>2. ASSUME NEW k \in Keys, Begin(k) PROVE JobsAfter
  BY <1>2, BeginProperties DEF JobsAfter
<1>3. CASE IngestCommitted \/ HookCommitted \/ IngestMarked \/ FileChanged \/ PollStep \/ UNCHANGED vars
  BY <1>1, <1>3 DEF IngestCommitted, HookCommitted, IngestMarked, FileChanged, PollStep, PollMarks,
                    PollComputes, PollSets, workVars, vars
<1>4. CASE LoopTick
  BY <1>2, <1>4, CacheAssumption DEF LoopTick
<1>5. ASSUME NEW k \in Keys, JobStep(k) PROVE JobsAfter
  BY <1>5, RefreshStepJobs DEF JobStep
<1>6. ASSUME NEW c \in Clients, NEW k \in Keys, NEW refresh \in BOOLEAN,
             HitStale(c, k) \/ Miss(c, k, refresh)
      PROVE  JobsAfter
  BY <1>1, <1>2, <1>6 DEF HitStale, Miss
<1>7. ASSUME NEW c \in Clients, Answer(c) PROVE JobsAfter
  <2>1. CASE ClientComputes(c) \/ AnswerComputed(c) \/ AnswerCached(c)
    BY <1>1, <2>1 DEF ClientComputes, AnswerComputed, AnswerCached
  <2>2. CASE AnswerTemplates(c)
    <3>1. client[c].key \in Keys
      BY DEF OtherShape, Worker
    <3> QED
      BY <1>2, <2>2, <3>1 DEF AnswerTemplates
  <2> QED
    BY <1>7, <2>1, <2>2 DEF Answer
<1> QED
  BY <1>3, <1>4, <1>5, <1>6, <1>7 DEF Next

(* What a step does to the entries: one that a refresh has stored is one     *)
(* that was there, or was just stored by the only refresh of its key.        *)
CacheAfter ==
  /\ CacheShape'
  /\ \A n \in DOMAIN cache' : cache'[n].byRefresh =>
       \/ \E m \in DOMAIN cache : Same(cache'[n], cache[m])
       \/ \E j \in jobs : /\ j.stage = "set" /\ j.key = cache'[n].key /\ j.view = cache'[n].view
                          /\ \A i \in jobs' : i.key = j.key => i.stage # "set"

LEMMA SetByOthers ==
  ASSUME CacheShape, NEW k \in Keys, NEW view \in Views, Set(k, view, FALSE)
  PROVE  CacheAfter
<1>1. /\ CacheShape'
      /\ \A n \in DOMAIN cache' :
           cache'[n].byRefresh = FALSE \/ \E m \in DOMAIN cache : cache'[n] = cache[m]
  BY SetProperties DEF CacheShape
<1> QED
  BY <1>1 DEF CacheAfter, Same

LEMMA SetByRefresh ==
  ASSUME CacheShape, JobShape, NEW j \in jobs, RefreshSets(j)
  PROVE  CacheAfter
<1>1. j.key \in Keys /\ j.view \in Views /\ j.stage = "set"
  BY DEF JobShape, Job, RefreshSets
<1>2. Set(j.key, j.view, TRUE)
  BY DEF RefreshSets
<1>3. /\ CacheShape'
      /\ \A n \in DOMAIN cache' :
           \/ cache'[n].key = j.key /\ cache'[n].view = j.view
           \/ \E m \in DOMAIN cache : cache'[n] = cache[m]
  BY <1>1, <1>2, SetProperties DEF CacheShape
<1>4. \A i \in jobs' : i.key = j.key => i.stage # "set"
  <2> DEFINE new == [j EXCEPT !.stage = "end", !.view = Failed]
  <2>1. jobs' = (jobs \ {j}) \cup {new} /\ new.stage = "end"
    BY DEF RefreshSets, JobShape, Job
  <2> HIDE DEF new
  <2>2. \A i \in jobs : i.key = j.key => i = j
    BY DEF JobShape
  <2> QED
    BY <2>1, <2>2
<1> QED
  BY <1>1, <1>3, <1>4 DEF CacheAfter, Same

LEMMA StepCache ==
  ASSUME Shape, [Next]_vars
  PROVE  CacheAfter
<1> USE DEF Shape
<1>1. ASSUME cache' = cache PROVE CacheAfter
  BY <1>1 DEF CacheAfter, CacheShape, Same
<1>2. ASSUME markDataIngested PROVE CacheAfter
  BY <1>2, MarkProperties DEF CacheAfter, CacheShape
<1>3. CASE IngestCommitted \/ HookCommitted \/ LoopTick \/ UNCHANGED vars
  BY <1>1, <1>3 DEF IngestCommitted, HookCommitted, LoopTick, vars
<1>4. CASE IngestMarked \/ FileChanged
  BY <1>2, <1>4 DEF IngestMarked, FileChanged
<1>5. ASSUME NEW k \in Keys, JobStep(k) PROVE CacheAfter
  <2>1. PICK j \in jobs : RefreshComputes(j) \/ RefreshSets(j) \/ RefreshEnds(j)
    BY <1>5 DEF JobStep
  <2>2. CASE RefreshComputes(j) \/ RefreshEnds(j)
    BY <1>1, <2>2 DEF RefreshComputes, RefreshEnds
  <2> QED
    BY <2>1, <2>2, SetByRefresh
<1>6. CASE PollStep
  <2>1. poll.view \in Views /\ ConfigKey \in Keys
    BY CacheAssumption DEF OtherShape, Worker
  <2>2. PollSets => CacheAfter
    BY <2>1, SetByOthers DEF PollSets
  <2> QED
    BY <1>1, <1>2, <1>6, <2>2 DEF PollStep, PollMarks, PollComputes
<1>7. ASSUME NEW c \in Clients, NEW k \in Keys, NEW refresh \in BOOLEAN,
             HitStale(c, k) \/ Miss(c, k, refresh)
      PROVE  CacheAfter
  BY <1>1, <1>7 DEF HitStale, Miss
<1>8. ASSUME NEW c \in Clients, Answer(c) PROVE CacheAfter
  <2>1. client[c].key \in Keys /\ client[c].view \in Views
    BY DEF OtherShape, Worker
  <2>2. AnswerComputed(c) => CacheAfter
    BY <2>1, SetByOthers DEF AnswerComputed
  <2> QED
    BY <1>1, <1>2, <1>8, <2>2 DEF Answer, ClientComputes, AnswerCached, AnswerTemplates
<1> QED
  BY <1>3, <1>4, <1>5, <1>6, <1>7, <1>8 DEF Next

-------------------------------------------------------------------------------
(* Data and views are numbers.                                               *)
LEMMA Numbers ==
  ASSUME Shape
  PROVE  /\ data \in Int
         /\ \A n \in DOMAIN cache : cache[n].view \in Int
         /\ \A j \in jobs : j.view \in Int
<1>1. Views \subseteq Int /\ 0 .. MaxData \subseteq Int
  BY CacheAssumption DEF Views, Failed
<1>2. \A n \in DOMAIN cache : cache[n] \in Entry
  BY LenProperties, ElementOfSeq DEF Shape, CacheShape
<1> QED
  BY <1>1, <1>2 DEF Shape, OtherShape, JobShape, Entry, Job

LEMMA OrderedStep ==
  ASSUME Inv, Shape', data <= data', CacheAfter, JobsAfter
  PROVE  Ordered'
<1> USE DEF Inv
<1>1. /\ data \in Int /\ data' \in Int
      /\ \A n \in DOMAIN cache : cache[n].view \in Int
      /\ \A j \in jobs : j.view \in Int
  <2>1. data' \in Int
    BY CacheAssumption DEF Shape, OtherShape
  <2> QED
    BY <2>1, Numbers
<1>2. Failed <= data
  BY CacheAssumption DEF Shape, OtherShape, Failed
<1>3. ASSUME NEW n \in DOMAIN cache', cache'[n].byRefresh
      PROVE  cache'[n].view <= data'
  <2>1. CASE \E m \in DOMAIN cache : Same(cache'[n], cache[m])
    <3>1. PICK m \in DOMAIN cache : Same(cache'[n], cache[m])
      BY <2>1
    <3>2. cache[m].byRefresh /\ cache[m].view = cache'[n].view
      BY <1>3, <3>1 DEF Same
    <3>3. cache[m].view <= data
      BY <3>2 DEF Ordered
    <3> QED
      BY <1>1, <3>2, <3>3
  <2>2. CASE \E j \in jobs : j.stage = "set" /\ j.view = cache'[n].view
    BY <1>1, <2>2 DEF Ordered
  <2> QED
    BY <1>3, <2>1, <2>2 DEF CacheAfter
<1>4. ASSUME NEW j \in jobs', j.stage = "set"
      PROVE  j.view <= data'
  <2>1. CASE j \in jobs
    BY <1>1, <1>4, <2>1 DEF Ordered
  <2>2. CASE j.view \in {Failed, data}
    BY <1>1, <1>2, <2>2 DEF Failed
  <2> QED
    BY <1>4, <2>1, <2>2 DEF JobsAfter
<1>5. ASSUME NEW n \in DOMAIN cache', NEW i \in jobs',
             cache'[n].byRefresh, i.stage = "set", i.key = cache'[n].key
      PROVE  i.view = Failed \/ i.view >= cache'[n].view
  <2>1. CASE i \in jobs
    <3>1. PICK m \in DOMAIN cache : Same(cache'[n], cache[m])
      BY <1>5 DEF CacheAfter
    <3>2. cache[m].byRefresh /\ i.key = cache[m].key /\ cache[m].view = cache'[n].view
      BY <1>5, <3>1 DEF Same
    <3> QED
      BY <1>5, <2>1, <3>2 DEF Ordered
  <2>2. CASE cache' = cache /\ i.view \in {Failed, data}
    <3>1. cache[n].view <= data
      BY <1>5, <2>2 DEF Ordered
    <3> QED
      BY <1>1, <2>2, <3>1
  <2> QED
    BY <1>5, <2>1, <2>2 DEF JobsAfter
<1> QED
  BY <1>3, <1>4, <1>5 DEF Ordered

LEMMA StepInv == Inv /\ [Next]_vars => Inv'
<1> SUFFICES ASSUME Inv, [Next]_vars PROVE Inv'
  OBVIOUS
<1>1. OtherShape' /\ data <= data'
  BY OtherStepShape DEF Inv, Shape
<1>2. Flags'
  BY FlagsStep DEF Inv, Shape
<1>3. CacheAfter /\ JobsAfter
  BY StepCache, StepJobs DEF Inv
<1>4. Shape'
  BY <1>1, <1>2, <1>3 DEF Shape, CacheAfter, JobsAfter
<1> QED
  BY <1>1, <1>3, <1>4, OrderedStep DEF Inv

(* A key for each entry, counted.                                            *)
LEMMA KeysAreCounted ==
  ASSUME CacheShape
  PROVE  Cardinality(CachedKeys) = Len(cache)
<1> DEFINE keyOf == [i \in DOMAIN cache |-> cache[i].key]
<1>1. DOMAIN cache = 1 .. Len(cache) /\ Len(cache) \in Nat
  BY LenProperties DEF CacheShape
<1>2. keyOf \in Bijection(DOMAIN cache, CachedKeys)
  <2>1. keyOf \in [DOMAIN cache -> CachedKeys]
    BY DEF CachedKeys
  <2>2. \A a, b \in DOMAIN cache : keyOf[a] = keyOf[b] => a = b
    BY DEF CacheShape, Distinct
  <2>3. \A k \in CachedKeys : \E i \in DOMAIN cache : keyOf[i] = k
    BY DEF CachedKeys
  <2> QED
    BY <2>1, <2>2, <2>3, Fun_IsBij
<1>3. ExistsBijection(1 .. Len(cache), CachedKeys)
  BY <1>1, <1>2 DEF ExistsBijection
<1>4. IsFiniteSet(1 .. Len(cache)) /\ Cardinality(1 .. Len(cache)) = Len(cache)
  <2>1. /\ IsFiniteSet(1 .. Len(cache))
        /\ Cardinality(1 .. Len(cache)) = IF 1 > Len(cache) THEN 0 ELSE Len(cache) - 1 + 1
    BY <1>1, FS_Interval
  <2> QED
    BY <1>1, <2>1
<1> QED
  BY <1>3, <1>4, FS_Bijection

(* TypeOK: among the rest, one entry of a key, at most MaxEntries of them,   *)
(* and the keys in flight are those of the goroutines.                       *)
THEOREM CacheTyped == Spec => []TypeOK
<1>1. Inv => TypeOK
  BY KeysAreCounted DEF Inv, Shape, CacheShape, JobShape, OtherShape, Flags, TypeOK
<1> QED
  BY <1>1, InitInv, StepInv, PTL DEF Spec

(* RefreshesKeepOrder: what a background refresh has stored is replaced by   *)
(* that of a later one of its key, or by the view of a failed one, never by  *)
(* an earlier view of the database.                                          *)
THEOREM RefreshOrder == Spec => RefreshesKeepOrder
<1>1. ASSUME Inv, [Next]_vars, NEW e \in Range(cache), NEW n \in Range(cache)',
             e.key = n.key, e.byRefresh, n.byRefresh
      PROVE  n.view >= e.view \/ n.view = Failed
  <2>1. PICK m \in DOMAIN cache : e = cache[m]
    BY DEF Range
  <2>2. PICK i \in DOMAIN cache' : n = cache'[i]
    BY DEF Range
  <2>3. CacheAfter
    BY <1>1, StepCache DEF Inv
  <2>4. e.view \in Int
    BY <1>1, <2>1, Numbers DEF Inv
  <2>5. CASE \E l \in DOMAIN cache : Same(cache'[i], cache[l])
    <3>1. PICK l \in DOMAIN cache : Same(cache'[i], cache[l])
      BY <2>5
    <3>2. cache[l].key = cache[m].key
      BY <1>1, <2>1, <2>2, <3>1 DEF Same
    <3>3. l = m
      BY <1>1, <3>2 DEF Inv, Shape, CacheShape, Distinct
    <3> QED
      BY <2>1, <2>2, <2>4, <3>1, <3>3 DEF Same
  <2>6. CASE \E j \in jobs : j.stage = "set" /\ j.key = cache'[i].key /\ j.view = cache'[i].view
    BY <1>1, <2>1, <2>2, <2>6 DEF Inv, Ordered
  <2> QED
    BY <1>1, <2>2, <2>3, <2>5, <2>6 DEF CacheAfter
<1>2. Inv /\ [Next]_vars =>
        [\A e \in Range(cache), n \in Range(cache') :
           e.key = n.key /\ e.byRefresh /\ n.byRefresh
             => n.view >= e.view \/ n.view = Failed]_vars
  BY <1>1
<1> QED
  BY <1>2, InitInv, StepInv, PTL DEF Spec, RefreshesKeepOrder

===============================================================================
