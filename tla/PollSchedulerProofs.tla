-------------------------- MODULE PollSchedulerProofs --------------------------
(***************************************************************************)
(* Rate limits hold for any number of accounts and waiting clients, any    *)
(* tiers of the backoff and any lengths of limits.  What makes them hold   *)
(* is not the gates alone, since an account without a snapshot is fetched  *)
(* whatever they say: it is that an account learns of a limit together     *)
(* with its first snapshot, and never loses the snapshot again.            *)
(***************************************************************************)
EXTENDS PollScheduler, FiniteSetTheorems, WellFoundedInduction, TLAPS

Shown == Snapshots \cup {NoSnap}

LimitsAreLearned ==
  /\ limited \in [Accounts -> Nat]
  /\ snap \in [Accounts -> Shown]
  /\ job \in [Accounts -> {"none", "due", "fetch"}]
  /\ \A a \in Accounts : snap[a] = NoSnap => limited[a] = 0

(* A fetch, failed or not, leaves a snapshot to show.                        *)
LEMMA FetchesShow ==
  ASSUME NEW a \in Accounts, LimitsAreLearned,
         NEW result \in Answered \cup Failed(a)
  PROVE  result \in Shown /\ result # NoSnap
<1>1. Answered \subseteq Snapshots
  BY PollAssumption DEF Answered
<1>2. snap[a] \in Shown
  BY DEF LimitsAreLearned
<1>3. CASE result \in Answered
  BY <1>1, <1>3 DEF Snapshots, NoSnap, Shown
<1>4. CASE result \in Failed(a)
  <2>1. CASE snap[a].status \in {"ok", "limited"}
    <3>1. snap[a] \in Snapshots
      BY <1>2, <2>1 DEF Shown, NoSnap
    <3>2. result = [snap[a] EXCEPT !.status = "error"]
      BY <1>4, <2>1 DEF Failed
    <3> QED
      BY <3>1, <3>2 DEF Snapshots, NoSnap, Shown
  <2>2. CASE snap[a].status \notin {"ok", "limited"}
    <3>1. result \in Answers \/ result = NoUsage
      BY <1>4, <2>2 DEF Failed
    <3>2. CASE result \in Answers
      <4>1. result \in Snapshots
        BY <3>2, PollAssumption
      <4> QED
        BY <4>1 DEF Snapshots, NoSnap, Shown
    <3>3. CASE result = NoUsage
      BY <3>3 DEF Snapshots, NoSnap, NoUsage, Shown
    <3> QED
      BY <3>1, <3>2, <3>3
  <2> QED
    BY <2>1, <2>2
<1> QED
  BY <1>3, <1>4

(* The new rest of a limit is one of the lengths, the old rest or none.      *)
LEMMA LimitsAreNumbers ==
  ASSUME NEW a \in Accounts, NEW status, LimitsAreLearned, NEW rest \in RateLimitAfter(a, status)
  PROVE  rest \in Nat
<1>1. limited[a] \in Nat
  BY DEF LimitsAreLearned
<1>2. RateLimits \subseteq Nat
  BY PollAssumption
<1> QED
  BY <1>1, <1>2 DEF RateLimitAfter

LEMMA InitLearned == Init => LimitsAreLearned
  BY DEF Init, LimitsAreLearned, Shown

LEMMA FetchKeepsLearned ==
  ASSUME LimitsAreLearned, NEW a \in Accounts, EndFetch(a)
  PROVE  LimitsAreLearned'
<1>1. PICK result \in Answered \cup Failed(a), changed \in BOOLEAN :
        /\ \E rest \in RateLimitAfter(a, result.status) : limited' = [limited EXCEPT ![a] = rest]
        /\ snap' = [snap EXCEPT ![a] = result]
  BY DEF EndFetch
<1>2. PICK rest \in RateLimitAfter(a, result.status) : limited' = [limited EXCEPT ![a] = rest]
  BY <1>1
<1>3. result \in Shown /\ result # NoSnap
  BY FetchesShow
<1>4. rest \in Nat
  BY LimitsAreNumbers
<1>5. job' = [job EXCEPT ![a] = "none"]
  BY DEF EndFetch
<1> QED
  BY <1>1, <1>2, <1>3, <1>4, <1>5 DEF LimitsAreLearned

LEMMA TimeKeepsLearned ==
  ASSUME LimitsAreLearned, Advance
  PROVE  LimitsAreLearned'
<1>1. /\ limited' = [a \in Accounts |-> IF limited[a] > 0 THEN limited[a] - 1 ELSE 0]
      /\ snap' = snap /\ job' = job
  BY DEF Advance
<1>2. \A a \in Accounts : limited'[a] \in Nat /\ (limited[a] = 0 => limited'[a] = 0)
  BY <1>1 DEF LimitsAreLearned
<1>3. limited' \in [Accounts -> Nat]
  BY <1>1, <1>2
<1> QED
  BY <1>1, <1>2, <1>3 DEF LimitsAreLearned

(* All other steps leave limits and snapshots alone.                         *)
JobsOnly == /\ UNCHANGED <<limited, snap>>
            /\ job' \in [Accounts -> {"none", "due", "fetch"}]

LEMMA LeadingIsJobsOnly ==
  ASSUME LimitsAreLearned, NEW c, NEW targets, NEW kind,
         Lead(c, targets, kind) \/ Follow(c), UNCHANGED <<limited, snap>>
  PROVE  /\ JobsOnly
         /\ \A a \in Accounts : job'[a] = "fetch" => job[a] = "fetch"
  BY DEF LimitsAreLearned, JobsOnly, Lead, Follow

LEMMA StepKeepsLearned ==
  ASSUME LimitsAreLearned, [Next]_vars
  PROVE  LimitsAreLearned'
<1>1. ASSUME JobsOnly PROVE LimitsAreLearned'
  BY <1>1 DEF LimitsAreLearned, JobsOnly
<1>2. CASE Advance
  BY <1>2, TimeKeepsLearned
<1>3. CASE RequestPoll \/ EndGeneration \/ UNCHANGED vars
  BY <1>1, <1>3 DEF LimitsAreLearned, JobsOnly, RequestPoll, EndGeneration, vars, backoff
<1>4. CASE LoopLeads
  BY <1>1, <1>4, LeadingIsJobsOnly DEF LoopLeads, backoff
<1>5. CASE LoopFollows
  BY <1>1, <1>5, LeadingIsJobsOnly DEF LoopFollows, backoff
<1>6. ASSUME NEW w \in Waiters, NEW targets, NEW force, HandlePoll(w, targets, force)
      PROVE  LimitsAreLearned'
  BY <1>1, <1>6, LeadingIsJobsOnly DEF HandlePoll, backoff
<1>7. ASSUME NEW w \in Waiters, WaiterLeaves(w) PROVE LimitsAreLearned'
  BY <1>1, <1>7 DEF LimitsAreLearned, JobsOnly, WaiterLeaves, backoff
<1>8. ASSUME NEW a \in Accounts, AccountStep(a) PROVE LimitsAreLearned'
  <2>1. CASE EndFetch(a)
    BY <2>1, FetchKeepsLearned
  <2>2. CASE ShowLast(a) \/ SkipUnchanged(a) \/ StartFetch(a)
    BY <1>1, <2>2 DEF LimitsAreLearned, JobsOnly, ShowLast, SkipUnchanged, StartFetch, backoff
  <2> QED
    BY <1>8, <2>1, <2>2 DEF AccountStep
<1> QED
  BY <1>2, <1>3, <1>4, <1>5, <1>6, <1>7, <1>8 DEF Next

(* Only StartFetch begins a fetch, past a gate or for want of a snapshot.    *)
LEMMA OnlyStartFetches ==
  ASSUME LimitsAreLearned, [Next]_vars, NEW a \in Accounts,
         job[a] # "fetch", job'[a] = "fetch"
  PROVE  StartFetch(a)
<1>1. CASE Advance \/ RequestPoll \/ EndGeneration \/ UNCHANGED vars
  BY <1>1 DEF Advance, RequestPoll, EndGeneration, vars
<1>2. CASE LoopLeads
  BY <1>2, LeadingIsJobsOnly DEF LoopLeads, backoff
<1>3. CASE LoopFollows
  BY <1>3, LeadingIsJobsOnly DEF LoopFollows, backoff
<1>4. ASSUME NEW w \in Waiters, NEW targets, NEW force, HandlePoll(w, targets, force)
      PROVE  FALSE
  BY <1>4, LeadingIsJobsOnly DEF HandlePoll, backoff
<1>5. ASSUME NEW w \in Waiters, WaiterLeaves(w) PROVE FALSE
  BY <1>5 DEF WaiterLeaves
<1>6. ASSUME NEW b \in Accounts, AccountStep(b) PROVE StartFetch(a)
  <2>1. CASE ShowLast(b) \/ SkipUnchanged(b) \/ EndFetch(b)
    BY <2>1 DEF LimitsAreLearned, ShowLast, SkipUnchanged, EndFetch
  <2>2. CASE StartFetch(b)
    BY <2>2 DEF LimitsAreLearned, StartFetch
  <2> QED
    BY <1>6, <2>1, <2>2 DEF AccountStep
<1> QED
  BY <1>1, <1>2, <1>3, <1>4, <1>5, <1>6 DEF Next

LEMMA StartRespectsLimit ==
  ASSUME LimitsAreLearned, NEW a \in Accounts, StartFetch(a), ~ cycle.force
  PROVE  limited[a] = 0
  BY DEF LimitsAreLearned, StartFetch, Allowed, ShouldPollManual, ShouldPoll

(* RateLimitsHold: an account whose rate limit is not over is fetched only   *)
(* when the user forces it.                                                  *)
THEOREM LimitsHold == Spec => RateLimitsHold
<1>1. LimitsAreLearned /\ [Next]_vars =>
        [\A a \in Accounts : job[a] # "fetch" /\ job'[a] = "fetch" /\ ~ cycle.force
           => limited[a] = 0]_vars
  BY OnlyStartFetches, StartRespectsLimit
<1>2. LimitsAreLearned /\ [Next]_vars => LimitsAreLearned'
  BY StepKeepsLearned
<1> QED
  BY <1>1, <1>2, InitLearned, PTL DEF Spec, RateLimitsHold

-------------------------------------------------------------------------------
(* The intervals are numbers, and the longest is one of them.                *)
LEMMA LeastNumber ==
  ASSUME NEW S \in SUBSET Nat, S # {}
  PROVE  \E x \in S : \A y \in S : x <= y
<1>1. \E x \in S : \A y \in S : ~ (<<y, x>> \in OpToRel(<, Nat))
  BY NatLessThanWellFounded, WFMin
<1>2. \E x \in S : \A y \in S : ~ (y < x)
  BY <1>1 DEF OpToRel
<1>3. QED
  BY <1>2

LEMMA MaxIsElement ==
  ASSUME NEW n \in Nat, NEW S \in SUBSET (0 .. n), S # {}
  PROVE  Max(S) \in S /\ \A x \in S : x <= Max(S)
<1> DEFINE Bounds == {b \in Nat : \A x \in S : x <= b}
<1>1. n \in Bounds
  OBVIOUS
<1>2. PICK b \in Bounds : \A c \in Bounds : b <= c
  BY <1>1, LeastNumber
<1>3. b \in S
  <2>1. SUFFICES ASSUME b \notin S PROVE FALSE
    OBVIOUS
  <2>2. \A x \in S : x \in Nat /\ x < b
    BY <2>1
  <2>3. b \in Nat /\ b > 0
    <3>1. PICK x \in S : x \in Nat /\ x < b
      BY <2>2
    <3>2. b \in Nat
      OBVIOUS
    <3>3. QED
      BY <3>1, <3>2
  <2>4. b - 1 \in Nat /\ \A x \in S : x <= b - 1
    BY <2>2, <2>3
  <2>5. QED
    BY <1>2, <2>4
<1>4. \E z \in S : \A y \in S : z >= y
  BY <1>3
<1>5. Max(S) \in S /\ \A y \in S : Max(S) >= y
  BY <1>4 DEF Max
<1>6. QED
  BY <1>5

(* The first numbers that a function gives are bounded.                      *)
LEMMA Bounded ==
  ASSUME NEW f \in [Nat -> Nat], NEW m \in Nat
  PROVE  \E b \in Nat : \A i \in 0 .. m : f[i] <= b
<1> DEFINE Unbounded == {k \in Nat : ~ \E b \in Nat : \A i \in 0 .. k : f[i] <= b}
<1>1. SUFFICES ASSUME Unbounded # {} PROVE FALSE
  OBVIOUS
<1>2. PICK k \in Unbounded : \A j \in Unbounded : k <= j
  BY <1>1, LeastNumber
<1>3. CASE k = 0
  <2>1. \A i \in 0 .. k : f[i] <= f[0]
    BY <1>3
  <2>2. QED
    BY <2>1
<1>4. CASE k # 0
  <2>1. k - 1 \in Nat /\ k - 1 \notin Unbounded
    <3>1. k \in Nat /\ k - 1 \in Nat /\ ~ (k <= k - 1)
      BY <1>4
    <3>2. QED
      BY <1>2, <3>1
  <2>2. PICK b \in Nat : \A i \in 0 .. k - 1 : f[i] <= b
    BY <2>1
  <2>3. PICK c \in Nat : b <= c /\ f[k] <= c
    <3>1. b <= b + f[k] /\ f[k] <= b + f[k] /\ b + f[k] \in Nat
      OBVIOUS
    <3>2. QED
      BY <3>1
  <2>4. ASSUME NEW i \in 0 .. k PROVE f[i] <= c
    <3>1. CASE i = k
      BY <2>3, <3>1
    <3>2. CASE i # k
      <4>1. i \in 0 .. k - 1 /\ f[i] \in Nat
        BY <3>2
      <4>2. QED
        BY <2>2, <2>3, <4>1
    <3>3. QED
      BY <3>1, <3>2
  <2>5. QED
    BY <2>4
<1>5. QED
  BY <1>3, <1>4

(* The doubling interval exists, as the code computes it step by step.       *)
First   == Max({Base, MinHTTP})
Doubles(g, n) == /\ g \in [0 .. n -> Nat] /\ g[0] = First
                 /\ \A i \in 1 .. n : g[i] = AtMost(2 * g[i - 1], MaxHTTP)

LEMMA FirstIsNumber == First \in Nat
<1>1. \E n \in Nat : Base <= n /\ MinHTTP <= n
  <2>1. Base + MinHTTP \in Nat /\ Base <= Base + MinHTTP /\ MinHTTP <= Base + MinHTTP
    BY PollAssumption
  <2>2. QED
    BY <2>1
<1>2. PICK n \in Nat : Base <= n /\ MinHTTP <= n
  BY <1>1
<1>3. {Base, MinHTTP} \in SUBSET (0 .. n) /\ {Base, MinHTTP} # {}
  BY <1>2, PollAssumption
<1>4. QED
  BY <1>3, MaxIsElement DEF First

LEMMA DoublingExists ==
  ASSUME NEW n \in Nat
  PROVE  \E g : Doubles(g, n)
<1> DEFINE Missing == {k \in Nat : ~ \E g : Doubles(g, k)}
<1>1. SUFFICES ASSUME Missing # {} PROVE FALSE
  OBVIOUS
<1>2. PICK k \in Missing : \A j \in Missing : k <= j
  BY <1>1, LeastNumber
<1>3. CASE k = 0
  <2>1. Doubles([i \in 0 .. 0 |-> First], 0)
    BY FirstIsNumber DEF Doubles
  <2>2. QED
    BY <1>3, <2>1
<1>4. CASE k # 0
  <2>1. k - 1 \in Nat /\ k - 1 \notin Missing
    BY <1>2, <1>4
  <2>2. PICK g : Doubles(g, k - 1)
    BY <2>1
  <2> DEFINE h == [i \in 0 .. k |-> IF i = k THEN AtMost(2 * g[k - 1], MaxHTTP) ELSE g[i]]
  <2>3. AtMost(2 * g[k - 1], MaxHTTP) \in Nat
    BY <2>1, <2>2, PollAssumption DEF Doubles, AtMost
  <2>4. h \in [0 .. k -> Nat] /\ h[0] = First
    BY <1>4, <2>1, <2>2, <2>3 DEF Doubles
  <2>5. ASSUME NEW i \in 1 .. k PROVE h[i] = AtMost(2 * h[i - 1], MaxHTTP)
    <3>1. h[i - 1] = g[i - 1]
      BY <1>4
    <3>2. CASE i = k
      BY <3>1, <3>2
    <3>3. CASE i # k
      <4>1. i \in 1 .. k - 1 /\ h[i] = g[i]
        BY <3>3
      <4>2. QED
        BY <2>2, <3>1, <4>1 DEF Doubles
    <3>4. QED
      BY <3>2, <3>3
  <2>6. Doubles(h, k)
    BY <2>4, <2>5 DEF Doubles
  <2>7. QED
    BY <2>6
<1>5. QED
  BY <1>3, <1>4

LEMMA DoublingIsUnique ==
  ASSUME NEW n \in Nat, NEW m \in Nat, NEW g, NEW h, Doubles(g, n), Doubles(h, m), NEW i \in Nat,
         i <= n, i <= m
  PROVE  g[i] = h[i]
<1> DEFINE Differs == {j \in Nat : j <= n /\ j <= m /\ g[j] # h[j]}
<1>1. SUFFICES ASSUME Differs # {} PROVE FALSE
  OBVIOUS
<1>2. PICK j \in Differs : \A k \in Differs : j <= k
  BY <1>1, LeastNumber
<1>3. j # 0
  BY DEF Doubles
<1>4. j - 1 \in Nat /\ j - 1 \notin Differs
  BY <1>2, <1>3
<1>5. g[j - 1] = h[j - 1]
  BY <1>4
<1>6. QED
  BY <1>3, <1>5 DEF Doubles

LEMMA HttpIsNumber == httpPollInterval \in [Nat -> Nat]
<1> DEFINE G(n) == CHOOSE g : Doubles(g, n)
           f == [n \in Nat |-> G(n)[n]]
<1>1. \A n \in Nat : Doubles(G(n), n)
  BY DoublingExists
<1> HIDE DEF G
<1>2. f \in [Nat -> Nat] /\ f[0] = First
  BY <1>1 DEF Doubles
<1>3. ASSUME NEW n \in Nat, n # 0 PROVE f[n] = AtMost(2 * f[n - 1], MaxHTTP)
  <2>1. n - 1 \in Nat /\ G(n)[n - 1] = G(n - 1)[n - 1]
    BY <1>1, <1>3, DoublingIsUnique
  <2>2. G(n)[n] = AtMost(2 * G(n)[n - 1], MaxHTTP)
    BY <1>1, <1>3 DEF Doubles
  <2>3. QED
    BY <2>1, <2>2
<1> HIDE DEF f
<1>4. f = [n \in Nat |-> IF n = 0 THEN Max({Base, MinHTTP}) ELSE AtMost(2 * f[n - 1], MaxHTTP)]
  BY <1>2, <1>3 DEF First
<1>5. httpPollInterval = [n \in Nat |-> IF n = 0 THEN Max({Base, MinHTTP})
                                         ELSE AtMost(2 * httpPollInterval[n - 1], MaxHTTP)]
  BY <1>4 DEF httpPollInterval
<1> DEFINE H == httpPollInterval
           Wrong == {n \in Nat : H[n] \notin Nat}
<1> HIDE DEF H
<1>6. /\ H = [n \in Nat |-> H[n]] /\ H[0] = First
      /\ \A n \in Nat : n # 0 => H[n] = AtMost(2 * H[n - 1], MaxHTTP)
  BY <1>5 DEF H, First
<1>7. ASSUME Wrong # {} PROVE FALSE
  <2>1. PICK n \in Wrong : \A m \in Wrong : n <= m
    BY <1>7, LeastNumber
  <2>2. n # 0
    BY <1>6, FirstIsNumber
  <2>3. n - 1 \in Nat /\ H[n - 1] \in Nat
    BY <2>1, <2>2
  <2>4. QED
    BY <1>6, <2>2, <2>3, PollAssumption DEF AtMost
<1>8. QED
  BY <1>6, <1>7 DEF H

(* Of the tiers that are reached there is a last one.                        *)
LEMMA MultiplierIsNumber ==
  ASSUME NEW n \in Nat
  PROVE  Multiplier(n) \in Nat
<1> DEFINE reached == {t \in Tiers : n >= t[1]}
           S == {t[1] : t \in reached}
           last == CHOOSE t \in reached : \A u \in reached : u[1] <= t[1]
<1>1. \A t \in Tiers : t[1] \in Nat /\ t[2] \in Nat
  BY PollAssumption
<1>2. S \in SUBSET (0 .. n) /\ S # {}
  BY <1>1, PollAssumption
<1> HIDE DEF S
<1>3. Max(S) \in S /\ \A x \in S : x <= Max(S)
  BY <1>2, MaxIsElement
<1> USE DEF S
<1>4. \E t \in reached : \A u \in reached : u[1] <= t[1]
  BY <1>3
<1>5. last \in Tiers
  BY <1>4
<1>6. QED
  BY <1>1, <1>5 DEF Multiplier

LEMMA MaxAgeIsNumber ==
  ASSUME Accounts # {}
  PROVE  MaxAge \in Nat
<1> DEFINE slow == [n \in Nat |-> Base * Multiplier(n)]
           S == {Interval(a, n) : a \in Accounts, n \in 0 .. MaxUnchanged}
<1>1. Base \in Nat /\ MaxUnchanged \in Nat
  BY PollAssumption
<1>2. slow \in [Nat -> Nat]
  <2>1. \A n \in Nat : Base * Multiplier(n) \in Nat
    BY <1>1, MultiplierIsNumber
  <2>2. QED
    BY <2>1
<1>3. \A n \in Nat : slow[n] = Base * Multiplier(n)
  OBVIOUS
<1> HIDE DEF slow
<1>4. PICK b \in Nat : \A i \in 0 .. MaxUnchanged : slow[i] <= b
  BY <1>1, <1>2, Bounded
<1>5. PICK c \in Nat : \A i \in 0 .. MaxUnchanged : httpPollInterval[i] <= c
  BY <1>1, HttpIsNumber, Bounded
<1>6. \A a \in Accounts, n \in 0 .. MaxUnchanged : Interval(a, n) \in 0 .. b + c
  <2>1. SUFFICES ASSUME NEW a \in Accounts, NEW n \in 0 .. MaxUnchanged
                 PROVE  Interval(a, n) \in 0 .. b + c
    OBVIOUS
  <2>2. n \in Nat /\ slow[n] \in Nat /\ httpPollInterval[n] \in Nat
    BY <1>2, HttpIsNumber
  <2>3. slow[n] <= b /\ httpPollInterval[n] <= c
    BY <1>4, <1>5
  <2>4. Interval(a, n) \in {slow[n], httpPollInterval[n]}
    BY <1>3, <2>2 DEF Interval
  <2>5. QED
    BY <2>2, <2>3, <2>4
<1>7. S \in SUBSET (0 .. b + c) /\ S # {} /\ b + c \in Nat
  <2>1. PICK a \in Accounts : TRUE
    OBVIOUS
  <2>2. 0 \in 0 .. MaxUnchanged /\ b + c \in Nat
    BY <1>1
  <2>3. Interval(a, 0) \in S
    BY <2>1, <2>2
  <2>4. ASSUME NEW s \in S PROVE s \in 0 .. b + c
    <3>1. PICK d \in Accounts, n \in 0 .. MaxUnchanged : s = Interval(d, n)
      OBVIOUS
    <3>2. QED
      BY <1>6, <3>1
  <2>5. QED
    BY <2>2, <2>3, <2>4
<1> HIDE DEF S
<1>8. Max(S) \in S
  BY <1>7, MaxIsElement
<1>9. QED
  BY <1>7, <1>8 DEF MaxAge, S

-------------------------------------------------------------------------------
(* TypeOK, of whose conjuncts two are more than types: that one caller leads *)
(* at most, and that accounts have work only while one does.                 *)
OneLeader == \A c, d \in Callers : caller[c] = "lead" /\ caller[d] = "lead" => c = d

LEMMA LeadersAreCounted ==
  (Cardinality({c \in Callers : caller[c] = "lead"}) <= 1
   /\ IsFiniteSet({c \in Callers : caller[c] = "lead"})) <=> OneLeader
<1> DEFINE leaders == {c \in Callers : caller[c] = "lead"}
<1>1. ASSUME OneLeader PROVE IsFiniteSet(leaders) /\ Cardinality(leaders) <= 1
  <2>1. CASE leaders = {}
    BY <2>1, FS_EmptySet
  <2>2. CASE leaders # {}
    <3>1. PICK c \in leaders : TRUE
      BY <2>2
    <3>2. leaders = {c}
      BY <1>1, <3>1 DEF OneLeader
    <3> HIDE DEF leaders
    <3>3. IsFiniteSet({c}) /\ Cardinality({c}) = 1
      BY FS_Singleton
    <3>4. QED
      BY <3>2, <3>3
  <2>3. QED
    BY <2>1, <2>2
<1>2. ASSUME IsFiniteSet(leaders), Cardinality(leaders) <= 1,
             NEW c \in leaders, NEW d \in leaders
      PROVE  c = d
  <2> HIDE DEF leaders
  <2>1. Cardinality(leaders) \in Nat /\ Cardinality(leaders) # 0
    BY <1>2, FS_CardinalityType, FS_EmptySet
  <2>2. Cardinality(leaders) = 1
    BY <1>2, <2>1
  <2>3. PICK x : leaders = {x}
    BY <1>2, <2>2, FS_Singleton
  <2>4. QED
    BY <1>2, <2>3
<1>3. QED
  BY <1>1, <1>2 DEF OneLeader

PollInv ==
  /\ tick \in BOOLEAN /\ kick \in BOOLEAN /\ phase \in 0 .. Base - 1
  /\ caller \in [Callers -> {"idle", "lead", "follow"}]
  /\ OneLeader
  /\ cycle \in [manual : BOOLEAN, force : BOOLEAN]
  /\ job \in [Accounts -> {"none", "due", "fetch"}]
  /\ (\E a \in Accounts : job[a] # "none") => Leading
  /\ age \in [Accounts -> 0 .. MaxAge]
  /\ unchanged \in [Accounts -> 0 .. MaxUnchanged]
  /\ asked \in 0 .. MaxAsked

LEMMA PollStarts ==
  ASSUME Init
  PROVE  PollInv
<1>1. Base \in Nat \ {0} /\ MaxUnchanged \in Nat /\ MaxAsked \in Nat /\ "loop" \in Callers
  BY PollAssumption DEF Callers
<1>2. age \in [Accounts -> 0 .. MaxAge]
  BY MaxAgeIsNumber DEF Init
<1>3. OneLeader /\ Leading
  BY <1>1 DEF Init, OneLeader, Leading
<1>4. cycle \in [manual : BOOLEAN, force : BOOLEAN]
  BY DEF Init, Automatic
<1>5. phase \in 0 .. Base - 1 /\ asked \in 0 .. MaxAsked /\ unchanged \in [Accounts -> 0 .. MaxUnchanged]
  BY <1>1 DEF Init
<1>6. QED
  BY <1>2, <1>3, <1>4, <1>5 DEF Init, PollInv

(* A caller that leads is the only one, and gives the accounts their work.   *)
LEMMA CallersKeep ==
  ASSUME PollInv, NEW c \in Callers, NEW targets, NEW kind \in [manual : BOOLEAN, force : BOOLEAN],
         caller[c] = "idle", Lead(c, targets, kind) \/ Follow(c)
  PROVE  /\ caller' \in [Callers -> {"idle", "lead", "follow"}] /\ OneLeader'
         /\ cycle' \in [manual : BOOLEAN, force : BOOLEAN]
         /\ job' \in [Accounts -> {"none", "due", "fetch"}]
         /\ (\E a \in Accounts : job'[a] # "none") => Leading'
<1>1. CASE Lead(c, targets, kind)
  BY <1>1 DEF PollInv, Lead, Leading, OneLeader
<1>2. CASE Follow(c)
  BY <1>2 DEF PollInv, Follow, Leading, OneLeader
<1>3. QED
  BY <1>1, <1>2

LEMMA PollSteps ==
  ASSUME PollInv, [Next]_vars
  PROVE  PollInv'
<1>1. /\ Base \in Nat \ {0} /\ MaxUnchanged \in Nat /\ MaxAsked \in Nat /\ "loop" \in Callers
      /\ Waiters \subseteq Callers
  BY PollAssumption DEF Callers
<1>2. CASE Advance
  <2>1. phase' \in 0 .. Base - 1
    BY <1>1, <1>2 DEF Advance, PollInv
  <2>2. age' \in [Accounts -> 0 .. MaxAge]
    <3>1. ASSUME NEW a \in Accounts PROVE AtMost(age[a] + 1, MaxAge) \in 0 .. MaxAge
      <4>1. MaxAge \in Nat /\ age[a] \in 0 .. MaxAge
        BY MaxAgeIsNumber DEF PollInv
      <4>2. QED
        BY <4>1 DEF AtMost
    <3>2. QED
      BY <1>2, <3>1 DEF Advance
  <2>3. tick' \in BOOLEAN
    BY <1>2 DEF Advance, PollInv
  <2>4. QED
    BY <1>2, <2>1, <2>2, <2>3 DEF Advance, PollInv, OneLeader, Leading
<1>3. CASE RequestPoll
  BY <1>3 DEF RequestPoll, PollInv, OneLeader, Leading, backoff
<1>4. CASE LoopLeads \/ LoopFollows
  <2>1. tick' \in BOOLEAN /\ kick' \in BOOLEAN /\ phase' \in 0 .. Base - 1
    BY <1>4 DEF LoopLeads, LoopFollows, TakeSignal, PollInv
  <2>2. Automatic \in [manual : BOOLEAN, force : BOOLEAN]
    BY DEF Automatic
  <2>3. /\ caller' \in [Callers -> {"idle", "lead", "follow"}] /\ OneLeader'
        /\ cycle' \in [manual : BOOLEAN, force : BOOLEAN]
        /\ job' \in [Accounts -> {"none", "due", "fetch"}]
        /\ (\E a \in Accounts : job'[a] # "none") => Leading'
    BY <1>1, <1>4, <2>2, CallersKeep DEF LoopLeads, LoopFollows
  <2>4. QED
    BY <1>4, <2>1, <2>3 DEF LoopLeads, LoopFollows, PollInv, backoff
<1>5. ASSUME NEW w \in Waiters, NEW targets, NEW force \in BOOLEAN, HandlePoll(w, targets, force)
      PROVE  PollInv'
  <2>1. [manual |-> TRUE, force |-> force] \in [manual : BOOLEAN, force : BOOLEAN]
    OBVIOUS
  <2>2. /\ caller' \in [Callers -> {"idle", "lead", "follow"}] /\ OneLeader'
        /\ cycle' \in [manual : BOOLEAN, force : BOOLEAN]
        /\ job' \in [Accounts -> {"none", "due", "fetch"}]
        /\ (\E a \in Accounts : job'[a] # "none") => Leading'
    BY <1>1, <1>5, <2>1, CallersKeep DEF HandlePoll
  <2>3. asked' \in 0 .. MaxAsked
    BY <1>1, <1>5 DEF HandlePoll, PollInv
  <2>4. QED
    BY <1>5, <2>2, <2>3 DEF HandlePoll, PollInv, timers, backoff
<1>6. ASSUME NEW w \in Waiters, WaiterLeaves(w) PROVE PollInv'
  BY <1>1, <1>6 DEF WaiterLeaves, PollInv, OneLeader, Leading, timers, backoff
<1>7. ASSUME NEW a \in Accounts, AccountStep(a) PROVE PollInv'
  <2>1. /\ job' \in [Accounts -> {"none", "due", "fetch"}] /\ UNCHANGED <<timers, caller, cycle, asked>>
        /\ job[a] # "none" /\ \A b \in Accounts \ {a} : job'[b] = job[b]
    BY <1>7 DEF AccountStep, ShowLast, SkipUnchanged, StartFetch, EndFetch, PollInv
  <2>2. Leading'
    BY <2>1 DEF PollInv, Leading
  <2>3. age' \in [Accounts -> 0 .. MaxAge] /\ unchanged' \in [Accounts -> 0 .. MaxUnchanged]
    <3>1. CASE UNCHANGED <<age, unchanged>>
      BY <3>1 DEF PollInv
    <3>2. ASSUME NEW changed, RecordPoll(a, changed)
          PROVE  age' \in [Accounts -> 0 .. MaxAge] /\ unchanged' \in [Accounts -> 0 .. MaxUnchanged]
      <4>1. MaxAge \in Nat /\ 0 \in 0 .. MaxAge
        BY MaxAgeIsNumber
      <4>2. unchanged[a] \in 0 .. MaxUnchanged
        BY DEF PollInv
      <4>3. (IF changed THEN 0 ELSE AtMost(unchanged[a] + 1, MaxUnchanged)) \in 0 .. MaxUnchanged
        BY <1>1, <4>2 DEF AtMost
      <4>4. QED
        BY <3>2, <4>1, <4>3 DEF RecordPoll, PollInv
    <3>3. QED
      BY <1>7, <3>1, <3>2 DEF AccountStep, ShowLast, SkipUnchanged, StartFetch, EndFetch, backoff
  <2>4. QED
    BY <2>1, <2>2, <2>3 DEF PollInv, OneLeader, timers
<1>8. CASE EndGeneration
  BY <1>8 DEF EndGeneration, CycleDone, PollInv, OneLeader, Leading, timers, backoff
<1>9. CASE UNCHANGED vars
  BY <1>9 DEF vars, PollInv, OneLeader, Leading
<1>10. QED
  BY <1>2, <1>3, <1>4, <1>5, <1>6, <1>7, <1>8, <1>9 DEF Next

(* Every component keeps its range: at most one caller leads, an account has *)
(* work only while one does, and no age, count or limit leaves its bounds.   *)
THEOREM PollTyped == Spec => []TypeOK
<1> DEFINE Inv == PollInv /\ LimitsAreLearned
<1>1. Init => Inv
  BY PollStarts, InitLearned
<1>2. ASSUME Inv, [Next]_vars
      PROVE  Inv'
  BY <1>2, PollSteps, StepKeepsLearned
<1>3. Inv => TypeOK
  BY LeadersAreCounted DEF PollInv, LimitsAreLearned, Leading, Shown, TypeOK
<1>4. QED
  BY <1>1, <1>2, <1>3, PTL DEF Spec

===============================================================================
