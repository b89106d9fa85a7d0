----------------------------- MODULE PollScheduler -----------------------------
(***************************************************************************)
(* How the daemon decides which provider accounts to fetch: the poll loop  *)
(* with its ticker and its kicks, the handlers of POST /v1/poll?wait=1,    *)
(* the generations that make simultaneous requests share one cycle, the    *)
(* adaptive backoff and the rate limits of each account, and the snapshot  *)
(* an account shows while its fetches fail.                                *)
(*                                                                         *)
(* Time is counted in units of which the poll interval is Base.  Only      *)
(* distances matter, so an account has the age of its last poll and the    *)
(* rest of its rate limit, both bounded by the longest that is compared.   *)
(* The accounts of a cycle are fetched concurrently.  What HasChanged,     *)
(* the hash of the metrics and the providers answer is left open.          *)
(***************************************************************************)
EXTENDS Integers, FiniteSets, FiniteSetsExt

CONSTANTS
  Accounts,
  Local,      (* accounts whose provider is a ChangeDetector                 *)
  Waiters,    (* handlers of polls that are waited for                       *)
  Base,       (* the poll interval                                           *)
  MinHTTP, MaxHTTP,  (* 30 seconds, 8 minutes                                *)
  Tiers,      (* backoffTiers: pairs <<minNoChange, multiplier>>             *)
  Answers,    (* the snapshots that fetches bring                            *)
  RateLimits, (* lengths of rate limits: a minute, or up to two hours        *)
  MaxUnchanged, (* bound: from here on consecutiveNoChange does not matter   *)
  MaxAsked    (* bound: polls asked for over HTTP and waited for             *)

Snapshots == [status : {"ok", "limited", "auth", "error"}, usage : BOOLEAN]

ASSUME PollAssumption ==
  /\ Local \subseteq Accounts
  /\ "loop" \notin Waiters
  /\ {Base, MinHTTP, MaxHTTP} \subseteq Nat \ {0}
  /\ Tiers \subseteq Nat \X (Nat \ {0}) /\ \E t \in Tiers : t[1] = 0
  /\ Answers \subseteq Snapshots
  /\ RateLimits \subseteq Nat \ {0}
  /\ {MaxUnchanged, MaxAsked} \subseteq Nat

Nobody   == "nobody"
Callers  == {"loop"} \cup Waiters

VARIABLES
  tick,      (* a tick of the loop's ticker is waiting                       *)
  phase,     (* time since the ticker last fired                             *)
  kick,      (* pollKick holds a kick                                        *)
  caller,    (* Callers -> "idle", "lead" or "follow"                        *)
  cycle,     (* the cycle under way: [manual, force]                         *)
  job,       (* Accounts -> its state in the cycle under way                 *)
  age,       (* Accounts -> time since RecordPoll                            *)
  unchanged, (* Accounts -> consecutiveNoChange                              *)
  limited,   (* Accounts -> time until rateLimitUntil                        *)
  snap,      (* Accounts -> pollState[a].lastSnap                            *)
  asked      (* history: polls asked for over HTTP                           *)

timers  == <<tick, phase, kick>>
backoff == <<age, unchanged, limited>>
vars    == <<tick, phase, kick, caller, cycle, job, age, unchanged, limited, snap, asked>>

-------------------------------------------------------------------------------
(* effectiveIntervalLocked.                                                  *)
AtMost(n, cap) == IF n > cap THEN cap ELSE n

httpPollInterval[n \in Nat] ==
  IF n = 0 THEN Max({Base, MinHTTP}) ELSE AtMost(2 * httpPollInterval[n - 1], MaxHTTP)

Multiplier(n) == LET reached == {t \in Tiers : n >= t[1]}
                     last    == CHOOSE t \in reached : \A u \in reached : u[1] <= t[1]
                 IN  last[2]

Interval(a, n) == IF a \in Local THEN Base * Multiplier(n) ELSE httpPollInterval[n]

MaxAge == Max({Interval(a, n) : a \in Accounts, n \in 0 .. MaxUnchanged})

(* A snapshot has a status and shows usage or does not; NoSnap stands for    *)
(* hasSnap = FALSE.                                                          *)
NoSnap    == [status |-> "none",  usage |-> FALSE]
NoUsage   == [status |-> "error", usage |-> FALSE]

TypeOK ==
  /\ tick \in BOOLEAN /\ kick \in BOOLEAN /\ phase \in 0 .. Base - 1
  /\ caller \in [Callers -> {"idle", "lead", "follow"}]
  /\ Cardinality({c \in Callers : caller[c] = "lead"}) <= 1
  /\ cycle \in [manual : BOOLEAN, force : BOOLEAN]
  /\ job \in [Accounts -> {"none", "due", "fetch"}]
  /\ (\E a \in Accounts : job[a] # "none") => \E c \in Callers : caller[c] = "lead"
  /\ age \in [Accounts -> 0 .. MaxAge]
  /\ unchanged \in [Accounts -> 0 .. MaxUnchanged]
  /\ limited \in [Accounts -> Nat]
  /\ snap \in [Accounts -> Snapshots \cup {NoSnap}]
  /\ asked \in 0 .. MaxAsked

Automatic == [manual |-> FALSE, force |-> FALSE]

(* The loop polls before it first waits.                                     *)
Init ==
  /\ tick = FALSE /\ phase = 0 /\ kick = FALSE
  /\ caller = [c \in Callers |-> IF c = "loop" THEN "lead" ELSE "idle"]
  /\ cycle = Automatic
  /\ job = [a \in Accounts |-> "due"]
  /\ age = [a \in Accounts |-> MaxAge]
  /\ unchanged = [a \in Accounts |-> 0]
  /\ limited = [a \in Accounts |-> 0]
  /\ snap = [a \in Accounts |-> NoSnap]
  /\ asked = 0

-------------------------------------------------------------------------------
Advance ==
  /\ phase' = (phase + 1) % Base
  /\ tick' = (tick \/ phase' = 0)
  /\ age' = [a \in Accounts |-> AtMost(age[a] + 1, MaxAge)]
  /\ limited' = [a \in Accounts |-> IF limited[a] > 0 THEN limited[a] - 1 ELSE 0]
  /\ UNCHANGED <<kick, caller, cycle, job, unchanged, snap, asked>>

(* RequestPoll: a kick that finds one waiting is dropped.                    *)
RequestPoll ==
  /\ kick' = TRUE
  /\ UNCHANGED <<tick, phase, caller, cycle, job, backoff, snap, asked>>

(* pollProvidersTargeted: lead a new generation, or follow the one under way *)
(* whatever it is polling.                                                   *)
Leading == \E c \in Callers : caller[c] = "lead"

LeadUnchecked(c, targets, kind) ==   \* mutant: simultaneous polls do not share
  /\ caller' = [caller EXCEPT ![c] = "lead"]
  /\ cycle' = kind
  /\ job' = [a \in Accounts |-> IF a \in targets THEN "due" ELSE "none"]

Lead(c, targets, kind) ==
  /\ ~ Leading
  /\ caller' = [caller EXCEPT ![c] = "lead"]
  /\ cycle' = kind
  /\ job' = [a \in Accounts |-> IF a \in targets THEN "due" ELSE "none"]

Follow(c) ==
  /\ Leading
  /\ caller' = [caller EXCEPT ![c] = "follow"]
  /\ UNCHANGED <<cycle, job>>

TakeSignal ==
  \/ tick /\ tick' = FALSE /\ UNCHANGED <<phase, kick>>
  \/ kick /\ kick' = FALSE /\ UNCHANGED <<phase, tick>>

LoopLeads ==
  /\ caller["loop"] = "idle" /\ TakeSignal
  /\ Lead("loop", Accounts, Automatic)
  /\ UNCHANGED <<backoff, snap, asked>>

LoopFollows ==
  /\ caller["loop"] = "idle" /\ TakeSignal
  /\ Follow("loop")
  /\ UNCHANGED <<backoff, snap, asked>>

HandlePoll(w, targets, force) ==
  /\ caller[w] = "idle"
  /\ asked < MaxAsked /\ asked' = asked + 1
  /\ Lead(w, targets, [manual |-> TRUE, force |-> force]) \/ Follow(w)
  /\ UNCHANGED <<timers, backoff, snap>>

(* The client of a follower goes away; a leader goes on without it.          *)
WaiterLeaves(w) ==
  /\ caller[w] = "follow"
  /\ caller' = [caller EXCEPT ![w] = "idle"]
  /\ UNCHANGED <<timers, cycle, job, backoff, snap, asked>>

CycleDone == Leading /\ \A a \in Accounts : job[a] = "none"

EndWithoutClose ==   \* mutant: the channel of the generation is not closed
  /\ CycleDone
  /\ caller' = [c \in Callers |-> IF caller[c] = "lead" THEN "idle" ELSE caller[c]]
  /\ UNCHANGED <<timers, cycle, job, backoff, snap, asked>>

EndWithoutClear ==   \* mutant: the generation stays the active one
  /\ CycleDone
  /\ caller' = [c \in Callers |-> IF caller[c] = "follow" THEN "idle" ELSE caller[c]]
  /\ UNCHANGED <<timers, cycle, job, backoff, snap, asked>>

(* EndGeneration, after the results were ingested and published.             *)
EndGeneration ==
  /\ CycleDone
  /\ caller' = [c \in Callers |-> "idle"]
  /\ UNCHANGED <<timers, cycle, job, backoff, snap, asked>>

-------------------------------------------------------------------------------
(* pollSingleAccount up to the fetch.  A gate that says no is only heeded    *)
(* when there is a snapshot to show instead.                                 *)
ShouldPollRateOnly(a) ==   \* mutant: a rate limit does not bind the loop
  snap[a] = NoSnap \/ age[a] >= Interval(a, unchanged[a])

ShouldPoll(a) ==
  snap[a] = NoSnap \/ (limited[a] = 0 /\ age[a] >= Interval(a, unchanged[a]))

ShouldPollManual(a) == cycle.force \/ limited[a] = 0

Allowed(a) == IF cycle.manual THEN ShouldPollManual(a) ELSE ShouldPoll(a)

RecordPoll(a, changed) ==
  /\ age' = [age EXCEPT ![a] = 0]
  /\ unchanged' = [unchanged EXCEPT ![a] = IF changed THEN 0 ELSE AtMost(@ + 1, MaxUnchanged)]

ShowLast(a) ==
  /\ job[a] = "due" /\ ~ Allowed(a) /\ snap[a] # NoSnap
  /\ job' = [job EXCEPT ![a] = "none"]
  /\ UNCHANGED <<timers, caller, cycle, backoff, snap, asked>>

(* skipUnchangedProvider                                                     *)
SkipUnchanged(a) ==
  /\ job[a] = "due" /\ ~ cycle.manual /\ Allowed(a)
  /\ a \in Local /\ snap[a] # NoSnap
  /\ RecordPoll(a, FALSE)
  /\ job' = [job EXCEPT ![a] = "none"]
  /\ UNCHANGED <<timers, caller, cycle, limited, snap, asked>>

StartFetch(a) ==
  /\ job[a] = "due" /\ (Allowed(a) \/ snap[a] = NoSnap)
  /\ job' = [job EXCEPT ![a] = "fetch"]
  /\ UNCHANGED <<timers, caller, cycle, backoff, snap, asked>>

(* The rest of it.  A failed fetch shows the usage of the previous snapshot, *)
(* but only if that was not itself the result of a failed fetch.             *)
Answered == {r \in Answers : r.status # "error"}

Failed(a) == IF snap[a].status \in {"ok", "limited"}
             THEN {[snap[a] EXCEPT !.status = "error"]}
             ELSE {r \in Answers : r.status = "error"} \cup {NoUsage}

RateLimitAfter(a, status) ==
  CASE status = "limited" -> RateLimits \cup {limited[a]}  \* kept if the reset is past
    [] status = "ok"      -> {0}
    [] OTHER              -> {limited[a]}

EndFetch(a) ==
  /\ job[a] = "fetch"
  /\ \E result \in Answered \cup Failed(a), changed \in BOOLEAN :
       /\ result.status # snap[a].status => changed
       /\ \E rest \in RateLimitAfter(a, result.status) : limited' = [limited EXCEPT ![a] = rest]
       /\ RecordPoll(a, changed)
       /\ snap' = [snap EXCEPT ![a] = result]
  /\ job' = [job EXCEPT ![a] = "none"]
  /\ UNCHANGED <<timers, caller, cycle, asked>>

-------------------------------------------------------------------------------
AccountStep(a) == ShowLast(a) \/ SkipUnchanged(a) \/ StartFetch(a) \/ EndFetch(a)

Next ==
  \/ Advance \/ RequestPoll
  \/ LoopLeads \/ LoopFollows
  \/ \E w \in Waiters :
       \/ \E targets \in {Accounts} \cup {{a} : a \in Accounts}, force \in BOOLEAN :
            HandlePoll(w, targets, force)
       \/ WaiterLeaves(w)
  \/ \E a \in Accounts : AccountStep(a)
  \/ EndGeneration

Spec == Init /\ [][Next]_vars

(* Time passes, fetches end (their context has a deadline), and so do the    *)
(* generations; the loop takes a signal that waits.  Callers are bounded by  *)
(* MaxAsked: as every generation swallows the tick that falls into it,       *)
(* refreshes of one account, one after the other, could keep the loop from   *)
(* the others.                                                               *)
Fairness ==
  /\ WF_vars(Advance)
  /\ WF_vars(EndGeneration)
  /\ WF_vars(LoopLeads)
  /\ \A a \in Accounts : WF_vars(AccountStep(a))

FairSpec == Spec /\ Fairness

-------------------------------------------------------------------------------
(* A rate-limited account is not fetched unless the user forces it - neither *)
(* by the loop, nor by a kick, nor by a manual refresh, nor by way of the    *)
(* gate that is not heeded for an account without a snapshot.                *)
RateLimitsHold ==
  [][\A a \in Accounts : job[a] # "fetch" /\ job'[a] = "fetch" /\ ~ cycle.force
       => limited[a] = 0]_vars

(* Whoever waits for a poll, the loop included, gets an answer: the leader   *)
(* always releases those who followed it.                                    *)
WaitersReturn == \A c \in Callers : caller[c] # "idle" ~> caller[c] = "idle"

(* No account is forgotten: however long its backoff has grown, and whatever *)
(* was rate-limited or forced in between, it is looked at again.             *)
AccountsKeepBeingPolled == \A a \in Accounts : []<>(age[a] = 0)

(* docs/user-flow-diagram.md, for an account "Rate limited or temporarily    *)
(* offline": "Last known usage with age and error\nNo invented zero values". *)
LastUsageIsKept ==
  [][\A a \in Accounts : snap[a].usage /\ snap'[a].status = "error" => snap'[a].usage]_vars

===============================================================================
