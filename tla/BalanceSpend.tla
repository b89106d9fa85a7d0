------------------------------ MODULE BalanceSpend ------------------------------
(***************************************************************************)
(* The balance observations of one money metric of one account, and the    *)
(* spend over a window that the read model derives from them: polls record *)
(* what the provider reports, the retention loop thins the series, and     *)
(* WindowedSpend reads what is left.  The account itself - spending,       *)
(* deposits, a used-counter that a new billing cycle resets - is the       *)
(* environment; total is what was really spent.                            *)
(*                                                                         *)
(* Time is counted in minutes, the resolution of the series.               *)
(***************************************************************************)
EXTENDS Integers, FiniteSets, FiniteSetsExt

CONSTANTS
  HourLen, DayLen,       (* minutes of an hour and of a day                   *)
  Recent, Week, Horizon, (* 48 hours, 7 days, the retention of 35 days or more *)
  Amounts,               (* what is spent or deposited at a time              *)
  Steps,                 (* bound: how far time jumps                         *)
  MaxMinute, MaxObserved, MaxMoves  (* bounds: time, readings, account movements *)

ASSUME BalanceAssumption ==
  /\ HourLen \in Nat \ {0} /\ DayLen \in Nat \ {0} /\ DayLen % HourLen = 0
  /\ {Recent, Week, Horizon, MaxMinute, MaxObserved, MaxMoves} \subseteq Nat
  /\ Amounts \subseteq Nat /\ Steps \subseteq Nat

VARIABLES
  minute,
  account,   (* [remaining, used] as the provider reports them               *)
  total,     (* history: all that was spent                                  *)
  deposits,  (* history: all that was deposited                              *)
  series,    (* balance_observations: [at, row, remaining, used, total, deposits] *)
  moves      (* history: movements so far                                    *)

balanceVars == <<minute, account, total, deposits, series, moves>>

BalanceInit ==
  /\ minute = 0 /\ account = [remaining |-> 0, used |-> 0]
  /\ total = 0 /\ deposits = 0 /\ series = {} /\ moves = 0

-------------------------------------------------------------------------------
Move == moves < MaxMoves /\ moves' = moves + 1 /\ UNCHANGED <<minute, series>>

SpendMoney(n) ==
  /\ Move /\ total' = total + n /\ UNCHANGED deposits
  /\ account' = [remaining |-> account.remaining - n, used |-> account.used + n]

Deposit(n) ==
  /\ Move /\ deposits' = deposits + n /\ UNCHANGED total
  /\ account' = [account EXCEPT !.remaining = @ + n]

ResetCounter ==
  /\ Move /\ account.used > 0 /\ account' = [account EXCEPT !.used = 0]
  /\ UNCHANGED <<total, deposits>>

MinutesPass(n) ==
  /\ minute + n <= MaxMinute /\ minute' = minute + n
  /\ UNCHANGED <<account, total, deposits, series, moves>>

(* RecordBalanceObservations: a second poll in the same minute overwrites    *)
(* the row and keeps its rowid.                                              *)
Record ==
  LET same == {o \in series : o.at = minute}
      row  == IF same # {} THEN (CHOOSE o \in same : TRUE).row
              ELSE 1 + Max({0} \cup {o.row : o \in series})
  IN /\ Cardinality(series) < MaxObserved
     /\ series' = (series \ same) \cup
          {[at |-> minute, row |-> row, remaining |-> account.remaining, used |-> account.used,
            total |-> total, deposits |-> deposits]}
     /\ UNCHANGED <<minute, account, total, deposits, moves>>

-------------------------------------------------------------------------------
(* PruneBalanceObservations.  observed_at is written as 2006-01-02T15:04:05Z *)
(* and compared, as text, with SQLite's 2006-01-02 15:04:05: of the same day *)
(* no row is smaller, so every limit falls on the start of its day.          *)
DayOf(t)  == t \div DayLen
HourOf(t) == t \div HourLen

OlderThan(o, age) == DayOf(o.at) < DayOf(minute - age)

LastRow(o, p) == o.row >= p.row   \* mutant: the newest row of a bucket stays

FirstRow(o, p) == o.row <= p.row

(* One row of each bucket stays, the one inserted first.                     *)
FirstOfEach(S, Bucket(_)) ==
  {o \in S : \A p \in S : Bucket(p.at) = Bucket(o.at) => FirstRow(o, p)}

Thinned ==
  LET kept == {o \in series : ~ OlderThan(o, Horizon)}
      old  == {o \in kept : OlderThan(o, Week)}
      mid  == {o \in kept : OlderThan(o, Recent)} \ old
  IN (kept \ (old \cup mid)) \cup FirstOfEach(old, DayOf) \cup FirstOfEach(mid, HourOf)

PruneBalanceObservations ==
  /\ Thinned # series /\ series' = Thinned
  /\ UNCHANGED <<minute, account, total, deposits, moves>>

BalanceNext ==
  \/ \E n \in Amounts : SpendMoney(n) \/ Deposit(n)
  \/ ResetCounter
  \/ \E n \in Steps : MinutesPass(n)
  \/ Record \/ PruneBalanceObservations

BalanceSpec == BalanceInit /\ [][BalanceNext]_balanceVars

-------------------------------------------------------------------------------
(* WindowedSpend.                                                            *)

AtOrBefore(S, t) == {o \in S : o.at <= t}
Latest(S)   == CHOOSE o \in S : \A p \in S : p.at <= o.at
Earliest(S) == CHOOSE o \in S : \A p \in S : o.at <= p.at

NoReading == [ok |-> FALSE, spend |-> 0, topups |-> 0, partial |-> FALSE, anchor |-> <<>>]

(* A counter that fell was reset: what it shows was spent since.             *)
UsedSince(used, delta) == IF delta < 0 THEN used ELSE delta

windowedSpendCumulative(since) ==
  IF series = {} THEN NoReading
  ELSE LET before == AtOrBefore(series, since)
           anchor == IF before # {} THEN Latest(before) ELSE Earliest(series)
           delta  == Latest(series).used - anchor.used
       IN [ok |-> TRUE, topups |-> 0, anchor |-> anchor,
           spend   |-> UsedSince(Latest(series).used, delta),
           partial |-> anchor.at > since \/ delta < 0]

EveryChange(drop) == IF drop > 0 THEN drop ELSE -drop   \* mutant: a rise counts

SpendOf(drop) == IF drop > 0 THEN drop ELSE 0

(* What a loop over the minutes of a series has added up.                    *)
RunningSum(g) == LET sum[t \in DOMAIN g] == (IF t = 0 THEN 0 ELSE sum[t - 1]) + g[t] IN sum

(* The walk over the readings of the window, each step a drop or a rise.     *)
windowedSpendBalance(since) ==
  LET window == {o \in series : o.at >= since}
      before == AtOrBefore(series, since)
  IN IF window = {} THEN NoReading
     ELSE LET anchor  == IF before # {} THEN Latest(before) ELSE Earliest(window)
              walk    == window \cup {anchor}
              drop(t) == IF \E o \in walk \ {anchor} : o.at = t
                         THEN Latest(AtOrBefore(walk, t - 1)).remaining
                                - Latest(AtOrBefore(walk, t)).remaining
                         ELSE 0
          IN [ok |-> TRUE, anchor |-> anchor,
              spend   |-> RunningSum([t \in 0 .. minute |-> SpendOf(drop(t))])[minute],
              topups  |-> RunningSum([t \in 0 .. minute |->
                                        IF drop(t) < 0 THEN -drop(t) ELSE 0])[minute],
              partial |-> before = {} /\ Earliest(window).at > since]

-------------------------------------------------------------------------------
(* Whatever was polled, thinned and deposited, a balance never shows more    *)
(* than was spent since its anchor, and what it misses is at most what       *)
(* deposits hid: spend and top-ups differ by the change of the balance.      *)
BalanceNeverOverstates ==
  \A since \in 0 .. minute :
    LET r == windowedSpendBalance(since)
        last == Latest(series)
        spent == last.total - r.anchor.total
        paid  == last.deposits - r.anchor.deposits
    IN r.ok => /\ 0 <= r.spend /\ r.spend <= spent
               /\ spent - r.spend = paid - r.topups

(* A used-counter never shows more than was spent since its anchor, however  *)
(* often it was reset, and exactly that if it was not.                       *)
CounterNeverOverstates ==
  \A since \in 0 .. minute :
    LET r == windowedSpendCumulative(since)
        spent == Latest(series).total - r.anchor.total
    IN r.ok => /\ 0 <= r.spend /\ r.spend <= spent
               /\ Latest(series).used = Latest(series).total => r.spend = spent

(* What the windows show of either kind of account.                          *)
SpendNeverOverstates == BalanceNeverOverstates /\ CounterNeverOverstates

(* Thinning keeps the left anchor of every window: a window that had one     *)
(* within the horizon still has one, not later and of the same day, and of   *)
(* the same hour if it is less than a week old.  balance_observations.go:    *)
(* "Thinning keeps the oldest row in each bucket so window left-anchors stay *)
(* stable."                                                                  *)
AnchorsSurviveThinning ==
  [][PruneBalanceObservations =>
       \A since \in 0 .. minute :
         LET before == {o \in AtOrBefore(series, since) : ~ OlderThan(o, Horizon)}
             after  == AtOrBefore(series', since)
         IN before # {} =>
              /\ after # {}
              /\ LET a == Latest(before) b == Latest(after) IN
                 /\ b.at <= a.at /\ DayOf(b.at) = DayOf(a.at)
                 /\ ~ OlderThan(a, Week) => HourOf(b.at) = HourOf(a.at)]_balanceVars

===============================================================================
