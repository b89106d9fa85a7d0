--------------------------- MODULE MCStoreRetention ---------------------------
(* TelemetryStore on the questions of retention: a logical event reported    *)
(* under two dedup keys on neighbouring days, a second event, a quota        *)
(* snapshot, and a clock that runs past the hot window.                      *)
EXTENDS TelemetryStore

CONSTANTS local, hooked, other, quota, turn, t1, t2

MCKeys      == {local, hooked, other, quota}
MCKindOf    == [k \in MCKeys |-> IF k = quota THEN "limit" ELSE "usage"]
MCLogicalOf == [k \in MCKeys |-> IF k \in {local, hooked} THEN turn ELSE k]
MCEventRank == [id \in RawIds |-> id]
MCFields    == {"tokens"}
MCWeight    == [f \in MCFields |-> 4]

Req(k, c, d, v, p) ==
  [key |-> k, channel |-> c, day |-> d, payload |-> p,
   canon |-> [fields |-> [f \in MCFields |-> v], tool |-> NULL, status |-> "ok"]]

(* The log file dates the turn on the day before the hook reports it, under  *)
(* a key of its own; a late hook gives that day too.  With an event of the   *)
(* first day two rows expire together, one more than a batch takes.          *)
SpanningRequests ==
  {Req(local,  "sqlite", 1, t1, "empty"),
   Req(local,  "hook",   1, t2, "empty"),
   Req(hooked, "hook",   2, t1, "empty"),
   Req(other,  "jsonl",  1, t2, "empty")}

(* A quota snapshot, and an event whose payload the next day's prune blanks. *)
SnapshotRequests ==
  {Req(quota, "api",   1, t1, "usable"),
   Req(other, "jsonl", 1, t2, "junk")}

(* An event of the day before is imported late.                              *)
LateRequests ==
  {Req(other, "jsonl",  1, t2, "empty"),
   Req(local, "sqlite", 2, t1, "empty")}

===============================================================================
