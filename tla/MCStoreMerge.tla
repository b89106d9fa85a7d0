----------------------------- MODULE MCStoreMerge -----------------------------
(* TelemetryStore on the questions of the merge: one event reported over     *)
(* several channels, a quota snapshot beside it, and prunes around them.     *)
EXTENDS TelemetryStore, TLC

CONSTANTS k1, k2, jsonl, dbfile, hook, hookLate, api

MCKeys      == {k1, k2}
MCKindOf    == (k1 :> "usage") @@ (k2 :> "limit")
MCLogicalOf == [k \in MCKeys |-> k]
MCFields    == {"tokens", "cost"}
MCWeight    == [f \in MCFields |-> IF f = "tokens" THEN 4 ELSE 2]
MCValues    == {jsonl, dbfile, hook, hookLate, api}

Req(k, c, p, tokens, cost, t, s) ==
  [key |-> k, channel |-> c, day |-> 1, payload |-> p,
   canon |-> [fields |-> [f \in MCFields |-> IF f = "tokens" THEN tokens ELSE cost],
              tool |-> t, status |-> s]]

(* k1 is an event of a tool observed through its log files, its database and *)
(* its hooks (opencode), k2 a quota snapshot fetched over an API and written *)
(* with different success: the combinations of channels the sources emit.    *)
MCRequests ==
  {Req(k1, "jsonl",  "empty",  jsonl,  jsonl,    NULL,        "unknown"),
   Req(k1, "sqlite", "empty",  dbfile, NULL,     "unknown",   "ok"),
   Req(k1, "hook",   "empty",  hook,   NULL,     "read",      "error"),
   Req(k1, "hook",   "empty",  NULL,   hookLate, "mcp__s__f", "ok"),
   Req(k2, "api",    "junk",   NULL,   api,      NULL,        "ok"),
   Req(k2, "api",    "usable", NULL,   NULL,     NULL,        "ok")}

(* The two keys stand for two logical events, so no ranks are compared and   *)
(* the ids are alike.                                                        *)
MCEventRank == [id \in RawIds |-> 0]
MCSymmetry  == Permutations(RawIds)

===============================================================================
