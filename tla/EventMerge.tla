------------------------------ MODULE EventMerge ------------------------------
(***************************************************************************)
(* How two observations of one usage event are merged into the single      *)
(* usage_events row they share: enrichEventByDedupKey of                   *)
(* internal/telemetry/store.go and the choose functions behind it.         *)
(*                                                                         *)
(* Every canonical column that the merge treats alike (the identity        *)
(* strings, the models, the token counters, cost and requests) is one      *)
(* member of Fields.  A column holds a value or NULL: the empty string, the *)
(* nil pointer and the SQL NULL are one thing to the merge.  Only the tool *)
(* name and the status have rules of their own.  Names are taken trimmed   *)
(* and in lower case, as normalizeRequest leaves them.                     *)
(***************************************************************************)
EXTENDS Naturals

CONSTANTS
  Fields,        (* the columns merged by chooseString, Int64 and Float64    *)
  Values,        (* what such a column may hold                              *)
  NULL,          (* the column, or the tool name, is not provided            *)
  UnknownTool,   (* the tool name "unknown"                                  *)
  McpTools,      (* canonical mcp__server__function names                    *)
  OtherTools,    (* every other tool name                                    *)
  UnknownStatus, (* the status "unknown"                                     *)
  KnownStatuses  (* "ok", "error", "aborted"                                 *)

ToolNames == {UnknownTool} \cup McpTools \cup OtherTools
Statuses  == {UnknownStatus} \cup KnownStatuses

ASSUME MergeAssumption ==
  /\ NULL \notin Values \cup ToolNames
  /\ UnknownTool \notin McpTools \cup OtherTools
  /\ McpTools \cap OtherTools = {}
  /\ UnknownStatus \notin KnownStatuses

SourceChannels == {"hook", "sse", "sqlite", "jsonl", "api", "other"}

sourceChannelPriority(channel) ==
  CASE channel = "hook"                -> 4
    [] channel = "sse"                 -> 3
    [] channel \in {"sqlite", "jsonl"} -> 2
    [] channel = "api"                 -> 1
    [] OTHER                           -> 0

(* The merged columns of a stored row, or those an ingest request carries.   *)
Canonical == [fields : [Fields -> Values \cup {NULL}],
              tool   : ToolNames \cup {NULL},
              status : Statuses]

-------------------------------------------------------------------------------
chooseFieldFirst(current, incoming, override) ==   \* mutant: no override
  IF incoming # NULL /\ current = NULL THEN incoming ELSE current

(* chooseString, chooseInt64 and chooseFloat64: fill a hole, or override.    *)
chooseField(current, incoming, override) ==
  IF incoming # NULL /\ (current = NULL \/ override) THEN incoming ELSE current

(* The tool name also heals: "unknown" gives way to any name, and a name     *)
(* that is not a canonical MCP one gives way to one that is.                 *)
chooseToolName(current, incoming, override) ==
  IF \/ current = NULL
     \/ incoming # NULL /\ override
     \/ incoming # NULL /\ current = UnknownTool
     \/ incoming \in McpTools /\ current \notin McpTools
  THEN incoming
  ELSE current

(* A request always carries a status: normalizeRequest defaults it to "ok".  *)
chooseStatus(current, incoming, override) ==
  IF \/ current = UnknownStatus
     \/ override /\ incoming # UnknownStatus
  THEN incoming
  ELSE current

(* The row after enrichEventByDedupKey, given the channel of the raw event   *)
(* the row was created from.                                                 *)
Enrich(row, rowChannel, req, reqChannel) ==
  LET override == sourceChannelPriority(reqChannel) > sourceChannelPriority(rowChannel)
  IN  [fields |-> [f \in Fields |-> chooseField(row.fields[f], req.fields[f], override)],
       tool   |-> chooseToolName(row.tool, req.tool, override),
       status |-> chooseStatus(row.status, req.status, override)]

===============================================================================
