------------------------------ MODULE MCWritePath ------------------------------
(***************************************************************************)
(* For TLC: what lies between a request and its row, the opening of the    *)
(* database, the merge of MCStoreMerge and the spool with its flushers.    *)
(* They share no variable, so one run checks them all: a behaviour is of   *)
(* one of them, chosen at first.                                           *)
(***************************************************************************)
EXTENDS MCStoreMerge, SpoolPipeline, StoreOpening

VARIABLE path  \* "merge", "spool" or "opening"

(* One event a line; with the configuration's limits the directory admits    *)
(* one file, and three flushers share two.                                   *)
MCSize == [e \in Events |-> 1]

(* Two processes and one damage are enough for both to find it, and for one  *)
(* to rename the file the other has made.  A row needs two repairs in order. *)
MCLegacy ==
  {[id |-> "l1", by |-> "codex", provider |-> "openai", account |-> "codex",
    instant |-> FALSE, late |-> FALSE],
   [id |-> "l2", by |-> "cursor", provider |-> "openai", account |-> "a",
    instant |-> TRUE, late |-> FALSE]}

(* An event that an earlier version spooled.                                 *)
MCIncoming ==
  {[by |-> "codex", provider |-> "openai", account |-> "codex", instant |-> FALSE]}

MCInit == path \in {"merge", "spool", "opening"} /\ Init /\ SpoolInit /\ OpeningInit

MCNext ==
  /\ UNCHANGED path
  /\ IF path = "merge" THEN Next ELSE UNCHANGED vars
  /\ IF path = "spool" THEN SpoolNext ELSE UNCHANGED spoolVars
  /\ IF path = "opening" THEN OpeningNext ELSE UNCHANGED openVars

MCSpec == MCInit /\ [][MCNext]_<<path, vars, spoolVars, openVars>>

================================================================================
