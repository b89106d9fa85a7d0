------------------------------- MODULE MCUpkeep -------------------------------
(***************************************************************************)
(* For TLC: the two backlogs the daemon's loops work off, the expired rows *)
(* of MCStoreRetention and the spool with its cleanup.  They share no      *)
(* variable, so one run checks both: a behaviour is of one of them, chosen *)
(* at first.                                                               *)
(***************************************************************************)
EXTENDS MCStoreRetention, MCSpool

VARIABLE part  \* "retention" or "spool"

partVars == <<part, vars, spoolVars>>

MCInit == part \in {"retention", "spool"} /\ Init /\ SpoolInit

MCNext ==
  /\ UNCHANGED part
  /\ IF part = "retention" THEN Next ELSE UNCHANGED vars
  /\ IF part = "spool" THEN SpoolNext ELSE UNCHANGED spoolVars

(* The components' Fairness and SpoolFairness, of the one chosen.            *)
MCFairness ==
  /\ WF_vars(part = "retention" /\ RollupDaily)
  /\ SF_vars(part = "retention" /\ PruneOldEvents)
  /\ WF_spoolVars(part = "spool" /\ FlushSpoolBacklog)
  /\ \A a \in Actors : WF_spoolVars(part = "spool" /\ FlushStep(a))
  /\ \A e \in Events : SF_spoolVars(part = "spool" /\ IngestOK("maint", e))

MCSpec == MCInit /\ [][MCNext]_partVars /\ MCFairness

-------------------------------------------------------------------------------
(* What must happen, in the behaviours of the part that promises it: expired *)
(* detail goes when imports leave the prune room, and an acceptable event in *)
(* the spool reaches the database.                                           *)
BacklogIsPruned    == part = "retention" => ExpiredDetailIsPruned
BacklogIsDelivered == part = "spool" => EventuallyDelivered

===============================================================================
