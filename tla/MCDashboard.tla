----------------------------- MODULE MCDashboard ------------------------------
(***************************************************************************)
(* For TLC: the parts of the terminal dashboard and the settings it shares *)
(* with the web server and the daemon.  They share no variable, so one run *)
(* checks them all: a behaviour is of one part, chosen at first, and the   *)
(* others stay as they start.                                              *)
(***************************************************************************)
EXTENDS KeyEntry, Navigation, Settings, FrameFlow

VARIABLE part

partVars == <<part, navVars, entryVars, settingsVars, frameVars>>

MCAccepted == {<<"a", "k1">>}                             \* what a provider accepts
MCKnown    == <<2>>                                       \* one account is not configured
MCNamed    == [t \in Texts |-> IF t = "two" THEN {2} ELSE {}]
MCContents == [i \in Ids |-> IF i = 1 THEN SUBSET Texts ELSE {{}}]
MCLooks    == [v \in 0 .. MaxData |-> IF v = 2 THEN 1 ELSE v]  \* two look the same

-------------------------------------------------------------------------------
(* All start; of those that may start in several states only the chosen one  *)
(* does; the promises of progress are those of the chosen one.               *)
MCInit ==
  /\ part \in {"tiles", "keys", "settings", "frames"}
  /\ NavInit /\ Init /\ SettingsInit /\ FrameInit
  /\ part # "tiles" => view = "matrix" /\ enabled = [i \in Ids |-> TRUE]

(* Bound: help is opened over the first tile of an unfiltered list.          *)
MCHelp == over' = "help" => cursor' <= 0 /\ text' = NoText /\ mode' = "list"

MCNext ==
  /\ UNCHANGED part
  /\ IF part = "tiles" THEN NavNext /\ MCHelp ELSE UNCHANGED navVars
  /\ IF part = "keys" THEN Next ELSE UNCHANGED entryVars
  /\ IF part = "settings" THEN SettingsNext ELSE UNCHANGED settingsVars
  /\ IF part = "frames" THEN FrameNext ELSE UNCHANGED frameVars

(* KeyEntry's Fairness and FrameFairness.                                    *)
MCFairness ==
  /\ WF_entryVars(part = "keys" /\ Ends("validate"))
  /\ WF_entryVars(part = "keys" /\ Ends("validateNew"))
  /\ WF_entryVars(part = "keys" /\ Ends("save"))
  /\ WF_entryVars(part = "keys" /\ Ends("saveNew"))
  /\ WF_entryVars(part = "keys" /\ Ends("delete"))
  /\ WF_entryVars(part = "keys" /\ Ends("browsers"))
  /\ WF_frameVars(part = "frames" /\ Broadcast)
  /\ WF_frameVars(part = "frames" /\ RefreshStep)
  /\ WF_frameVars(part = "frames" /\ AutoRefresh)
  /\ WF_frameVars(part = "frames" /\ ThrottlePasses)
  /\ WF_frameVars(part = "frames" /\ CacheLoop)

MCSpec == MCInit /\ [][MCNext]_partVars /\ MCFairness

-------------------------------------------------------------------------------
(* What must happen, in the behaviours of the part that promises it: the     *)
(* other properties are stated in the components' modules.                   *)
FramesCatchUp == part = "frames" => DisplayCatchesUp

================================================================================
