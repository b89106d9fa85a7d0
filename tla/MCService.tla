------------------------------ MODULE MCService -------------------------------
(***************************************************************************)
(* For TLC: the parts of the service around the pipeline.  They share no   *)
(* variable, so one run checks them all: a behaviour is of one part,       *)
(* chosen at first, and the others stay as they start.                     *)
(***************************************************************************)
EXTENDS HookDelivery, DaemonSocket, UsageView, BalanceSpend, HubExporter

VARIABLE part

partVars == <<part, hookVars, socketVars, viewVars, balanceVars, hubVars>>

(* Two accounts of one provider, fed over a provider link.                   *)
MCAccounts == {[provider |-> "p", scope |-> "a"], [provider |-> "p", scope |-> "b"]}
MCLinks    == {<<"q", "p">>}

-------------------------------------------------------------------------------
(* All start; of those that may start in several states only the chosen one  *)
(* does; the promises of progress are those of the chosen one.               *)
MCInit ==
  /\ part \in {"hook", "socket", "view", "balance", "hub"}
  /\ Init /\ SocketInit /\ ViewInit /\ BalanceInit /\ HubInit
  /\ part # "hook" => ~ up
  /\ part # "socket" => path = NoFile /\ ~ installed

MCNext ==
  /\ UNCHANGED part
  /\ IF part = "hook" THEN Next ELSE UNCHANGED hookVars
  /\ IF part = "socket" THEN SocketNext ELSE UNCHANGED socketVars
  /\ IF part = "view" THEN ViewNext ELSE UNCHANGED viewVars
  /\ IF part = "balance" THEN BalanceNext ELSE UNCHANGED balanceVars
  /\ IF part = "hub" THEN HubNext ELSE UNCHANGED hubVars

(* The components' Fairness, SocketFairness and HubFairness.                 *)
MCFairness ==
  /\ WF_hookVars(part = "hook" /\ ProcessHookSpool)
  /\ WF_hookVars(part = "hook" /\ Restart)
  /\ \A d \in Daemons : WF_socketVars(part = "socket" /\ StartsGoOn(d))
  /\ WF_socketVars(part = "socket" /\ ManagerGoesOn)
  /\ \A c \in Clients : WF_socketVars(part = "socket" /\ EnsureRunning(c))
  /\ \A m \in Machines : /\ WF_hubVars(part = "hub" /\ tick(m))
                         /\ WF_hubVars(part = "hub" /\ Handled(m))
  /\ WF_hubVars(part = "hub" /\ Read)
  /\ WF_hubVars(part = "hub" /\ TimePasses)

MCSpec == MCInit /\ [][MCNext]_partVars /\ MCFairness

-------------------------------------------------------------------------------
(* What must happen, in the behaviours of the part that promises it: the     *)
(* other properties are stated in the components' modules.                   *)
SocketHeals  == part = "socket" => ServiceHeals
HubCatchesUp == part = "hub" => HubFollows

================================================================================
