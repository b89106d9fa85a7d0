------------------------------- MODULE Settings --------------------------------
(***************************************************************************)
(* settings.json and its writers: the terminal dashboard, whose commands   *)
(* save choices from its memory, the web server, which keeps the config it *)
(* started with, and the daemon, which saves the accounts it detects.  All *)
(* write through saveLocked, under a mutex of their own process, by a      *)
(* temporary file and a rename: the file changes at once.  Saves of one    *)
(* process queue for its mutex in any order.                               *)
(* A config is its theme, standing for every field a save of its own sets  *)
(* (theme, layout, usage mode, time window, sections, links, ...), the     *)
(* dashboard's entries of accounts, and the detected accounts.             *)
(***************************************************************************)
EXTENDS Integers

CONSTANTS
  SavedAccounts,  (* account ids                                             *)
  Themes,    (* values of the theme                                          *)
  Servers,   (* the processes besides the dashboard: "web", "daemon" or none *)
  MaxSaves   (* bound: saves ever started                                    *)

Dash == "dash"

ASSUME SettingsAssumption == Themes # {} /\ MaxSaves \in Nat

VARIABLES
  file,     (* the config in the file                                        *)
  tail,     (* bytes of an older version behind it: "none", "there", "gone"  *)
  jobs,     (* saves: [proc, op, arg, stage, cfg, clean]                     *)
  dashEnabled,  (* the dashboard's providerEnabled                               *)
  webCfg,   (* the web server's collector.opts.Config                        *)
  saves

settingsVars == <<file, tail, jobs, dashEnabled, webCfg, saves>>

SettingsInit ==
  /\ file = [theme |-> CHOOSE t \in Themes : TRUE,
             providers |-> <<>>, detected |-> {}]
  /\ tail = "none" /\ jobs = {}
  /\ dashEnabled = [a \in SavedAccounts |-> TRUE]
  /\ webCfg = file /\ saves = 0

-------------------------------------------------------------------------------
(* What a save does to the config it has read.  An entry is [on, hide].      *)
Entry(on, hide) == [on |-> on, hide |-> hide]

Put(providers, a, entry) ==
  [x \in DOMAIN providers \cup {a} |-> IF x = a THEN entry ELSE providers[x]]

(* The override of one account, and that an added account has an entry.      *)
HideOne(providers, a, hide) ==
  Put(providers, a, Entry(a \in DOMAIN providers => providers[a].on, hide))
EnsureEntry(providers, a) ==
  IF a \in DOMAIN providers THEN providers ELSE Put(providers, a, Entry(TRUE, FALSE))

Apply(op, arg, cfg) ==
  CASE op = "theme"     -> [cfg EXCEPT !.theme = arg]
    [] op = "providers" -> [cfg EXCEPT !.providers = arg]
    [] op = "hide"      -> [cfg EXCEPT !.providers = HideOne(@, arg[1], arg[2])]
    [] op = "account"   -> [cfg EXCEPT !.providers = EnsureEntry(@, arg)]
    [] op = "detected"  -> [cfg EXCEPT !.detected = arg]
    [] op = "visible"   -> [cfg EXCEPT !.providers = arg.providers]
    [] op \in {"all", "repair"} -> arg

StartSave(proc, op, arg) ==
  /\ saves < MaxSaves /\ saves' = saves + 1
  /\ jobs' = jobs \cup {[proc |-> proc, op |-> op, arg |-> arg, stage |-> "waiting",
                         cfg |-> file, clean |-> TRUE, no |-> saves]}

(* The user of the dashboard: each choice starts a command of its own with   *)
(* what it needs of the model's memory.  The list of accounts that hiding or *)
(* moving one saves has no hide_costs.                                       *)
ChooseTheme(t) == StartSave(Dash, "theme", t) /\ UNCHANGED <<file, tail, dashEnabled, webCfg>>
DashboardConfigProviders(e) == [a \in SavedAccounts |-> Entry(e[a], FALSE)]
ToggleEntry(a) ==
  /\ dashEnabled' = [dashEnabled EXCEPT ![a] = ~ @]
  /\ StartSave(Dash, "providers", DashboardConfigProviders(dashEnabled'))
  /\ UNCHANGED <<file, tail, webCfg>>
HideCosts(a, hide) == StartSave(Dash, "hide", <<a, hide>>) /\ UNCHANGED <<file, tail, dashEnabled, webCfg>>
AddAccount(a)      == StartSave(Dash, "account", a) /\ UNCHANGED <<file, tail, dashEnabled, webCfg>>

(* The web server: a theme; an account's visibility or deletion, worked out  *)
(* on its memory.  The first saves the entries, the second everything.       *)
WebTheme(t) == /\ "web" \in Servers /\ StartSave("web", "theme", t)
               /\ UNCHANGED <<file, tail, dashEnabled, webCfg>>
SetVisible(providers, a, on) ==
  Put(providers, a, Entry(on, a \in DOMAIN providers /\ providers[a].hide))
SetAccountVisibility(a, on) ==
  /\ "web" \in Servers
  /\ StartSave("web", "visible", [webCfg EXCEPT !.providers = SetVisible(@, a, on)])
  /\ UNCHANGED <<file, tail, dashEnabled, webCfg>>
DeleteAccount(a) ==
  /\ "web" \in Servers
  /\ StartSave("web", "all", [webCfg EXCEPT !.detected = @ \ {a},
                                        !.providers = Put(@, a, Entry(FALSE, FALSE))])
  /\ UNCHANGED <<file, tail, dashEnabled, webCfg>>

(* The daemon: the accounts detected, when they differ from the file's.      *)
ResolveAccounts(found) ==
  /\ "daemon" \in Servers /\ found # file.detected /\ StartSave("daemon", "detected", found)
  /\ UNCHANGED <<file, tail, dashEnabled, webCfg>>

(* Load, in any process, finds the tail and goes on to repair the file with  *)
(* what it has salvaged.                                                     *)
LoadSalvages(proc) ==
  /\ tail = "there" /\ StartSave(proc, "repair", file)
  /\ UNCHANGED <<file, tail, dashEnabled, webCfg>>

(* A program that does not truncate writes its own, shorter version; bound:  *)
(* once.                                                                     *)
StrayWrite(t) ==
  /\ tail = "none" /\ t # file.theme
  /\ tail' = "there" /\ file' = [file EXCEPT !.theme = t]
  /\ jobs' = {[j EXCEPT !.clean = FALSE] : j \in jobs}
  /\ UNCHANGED <<dashEnabled, webCfg, saves>>

-------------------------------------------------------------------------------
Locked(proc) == \E j \in jobs : j.proc = proc /\ j.stage = "holding"

LockAnyway(j) ==   \* mutant: a save does not take the mutex
  /\ j \in jobs /\ j.stage = "waiting"
  /\ jobs' = (jobs \ {j}) \cup
       {[j EXCEPT !.stage = "holding", !.clean = TRUE, !.cfg = Apply(j.op, j.arg, file)]}
  /\ UNCHANGED <<file, tail, dashEnabled, webCfg, saves>>

(* The mutex, then the file is read; a repair looks whether the file is      *)
(* still bad, and a save of all does not look.                               *)
Lock(j) ==
  /\ j \in jobs /\ j.stage = "waiting" /\ ~ Locked(j.proc)
  /\ IF j.op = "repair" /\ tail # "there"
       THEN jobs' = jobs \ {j}
       ELSE jobs' = (jobs \ {j}) \cup
              {[j EXCEPT !.stage = "holding", !.clean = TRUE, !.cfg = Apply(j.op, j.arg, file)]}
  /\ UNCHANGED <<file, tail, dashEnabled, webCfg, saves>>

(* The web server's memory after a save.                                     *)
Remembered(j) == CASE j.op \in {"visible", "all"} -> j.arg
                   [] j.op = "theme" -> [webCfg EXCEPT !.theme = j.arg]
                   [] OTHER -> webCfg

(* The rename, after which the web server takes over what it saved.          *)
Rename(j) ==
  /\ j \in jobs /\ j.stage = "holding"
  /\ file' = j.cfg /\ tail' = IF tail = "there" THEN "gone" ELSE tail
  /\ jobs' = {IF i.proc = j.proc THEN i ELSE [i EXCEPT !.clean = FALSE] : i \in jobs \ {j}}
  /\ webCfg' = IF j.proc = "web" THEN Remembered(j) ELSE webCfg
  /\ UNCHANGED <<dashEnabled, saves>>

SettingsNext ==
  \/ \E t \in Themes : ChooseTheme(t) \/ WebTheme(t) \/ StrayWrite(t)
  \/ \E a \in SavedAccounts :
       \/ ToggleEntry(a) \/ AddAccount(a) \/ DeleteAccount(a)
       \/ \E b \in BOOLEAN : HideCosts(a, b) \/ SetAccountVisibility(a, b)
  \/ \E found \in SUBSET SavedAccounts : ResolveAccounts(found)
  \/ \E p \in Servers \cup {Dash} : LoadSalvages(p)
  \/ \E j \in jobs : Lock(j) \/ Rename(j)

SettingsSpec == SettingsInit /\ [][SettingsNext]_settingsVars

-------------------------------------------------------------------------------
(* A save of one thing leaves the rest as it finds it.                       *)
SameBut(field) ==
  /\ field = "theme" \/ file'.theme = file.theme
  /\ field = "detected" \/ file'.detected = file.detected
  /\ field = "providers" \/ file'.providers = file.providers

About(j) == CASE j.op = "theme" -> "theme"
              [] j.op = "detected" -> "detected"
              [] j.op \in {"providers", "visible", "hide", "account"} -> "providers"
              [] j.op = "repair" -> "nothing"

OthersKept(j) ==
  /\ SameBut(About(j))
  /\ j.op = "hide" => \A a \in DOMAIN file.providers :
       /\ file'.providers[a].on = file.providers[a].on
       /\ a # j.arg[1] => file'.providers[a].hide = file.providers[a].hide
  /\ j.op = "account" => \A a \in DOMAIN file.providers : file'.providers[a] = file.providers[a]

(* However the saves of a process queue, none undoes another's: a theme, an  *)
(* account's override or a repair of the file never brings old values of     *)
(* other fields back, unless another process wrote while it was at work, or  *)
(* it is the web server's deletion, which saves its memory.                  *)
SavesKeepOthers ==
  [][ \A j \in jobs : Rename(j) /\ j.clean /\ j.op # "all" => OthersKept(j) ]_settingsVars

================================================================================
