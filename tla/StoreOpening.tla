----------------------------- MODULE StoreOpening -----------------------------
(***************************************************************************)
(* Opening the telemetry database: the check for corruption, the rotation  *)
(* of a corrupt file, the deletion of old snapshots and, in a daemon, the  *)
(* one-shot repairs of rows that earlier versions wrote.  Daemons do all   *)
(* this before they ask for the socket, and hook commands open the same    *)
(* file beside them, so nothing but SQLite keeps two openings apart.       *)
(*                                                                         *)
(* A file is known by its inode, its number in inodes: who has it open     *)
(* keeps it when its name is given to another file.  SQLite's log is part  *)
(* of its file.  What is wrong with a row is what the repairs look at.     *)
(***************************************************************************)
EXTENDS Naturals, Sequences, FiniteSets

CONSTANTS
  Processes,  (* that open the database, at a time as daemon or hook command *)
  Legacy,     (* the rows of earlier versions                                *)
  Incoming,   (* what is ingested: [by, provider, account, instant]          *)
  NewIds,     (* bound: identities of the rows ingested                      *)
  MaxInodes, MaxDamages  (* bounds                                            *)

(* What the repairs look at in a row; late is history, the row was written   *)
(* when a repair had already run in its file.                                *)
Row == [id       : {r.id : r \in Legacy} \cup NewIds,
        by       : {r.by : r \in Legacy \cup Incoming},
        provider : {r.provider : r \in Legacy \cup Incoming} \cup {"codex", "cursor"},
        account  : {r.account : r \in Legacy \cup Incoming} \cup {"codex-cli"},
        instant  : BOOLEAN,
        late     : BOOLEAN]

ASSUME OpeningAssumption ==
  /\ Legacy \subseteq {r \in Row : ~ r.late}
  /\ \A c \in Incoming : c.instant \in BOOLEAN

VARIABLES
  inodes,   (* the files: [rows, done, ran, damaged, lost]; done is          *)
            (* _migrations, ran and lost are history: a repair has run in    *)
            (* it; an opening took it for the file it had judged             *)
  dbPath,   (* the inode at the database's path, 0 if none                   *)
  backups,  (* the snapshots: [name, inode]                                  *)
  opener,   (* Processes -> [at, inode, found, listed, repair]               *)
  ids,      (* NewIds not used yet                                           *)
  damages

openVars == <<inodes, dbPath, backups, opener, ids, damages>>

FileOf(rows) == [rows |-> rows, done |-> {}, ran |-> FALSE, damaged |-> FALSE, lost |-> FALSE]
Off == [at |-> "off", inode |-> 0, found |-> "", listed |-> {}, repair |-> 1]

(* The file of an earlier version, that never ran a repair.                  *)
OpeningInit ==
  /\ damages = 0 /\ ids = NewIds
  /\ inodes = <<FileOf(Legacy)>>
  /\ dbPath = 1 /\ backups = {} /\ opener = [p \in Processes |-> Off]

-------------------------------------------------------------------------------
At(p, where)   == opener[p].at = where
Goes(p, state) == opener' = [opener EXCEPT ![p] = state]
Own(p)         == inodes[opener[p].inode]
GoesOn(p, at)  == Goes(p, [Off EXCEPT !.at = at, !.inode = opener[p].inode])

(* openAndConfigureDB's first PRAGMA creates the file if there is none.      *)
OpenPath ==
  IF dbPath # 0 THEN UNCHANGED <<inodes, dbPath>>
  ELSE /\ Len(inodes) < MaxInodes
       /\ inodes' = Append(inodes, FileOf({})) /\ dbPath' = Len(inodes) + 1

Opens(p, state) == OpenPath /\ Goes(p, [state EXCEPT !.inode = dbPath'])
OpenFails(p)    == Goes(p, Off) /\ UNCHANGED <<inodes, dbPath>>

(* A damaged header is reported here, other damage is not; any other error   *)
(* ends the opening.                                                         *)
Connect(p) ==
  /\ At(p, "off") /\ UNCHANGED <<backups, ids, damages>>
  /\ \/ Opens(p, [Off EXCEPT !.at = "check"])
     \/ /\ dbPath # 0 /\ inodes[dbPath].damaged
        /\ Opens(p, [Off EXCEPT !.at = "rotate", !.found = "connecting"])
     \/ OpenFails(p)

CheckSuspects(p) ==   \* mutant: a check that timed out is taken for corruption
  /\ At(p, "check")
  /\ Goes(p, [opener[p] EXCEPT !.at = "rotate", !.found = "checking"])
  /\ UNCHANGED <<inodes, dbPath, backups, ids, damages>>

(* quickIntegrityCheck finds the damage, ...                                 *)
CheckFinds(p) ==
  /\ At(p, "check") /\ Own(p).damaged
  /\ Goes(p, [opener[p] EXCEPT !.at = "rotate", !.found = "checking"])
  /\ UNCHANGED <<inodes, dbPath, backups, ids, damages>>

(* ... or there is none, or it ran out of its 15 seconds.                    *)
CheckPasses(p) ==
  /\ At(p, "check") /\ GoesOn(p, "list")
  /\ UNCHANGED <<inodes, dbPath, backups, ids, damages>>

(* A snapshot is named for the second of its rename, here by the first file  *)
(* that was renamed in it.                                                   *)
LastName == {b.name : b \in {c \in backups : \A d \in backups : d.name <= c.name}}

(* recoverCorrupt renames what is at the path by now, over a snapshot of the *)
(* same second.  With nothing at the path the opening fails.                 *)
Rename(p) ==
  /\ At(p, "rotate")
  /\ IF dbPath = 0
     THEN Goes(p, Off) /\ UNCHANGED <<inodes, dbPath, backups>>
     ELSE /\ \E name \in LastName \cup {dbPath} :
               backups' = {b \in backups : b.name # name} \cup {[name |-> name, inode |-> dbPath]}
          /\ inodes' = [inodes EXCEPT ![dbPath].lost = @ \/ dbPath # opener[p].inode]
          /\ dbPath' = 0 /\ Goes(p, [opener[p] EXCEPT !.at = "unlog"])
  /\ UNCHANGED <<ids, damages>>

(* It removes the log, by name: if another opening has made a new file, that *)
(* file's rows may be in it.  External: of what SQLite may make of this, the *)
(* loss of any of the rows.                                                  *)
RemoveLog(p) ==
  /\ At(p, "unlog") /\ Goes(p, [opener[p] EXCEPT !.at = "reopen"])
  /\ IF dbPath = 0 THEN UNCHANGED inodes
     ELSE \E gone \in SUBSET inodes[dbPath].rows :
            inodes' = [inodes EXCEPT ![dbPath].rows = @ \ gone, ![dbPath].lost = TRUE]
  /\ UNCHANGED <<dbPath, backups, ids, damages>>

(* Opened afresh; only a file that would not even open is checked again.     *)
Reopen(p) ==
  /\ At(p, "reopen") /\ UNCHANGED <<backups, ids, damages>>
  /\ \/ Opens(p, [Off EXCEPT !.at = IF opener[p].found = "connecting" THEN "check" ELSE "list"])
     \/ OpenFails(p)

-------------------------------------------------------------------------------
(* Then Init sets up the tables, and a daemon goes on to the repairs.        *)
Opened == {"migrate", "open"}

(* pruneCorruptBackups(path, 1): the snapshots and their times are listed,   *)
(* then all but the one modified last are removed, by name.  Whoever still   *)
(* has a snapshot open modifies it when SQLite folds its log in, so that any *)
(* may be the last.                                                          *)
ListBackups(p) ==
  /\ At(p, "list")
  /\ IF Cardinality(backups) <= 1
     THEN \E at \in Opened : GoesOn(p, at)
     ELSE \E kept \in backups :
            Goes(p, [opener[p] EXCEPT !.at = "sweep", !.listed = {b.name : b \in backups \ {kept}}])
  /\ UNCHANGED <<inodes, dbPath, backups, ids, damages>>

RemoveBackups(p) ==
  /\ At(p, "sweep")
  /\ backups' = {b \in backups : b.name \notin opener[p].listed}
  /\ \E at \in Opened : GoesOn(p, at)
  /\ UNCHANGED <<inodes, dbPath, ids, damages>>

-------------------------------------------------------------------------------
(* RunMigrations.                                                            *)
RepairsAccountFirst ==   \* mutant: an order in which one makes work for another
  <<"repair_codex_account_id", "repair_codex_provider_id",
    "repair_cursor_provider_id", "cleanup_zero_timestamp_events">>

Repairs == <<"repair_codex_provider_id", "repair_codex_account_id",
             "repair_cursor_provider_id", "cleanup_zero_timestamp_events">>

Codex(r) == r.by = "codex"

RepairedRow(name, r) ==
  [r EXCEPT
     !.provider = IF name = "repair_codex_provider_id" /\ Codex(r) /\ @ = "openai" THEN "codex"
                  ELSE IF name = "repair_cursor_provider_id" /\ r.by = "cursor" THEN "cursor"
                  ELSE @,
     !.account  = IF name = "repair_codex_account_id" /\ Codex(r) /\ r.provider = "codex" /\ @ = "codex"
                  THEN "codex-cli" ELSE @]

(* A row without a session that occurred the instant it was ingested: its    *)
(* time had been unknown.                                                    *)
Removed(name, r) == name = "cleanup_zero_timestamp_events" /\ r.by \in {"cursor", "ollama"} /\ r.instant

Repair(name, rows) == {RepairedRow(name, r) : r \in {s \in rows : ~ Removed(name, s)}}

Migrates(p, where) == At(p, where) /\ UNCHANGED <<dbPath, backups, ids, damages>>
Repairing(p)       == Repairs[opener[p].repair]

(* On to the first that is not recorded.  A record stays, so that the ones   *)
(* recorded are passed over in one step.                                     *)
CheckRepair(p) ==
  LET left == {i \in 1 .. Len(Repairs) : Repairs[i] \notin Own(p).done}
  IN /\ Migrates(p, "migrate") /\ UNCHANGED inodes
     /\ IF left = {} THEN GoesOn(p, "open")
        ELSE \E i \in left : /\ \A j \in left : i <= j
                            /\ Goes(p, [opener[p] EXCEPT !.at = "repair", !.repair = i])

RunRepair(p) ==
  /\ Migrates(p, "repair")
  /\ inodes' = [inodes EXCEPT ![opener[p].inode].rows = Repair(Repairing(p), @),
                            ![opener[p].inode].ran = TRUE]
  /\ Goes(p, [opener[p] EXCEPT !.at = "record"])

(* The name is the primary key: a second record of one repair is an error.   *)
RecordRepair(p) ==
  /\ Migrates(p, "record") /\ Repairing(p) \notin Own(p).done
  /\ inodes' = [inodes EXCEPT ![opener[p].inode].done = @ \cup {Repairing(p)}]
  /\ GoesOn(p, "migrate")

(* Any error ends the repairs; the daemon goes on with a warning.            *)
MigrationFails(p) ==
  /\ \/ Migrates(p, "record") /\ Repairing(p) \in Own(p).done
     \/ \E where \in {"migrate", "repair", "record"} : Migrates(p, where) /\ Own(p).damaged
  /\ GoesOn(p, "open") /\ UNCHANGED inodes

-------------------------------------------------------------------------------
(* Store.Ingest, of whatever the collectors, the hooks and the spool bring:  *)
(* an account is the configured one or a hook's, a spooled request may be an *)
(* older version's, and a row without a session may be dated when it came.   *)
AddRow(p, c) ==
  \E id \in ids :
    /\ ids' = ids \ {id}
    /\ inodes' = [inodes EXCEPT ![opener[p].inode].rows = @ \cup
         {[id |-> id, by |-> c.by, provider |-> c.provider, account |-> c.account,
           instant |-> c.instant, late |-> Own(p).ran]}]

(* Merged into the row of its dedup key, which is of the same source: each   *)
(* column keeps its value or takes the new one, and may gain its session.    *)
MergeRow(p, c) ==
  /\ UNCHANGED ids
  /\ \E r \in Own(p).rows :
       /\ r.by = c.by
       /\ \E provider \in {r.provider, c.provider}, account \in {r.account, c.account},
             instant \in {r.instant, r.instant /\ c.instant} :
            inodes' = [inodes EXCEPT ![opener[p].inode].rows = (@ \ {r}) \cup
              {[r EXCEPT !.provider = provider, !.account = account, !.instant = instant,
                         !.late = Own(p).ran]}]

IngestRow(p) ==
  /\ At(p, "open")
  /\ \E c \in Incoming : AddRow(p, c) \/ MergeRow(p, c)
  /\ UNCHANGED <<dbPath, backups, opener, damages>>

(* Closed, or killed, or an opening that fails: what was committed stays.    *)
Ends(p) ==
  /\ ~ At(p, "off") /\ Goes(p, Off)
  /\ UNCHANGED <<inodes, dbPath, backups, ids, damages>>

(* External: bad blocks, a power failure, or what comes of each opening's    *)
(* removing the shared memory of a database that others have open.           *)
Damage ==
  /\ damages < MaxDamages /\ dbPath # 0 /\ ~ inodes[dbPath].damaged
  /\ damages' = damages + 1 /\ inodes' = [inodes EXCEPT ![dbPath].damaged = TRUE]
  /\ UNCHANGED <<dbPath, backups, opener, ids>>

OpeningNext ==
  \/ \E p \in Processes :
       \/ Connect(p) \/ CheckFinds(p) \/ CheckPasses(p) \/ Rename(p) \/ RemoveLog(p) \/ Reopen(p)
       \/ ListBackups(p) \/ RemoveBackups(p)
       \/ CheckRepair(p) \/ RunRepair(p) \/ RecordRepair(p) \/ MigrationFails(p)
       \/ IngestRow(p) \/ Ends(p)
  \/ Damage

OpeningSpec == OpeningInit /\ [][OpeningNext]_openVars

-------------------------------------------------------------------------------
Early(file) == {r \in file.rows : ~ r.late}

(* However daemons die, restart and migrate beside each other, and whatever  *)
(* part of the repairs has run: one that is recorded, and so will never run  *)
(* again, has nothing left to do in the rows written before the first repair *)
(* ran.  It takes that each is recorded after it ran, that running twice is  *)
(* harmless, and that none makes rows an earlier one would have changed      *)
(* (store.go:340-412).  What is ingested later no repair need ever reach.    *)
RecordedMeansRepaired ==
  \A f \in 1 .. Len(inodes) : \A name \in inodes[f].done :
    Repair(name, Early(inodes[f])) = Early(inodes[f])

(* store.go:101 calls the snapshots "corrupt by definition and never read    *)
(* again", and deletes all but one.  That holds of each but those for which  *)
(* history says that another opening, which had found an older file corrupt, *)
(* renamed the new file in its place.  No healthy file otherwise leaves the   *)
(* path, with the rows in it.                                                *)
HealthyFilesStay ==
  \A f \in 1 .. Len(inodes) : f = dbPath \/ inodes[f].damaged \/ inodes[f].lost
===============================================================================
