-------------------------- MODULE StoreOpeningProofs --------------------------
(***************************************************************************)
(* Theorems about opening a store, for every table of older rows, any      *)
(* number of processes that open it at once, and any deaths between two    *)
(* steps of an opening.  A repair that is recorded has been made of every  *)
(* row that was there before the first repair ran, because no repair makes *)
(* work for one before it, and whatever is ingested while repairs run is   *)
(* no longer one of those rows.  A file leaves the path only damaged, or   *)
(* where an opening takes a new file for the one it has judged.            *)
(***************************************************************************)
EXTENDS StoreOpening, SequenceTheorems, TLAPS

-------------------------------------------------------------------------------
(* What a repair leaves alone, row by row.                                   *)
Clean(name, rows) == \A r \in rows : ~ Removed(name, r) /\ RepairedRow(name, r) = r

LEMMA CleanIsRepaired ==
  ASSUME NEW name, NEW rows, Clean(name, rows)
  PROVE  Repair(name, rows) = rows
BY DEF Clean, Repair

(* The four names.                                                           *)
LEMMA RepairNames ==
  /\ Len(Repairs) = 4
  /\ Repairs[1] = "repair_codex_provider_id"
  /\ Repairs[2] = "repair_codex_account_id"
  /\ Repairs[3] = "repair_cursor_provider_id"
  /\ Repairs[4] = "cleanup_zero_timestamp_events"
BY DEF Repairs

(* The columns of a repaired row: a repair keeps who wrote it, and its shape. *)
ProviderOf(name, r) ==
  IF name = "repair_codex_provider_id" /\ Codex(r) /\ r.provider = "openai" THEN "codex"
  ELSE IF name = "repair_cursor_provider_id" /\ r.by = "cursor" THEN "cursor"
  ELSE r.provider

AccountOf(name, r) ==
  IF name = "repair_codex_account_id" /\ Codex(r) /\ r.provider = "codex" /\ r.account = "codex"
  THEN "codex-cli" ELSE r.account

LEMMA RepairedRowColumns ==
  ASSUME NEW name, NEW r \in Row
  PROVE  LET s == RepairedRow(name, r)
         IN /\ s \in Row
            /\ s.id = r.id /\ s.by = r.by /\ s.instant = r.instant /\ s.late = r.late
            /\ s.provider = ProviderOf(name, r) /\ s.account = AccountOf(name, r)
<1> DEFINE Providers == {q.provider : q \in Legacy \cup Incoming} \cup {"codex", "cursor"}
           Accounts  == {q.account : q \in Legacy \cup Incoming} \cup {"codex-cli"}
<1>1. r.provider \in Providers /\ r.account \in Accounts
  BY DEF Row
<1> DEFINE p == ProviderOf(name, r)  a == AccountOf(name, r)
<1>2. p \in Providers
  BY <1>1 DEF ProviderOf
<1>3. a \in Accounts
  BY <1>1 DEF AccountOf
<1>4. RepairedRow(name, r) = [r EXCEPT !.provider = p, !.account = a]
  BY DEF RepairedRow, ProviderOf, AccountOf
<1> HIDE DEF p, a
<1>5. [r EXCEPT !.provider = p, !.account = a] \in Row
  BY <1>2, <1>3 DEF Row
<1>6. QED
  BY <1>2, <1>3, <1>4, <1>5 DEF Row, p, a

LEMMA SameColumns ==
  ASSUME NEW r \in Row, NEW s \in Row, s.id = r.id, s.by = r.by, s.instant = r.instant, s.late = r.late,
         s.provider = r.provider, s.account = r.account
  PROVE  s = r
BY DEF Row

(* So whether a repair leaves a row alone shows in its columns.              *)
Left(name, r) == /\ ~ Removed(name, r)
                 /\ ProviderOf(name, r) = r.provider /\ AccountOf(name, r) = r.account

LEMMA CleanColumns ==
  ASSUME NEW name, NEW rows \in SUBSET Row
  PROVE  Clean(name, rows) <=> \A r \in rows : Left(name, r)
BY RepairedRowColumns, SameColumns DEF Clean, Left

LEMMA RepairShape ==
  ASSUME NEW name, NEW rows \in SUBSET Row
  PROVE  Repair(name, rows) \in SUBSET Row
BY RepairedRowColumns DEF Repair

(* A repair makes no row early or late.                                      *)
EarlyRows(rows) == {r \in rows : ~ r.late}

LEMMA RepairKeepsLate ==
  ASSUME NEW name, NEW rows \in SUBSET Row
  PROVE  EarlyRows(Repair(name, rows)) = Repair(name, EarlyRows(rows))
BY RepairedRowColumns DEF Repair, EarlyRows

LEMMA EarlyIsEarlyRows ==
  ASSUME NEW file
  PROVE  Early(file) = EarlyRows(file.rows)
BY DEF Early, EarlyRows

(* Running a repair twice is harmless.                                       *)
LEMMA RepairCleans ==
  ASSUME NEW i \in 1 .. Len(Repairs), NEW rows \in SUBSET Row
  PROVE  Clean(Repairs[i], Repair(Repairs[i], rows))
<1>1. ASSUME NEW r \in Row, ~ Removed(Repairs[i], r), NEW s \in Row,
             s.by = r.by, s.instant = r.instant,
             s.provider = ProviderOf(Repairs[i], r), s.account = AccountOf(Repairs[i], r)
      PROVE  Left(Repairs[i], s)
  BY <1>1, RepairNames DEF Left, ProviderOf, AccountOf, Removed, Codex
<1>2. QED
  BY <1>1, RepairedRowColumns, RepairShape, CleanColumns DEF Repair

(* No repair makes rows that an earlier one would have changed.              *)
LEMMA RepairKeepsEarlier ==
  ASSUME NEW i \in 1 .. Len(Repairs), NEW j \in 1 .. i - 1, NEW rows \in SUBSET Row,
         Clean(Repairs[j], rows)
  PROVE  Clean(Repairs[j], Repair(Repairs[i], rows))
<1>1. ASSUME NEW r \in Row, Left(Repairs[j], r), NEW s \in Row,
             s.by = r.by, s.instant = r.instant,
             s.provider = ProviderOf(Repairs[i], r), s.account = AccountOf(Repairs[i], r)
      PROVE  Left(Repairs[j], s)
  BY <1>1, RepairNames DEF Left, ProviderOf, AccountOf, Removed, Codex
<1>2. ASSUME NEW s \in Repair(Repairs[i], rows)
      PROVE  s \in Row /\ Left(Repairs[j], s)
  <2>1. PICK r \in rows : s = RepairedRow(Repairs[i], r)
    BY DEF Repair
  <2>2. r \in Row /\ Left(Repairs[j], r)
    BY CleanColumns
  <2>3. QED
    BY <1>1, <2>1, <2>2, RepairedRowColumns
<1>3. QED
  BY <1>2, CleanColumns, RepairShape
-------------------------------------------------------------------------------
(* What holds of the files and of the processes at any time.  A repair is    *)
(* run and recorded only after those before it are recorded, so that the     *)
(* recorded ones are the first ones, and none that could make work for them  *)
(* is ever run again.                                                        *)
Names    == {Repairs[i] : i \in 1 .. Len(Repairs)}
File     == [rows : SUBSET Row, done : SUBSET Names, ran : BOOLEAN, damaged : BOOLEAN, lost : BOOLEAN]
Snapshot == [name : Nat, inode : Nat]
Places   == {"off", "check", "rotate", "unlog", "reopen", "list", "sweep", "migrate",
             "repair", "record", "open"}
Opener   == [at : Places, inode : Nat, found : {"", "connecting", "checking"},
             listed : SUBSET Nat, repair : Nat]

OpeningTyped ==
  /\ inodes \in Seq(File)
  /\ dbPath \in 0 .. Len(inodes)
  /\ backups \in SUBSET Snapshot
  /\ opener \in [Processes -> Opener]
  /\ ids \in SUBSET NewIds

RecordedBefore(i, file) == \A j \in 1 .. i - 1 : Repairs[j] \in file.done

SoundFile(file) ==
  /\ \A name \in file.done : file.ran /\ Clean(name, Early(file))
  /\ \A i \in 1 .. Len(Repairs) : Repairs[i] \in file.done => RecordedBefore(i, file)

SoundOpener(o, F) ==
  /\ o.at # "off" => o.inode \in 1 .. Len(F)
  /\ o.at = "rotate" => F[o.inode].damaged
  /\ o.at \in {"repair", "record"} => /\ o.repair \in 1 .. Len(Repairs)
                                      /\ RecordedBefore(o.repair, F[o.inode])
  /\ o.at = "record" => F[o.inode].ran /\ Clean(Repairs[o.repair], Early(F[o.inode]))

OpeningInv ==
  /\ OpeningTyped
  /\ \A f \in 1 .. Len(inodes) : SoundFile(inodes[f])
  /\ \A p \in Processes : SoundOpener(opener[p], inodes)
  /\ HealthyFilesStay

-------------------------------------------------------------------------------
LEMMA OffIsSound ==
  ASSUME NEW F
  PROVE  Off \in Opener /\ SoundOpener(Off, F)
BY DEF Off, Opener, Places, SoundOpener

(* GoesOn keeps the inode and nothing else.                                  *)
LEMMA GoesOnIsSound ==
  ASSUME OpeningTyped, NEW p \in Processes, NEW F, SoundOpener(opener[p], F), ~ At(p, "off"),
         NEW at \in Places \ {"rotate", "repair", "record"}
  PROVE  LET o == [Off EXCEPT !.at = at, !.inode = opener[p].inode]
         IN o \in Opener /\ SoundOpener(o, F)
<1> DEFINE o == [Off EXCEPT !.at = at, !.inode = opener[p].inode]
<1>1. opener[p] \in Opener /\ opener[p].inode \in Nat /\ Off \in Opener
  BY OffIsSound DEF OpeningTyped, Opener
<1>2. o \in Opener /\ o.at = at /\ o.inode = opener[p].inode
  BY <1>1 DEF Opener
<1>3. SoundOpener(o, F)
  BY <1>2 DEF SoundOpener, At
<1>4. QED
  BY <1>2, <1>3

(* What one process does leaves the others sound.                            *)
LEMMA OneGoes ==
  ASSUME OpeningTyped, NEW p \in Processes, NEW o \in Opener, Goes(p, o), NEW F,
         SoundOpener(o, F), \A q \in Processes : SoundOpener(opener[q], F)
  PROVE  /\ opener' \in [Processes -> Opener]
         /\ \A q \in Processes : SoundOpener(opener'[q], F)
BY DEF OpeningTyped, Goes

(* A file gains records and damage; as long as what a process is about to    *)
(* record stays true of its file, the process stays sound.                   *)
LEMMA GrowingKeepsSound ==
  ASSUME NEW F, NEW G, Len(F) \in Nat, Len(G) \in Nat, Len(F) <= Len(G), NEW o, SoundOpener(o, F),
         \A m \in 1 .. Len(F) : /\ F[m].done \subseteq G[m].done
                                /\ (F[m].ran => G[m].ran)
                                /\ (F[m].damaged => G[m].damaged),
         o.at = "record" => Clean(Repairs[o.repair], Early(G[o.inode]))
  PROVE  SoundOpener(o, G)
BY DEF SoundOpener, RecordedBefore

(* A step that changes one file, that of inode n, into f.                    *)
LEMMA OneFileChanges ==
  ASSUME OpeningTyped, NEW n \in 1 .. Len(inodes), NEW f \in File, inodes' = [inodes EXCEPT ![n] = f]
  PROVE  /\ inodes' \in Seq(File)
         /\ Len(inodes') = Len(inodes)
         /\ \A m \in 1 .. Len(inodes) : inodes'[m] = IF m = n THEN f ELSE inodes[m]
BY ExceptSeq DEF OpeningTyped

LEMMA OneFileKeepsSound ==
  ASSUME OpeningInv, NEW n \in 1 .. Len(inodes), NEW f \in File, inodes' = [inodes EXCEPT ![n] = f],
         inodes[n].done \subseteq f.done, inodes[n].ran => f.ran, inodes[n].damaged => f.damaged, SoundFile(f),
         \A q \in Processes : opener[q].at = "record" /\ opener[q].inode = n
                                => Clean(Repairs[opener[q].repair], Early(f))
  PROVE  /\ inodes' \in Seq(File) /\ Len(inodes') = Len(inodes)
         /\ \A m \in 1 .. Len(inodes) : inodes'[m] = IF m = n THEN f ELSE inodes[m]
         /\ \A m \in 1 .. Len(inodes') : SoundFile(inodes'[m])
         /\ \A q \in Processes : SoundOpener(opener[q], inodes')
<1>1. /\ inodes' \in Seq(File) /\ Len(inodes') = Len(inodes) /\ Len(inodes) \in Nat
      /\ \A m \in 1 .. Len(inodes) : inodes'[m] = IF m = n THEN f ELSE inodes[m]
  BY OneFileChanges, LenProperties DEF OpeningInv, OpeningTyped
<1>2. \A m \in 1 .. Len(inodes') : SoundFile(inodes'[m])
  BY <1>1 DEF OpeningInv
<1>3. ASSUME NEW q \in Processes PROVE SoundOpener(opener[q], inodes')
  <2>1. SoundOpener(opener[q], inodes)
    BY DEF OpeningInv
  <2>2. opener[q].at = "record" => Clean(Repairs[opener[q].repair], Early(inodes'[opener[q].inode]))
    BY <1>1, <2>1 DEF SoundOpener
  <2>3. \A m \in 1 .. Len(inodes) : /\ inodes[m].done \subseteq inodes'[m].done
                                   /\ (inodes[m].ran => inodes'[m].ran)
                                   /\ (inodes[m].damaged => inodes'[m].damaged)
    BY <1>1
  <2>4. Len(inodes') \in Nat /\ Len(inodes) <= Len(inodes')
    BY <1>1
  <2>5. QED
    BY <1>1, <2>1, <2>2, <2>3, <2>4, GrowingKeepsSound, Zenon
<1>4. QED
  BY <1>1, <1>2, <1>3

-------------------------------------------------------------------------------
(* A process that only looks, or ends, changes no file.                      *)
LEMMA LooksKeep ==
  ASSUME OpeningInv, NEW p \in Processes, NEW o \in Opener, Goes(p, o), SoundOpener(o, inodes),
         UNCHANGED <<inodes, dbPath>>, backups' \in SUBSET Snapshot, ids' \in SUBSET NewIds
  PROVE  OpeningInv'
<1>1. /\ opener' \in [Processes -> Opener]
      /\ \A q \in Processes : SoundOpener(opener'[q], inodes)
  BY OneGoes DEF OpeningInv
<1>2. QED
  BY <1>1 DEF OpeningInv, OpeningTyped, HealthyFilesStay

(* Whoever finds no file at the path makes one.                              *)
LEMMA OpensKeep ==
  ASSUME OpeningInv, NEW p \in Processes, NEW st \in Opener, Opens(p, st),
         UNCHANGED <<backups, ids>>,
         st.at \in {"check", "list"} \/ (st.at = "rotate" /\ dbPath # 0 /\ inodes[dbPath].damaged)
  PROVE  OpeningInv'
<1> DEFINE o == [st EXCEPT !.inode = dbPath']
<1>1. inodes \in Seq(File) /\ Len(inodes) \in Nat
  BY LenProperties DEF OpeningInv, OpeningTyped
<1>2. FileOf({}) \in File /\ SoundFile(FileOf({}))
  BY DEF FileOf, File, SoundFile
<1>3. /\ inodes' \in Seq(File) /\ Len(inodes') \in Nat /\ Len(inodes) <= Len(inodes')
      /\ \A m \in 1 .. Len(inodes) : inodes'[m] = inodes[m]
      /\ \A m \in 1 .. Len(inodes') : SoundFile(inodes'[m])
      /\ dbPath' \in 1 .. Len(inodes')
      /\ \A m \in 1 .. Len(inodes') : m <= Len(inodes) \/ m = dbPath'
      /\ dbPath # 0 => UNCHANGED <<inodes, dbPath>>
  <2>1. CASE dbPath # 0
    BY <1>1, <2>1 DEF Opens, OpenPath, OpeningInv, OpeningTyped
  <2>2. CASE dbPath = 0
    <3>1. inodes' = Append(inodes, FileOf({})) /\ dbPath' = Len(inodes) + 1
      BY <2>2 DEF Opens, OpenPath
    <3>2. QED
      BY <1>1, <1>2, <2>2, <3>1, AppendProperties DEF OpeningInv
  <2>3. QED
    BY <2>1, <2>2
<1>4. o \in Opener /\ o.at = st.at /\ o.inode = dbPath'
  <2>1. dbPath' \in Nat
    BY <1>3
  <2>2. QED
    BY <2>1 DEF Opener
<1>5. SoundOpener(o, inodes')
  BY <1>3, <1>4 DEF SoundOpener
<1>6. \A q \in Processes : SoundOpener(opener[q], inodes')
  <2>1. SUFFICES ASSUME NEW q \in Processes PROVE SoundOpener(opener[q], inodes')
    OBVIOUS
  <2>2. SoundOpener(opener[q], inodes)
    BY DEF OpeningInv
  <2>3. opener[q].at = "record" => Clean(Repairs[opener[q].repair], Early(inodes'[opener[q].inode]))
    BY <1>3, <2>2 DEF SoundOpener
  <2>4. \A m \in 1 .. Len(inodes) : /\ inodes[m].done \subseteq inodes'[m].done
                                   /\ (inodes[m].ran => inodes'[m].ran)
                                   /\ (inodes[m].damaged => inodes'[m].damaged)
    BY <1>3
  <2>5. QED
    BY <1>1, <1>3, <2>2, <2>3, <2>4, GrowingKeepsSound, Zenon
<1>7. /\ opener' \in [Processes -> Opener]
      /\ \A q \in Processes : SoundOpener(opener'[q], inodes')
  BY <1>4, <1>5, <1>6, OneGoes DEF Opens, OpeningInv
<1>8. HealthyFilesStay'
  <2>1. CASE dbPath # 0
    BY <1>3, <2>1 DEF HealthyFilesStay, OpeningInv
  <2>2. CASE dbPath = 0
    BY <1>1, <1>3, <2>2 DEF HealthyFilesStay, OpeningInv
  <2>3. QED
    BY <2>1, <2>2
<1>9. QED
  BY <1>3, <1>7, <1>8 DEF OpeningInv, OpeningTyped

(* One file becomes f, and process p goes on as o.                           *)
LEMMA FileStepKeeps ==
  ASSUME OpeningInv, NEW n \in 1 .. Len(inodes), NEW f \in File, inodes' = [inodes EXCEPT ![n] = f],
         inodes[n].done \subseteq f.done, inodes[n].ran => f.ran, inodes[n].damaged => f.damaged,
         inodes[n].lost => f.lost, SoundFile(f),
         \A q \in Processes : opener[q].at = "record" /\ opener[q].inode = n
                                => Clean(Repairs[opener[q].repair], Early(f)),
         dbPath' = dbPath \/ (dbPath' = 0 /\ n = dbPath /\ (f.damaged \/ f.lost)),
         backups' \in SUBSET Snapshot, ids' \in SUBSET NewIds,
         \/ UNCHANGED opener
         \/ \E p \in Processes, o \in Opener : Goes(p, o) /\ SoundOpener(o, inodes')
  PROVE  OpeningInv'
<1>1. /\ inodes' \in Seq(File) /\ Len(inodes') = Len(inodes)
      /\ \A m \in 1 .. Len(inodes) : inodes'[m] = IF m = n THEN f ELSE inodes[m]
      /\ \A m \in 1 .. Len(inodes') : SoundFile(inodes'[m])
      /\ \A q \in Processes : SoundOpener(opener[q], inodes')
  BY OneFileKeepsSound
<1>2. /\ opener' \in [Processes -> Opener]
      /\ \A q \in Processes : SoundOpener(opener'[q], inodes')
  <2>1. CASE UNCHANGED opener
    BY <1>1, <2>1 DEF OpeningInv, OpeningTyped
  <2>2. ASSUME NEW p \in Processes, NEW o \in Opener, Goes(p, o), SoundOpener(o, inodes')
        PROVE  /\ opener' \in [Processes -> Opener]
               /\ \A q \in Processes : SoundOpener(opener'[q], inodes')
    BY <1>1, <2>2, OneGoes DEF OpeningInv
  <2>3. QED
    BY <2>1, <2>2
<1>3. HealthyFilesStay'
  BY <1>1 DEF HealthyFilesStay, OpeningInv
<1>4. dbPath' \in 0 .. Len(inodes')
  BY <1>1 DEF OpeningInv, OpeningTyped
<1>5. QED
  BY <1>1, <1>2, <1>3, <1>4 DEF OpeningInv, OpeningTyped

-------------------------------------------------------------------------------
(* The states a process goes to.                                             *)
LEMMA OpenerTyped ==
  ASSUME OpeningTyped, NEW p \in Processes
  PROVE  opener[p] \in Opener /\ Off \in Opener
BY OffIsSound DEF OpeningTyped

(* Going on to a place where nothing but the inode is asked for.             *)
LEMMA GoesOnKeeps ==
  ASSUME OpeningInv, NEW p \in Processes, ~ At(p, "off"),
         NEW at \in Places \ {"rotate", "repair", "record"}, GoesOn(p, at),
         UNCHANGED <<inodes, dbPath>>, backups' \in SUBSET Snapshot, ids' \in SUBSET NewIds
  PROVE  OpeningInv'
<1>1. OpeningTyped /\ SoundOpener(opener[p], inodes)
  BY DEF OpeningInv
<1>2. QED
  BY <1>1, GoesOnIsSound, LooksKeep, Zenon DEF GoesOn

LEMMA EndsKeeps ==
  ASSUME OpeningInv, NEW p \in Processes, Goes(p, Off), UNCHANGED <<inodes, dbPath, backups, ids>>
  PROVE  OpeningInv'
<1>1. backups' \in SUBSET Snapshot /\ ids' \in SUBSET NewIds
  BY DEF OpeningInv, OpeningTyped
<1>2. QED
  BY <1>1, OffIsSound, LooksKeep

LEMMA ConnectKeeps ==
  ASSUME OpeningInv, NEW p \in Processes, Connect(p) \/ Reopen(p)
  PROVE  OpeningInv'
<1>1. OpeningTyped
  BY DEF OpeningInv
<1>2. CASE OpenFails(p) /\ UNCHANGED <<backups, ids>>
  BY <1>2, EndsKeeps DEF OpenFails
<1>3. ASSUME NEW at \in {"check", "list"}, Opens(p, [Off EXCEPT !.at = at]), UNCHANGED <<backups, ids>>
      PROVE  OpeningInv'
  <2>1. Off \in Opener /\ at \in Places
    BY OffIsSound DEF Places
  <2>2. [Off EXCEPT !.at = at] \in Opener /\ [Off EXCEPT !.at = at].at = at
    BY <2>1 DEF Opener
  <2>3. QED
    BY <1>3, <2>2, OpensKeep
<1>4. ASSUME dbPath # 0, inodes[dbPath].damaged, UNCHANGED <<backups, ids>>,
             Opens(p, [Off EXCEPT !.at = "rotate", !.found = "connecting"])
      PROVE  OpeningInv'
  <2> DEFINE st == [Off EXCEPT !.at = "rotate", !.found = "connecting"]
  <2>1. st \in Opener /\ st.at = "rotate"
    BY OffIsSound DEF Opener, Places
  <2>2. QED
    BY <1>4, <2>1, OpensKeep
<1>5. QED
  BY <1>2, <1>3, <1>4 DEF Connect, Reopen

LEMMA LookingKeeps ==
  ASSUME OpeningInv, NEW p \in Processes,
         \/ CheckFinds(p) \/ CheckPasses(p) \/ ListBackups(p) \/ RemoveBackups(p) \/ Ends(p)
  PROVE  OpeningInv'
<1>1. /\ OpeningTyped /\ SoundOpener(opener[p], inodes)
      /\ backups \in SUBSET Snapshot /\ ids \in SUBSET NewIds
  BY DEF OpeningInv, OpeningTyped
<1>2. CASE CheckFinds(p)
  <2> DEFINE o == [opener[p] EXCEPT !.at = "rotate", !.found = "checking"]
  <2>1. o \in Opener /\ o.at = "rotate" /\ o.inode = opener[p].inode
    BY <1>1, OpenerTyped DEF Opener, Places
  <2>2. SoundOpener(o, inodes)
    BY <1>1, <1>2, <2>1 DEF CheckFinds, Own, At, SoundOpener
  <2>3. QED
    BY <1>1, <1>2, <2>1, <2>2, LooksKeep DEF CheckFinds
<1>3. CASE CheckPasses(p)
  BY <1>1, <1>3, GoesOnKeeps DEF CheckPasses, At, Places
<1>4. CASE ListBackups(p)
  <2>1. CASE Cardinality(backups) <= 1
    BY <1>1, <1>4, <2>1, GoesOnKeeps DEF ListBackups, Opened, At, Places
  <2>2. ASSUME NEW kept \in backups,
               Goes(p, [opener[p] EXCEPT !.at = "sweep", !.listed = {b.name : b \in backups \ {kept}}])
        PROVE  OpeningInv'
    <3> DEFINE o == [opener[p] EXCEPT !.at = "sweep", !.listed = {b.name : b \in backups \ {kept}}]
    <3>1. {b.name : b \in backups \ {kept}} \in SUBSET Nat
      BY <1>1 DEF Snapshot
    <3>2. o \in Opener /\ o.at = "sweep" /\ o.inode = opener[p].inode
      BY <1>1, <3>1, OpenerTyped DEF Opener, Places
    <3>3. SoundOpener(o, inodes)
      BY <1>1, <1>4, <3>2 DEF ListBackups, At, SoundOpener
    <3>4. QED
      BY <1>1, <1>4, <2>2, <3>2, <3>3, LooksKeep DEF ListBackups
  <2>3. QED
    BY <1>4, <2>1, <2>2 DEF ListBackups
<1>5. CASE RemoveBackups(p)
  <2>1. backups' \in SUBSET Snapshot
    BY <1>1, <1>5 DEF RemoveBackups
  <2>2. QED
    BY <1>1, <1>5, <2>1, GoesOnKeeps DEF RemoveBackups, Opened, At, Places
<1>6. CASE Ends(p)
  BY <1>6, EndsKeeps DEF Ends
<1>7. QED
  BY <1>2, <1>3, <1>4, <1>5, <1>6

-------------------------------------------------------------------------------
(* The one step that changes rows while others may be repairing the file.    *)
LEMMA RunRepairKeeps ==
  ASSUME OpeningInv, NEW p \in Processes, RunRepair(p)
  PROVE  OpeningInv'
<1> DEFINE n == opener[p].inode
           i == opener[p].repair
           f == [inodes[n] EXCEPT !.rows = Repair(Repairs[i], @), !.ran = TRUE]
           o == [opener[p] EXCEPT !.at = "record"]
<1>1. /\ OpeningTyped /\ SoundOpener(opener[p], inodes) /\ inodes \in Seq(File)
      /\ backups \in SUBSET Snapshot /\ ids \in SUBSET NewIds
  BY DEF OpeningInv, OpeningTyped
<1>2. /\ n \in 1 .. Len(inodes) /\ inodes[n] \in File /\ SoundFile(inodes[n])
      /\ i \in 1 .. Len(Repairs) /\ RecordedBefore(i, inodes[n])
  BY <1>1, ElementOfSeq DEF RunRepair, Migrates, At, SoundOpener, OpeningInv
<1>3. inodes[n].rows \in SUBSET Row /\ Early(inodes[n]) \in SUBSET Row
  BY <1>2 DEF File, Early
<1>4. f \in File /\ f.rows = Repair(Repairs[i], inodes[n].rows)
      /\ f.done = inodes[n].done /\ f.damaged = inodes[n].damaged /\ f.lost = inodes[n].lost /\ f.ran
      /\ Early(f) = Repair(Repairs[i], Early(inodes[n]))
  <2>1. f \in File /\ f.rows = Repair(Repairs[i], inodes[n].rows) /\ f.ran
        /\ f.done = inodes[n].done /\ f.damaged = inodes[n].damaged /\ f.lost = inodes[n].lost
    BY <1>2, <1>3, RepairShape DEF File
  <2>2. /\ Early(f) = EarlyRows(f.rows)
        /\ Early(inodes[n]) = EarlyRows(inodes[n].rows)
    BY EarlyIsEarlyRows, Zenon
  <2>3. EarlyRows(Repair(Repairs[i], inodes[n].rows)) = Repair(Repairs[i], EarlyRows(inodes[n].rows))
    BY <1>3, RepairKeepsLate, Zenon
  <2> HIDE DEF f
  <2>4. QED
    BY <2>1, <2>2, <2>3
<1> HIDE DEF f
<1>5. ASSUME NEW j \in 1 .. Len(Repairs), Clean(Repairs[j], Early(inodes[n])),
             j < i \/ Repairs[i] \in inodes[n].done \/ j = i
      PROVE  Clean(Repairs[j], Early(f))
  <2>1. CASE j \in 1 .. i - 1
    <3>1. Clean(Repairs[j], Repair(Repairs[i], Early(inodes[n])))
      BY <1>2, <1>3, <1>5, <2>1, RepairKeepsEarlier, Zenon
    <3>2. QED
      BY <1>4, <3>1
  <2>2. CASE Repairs[i] \in inodes[n].done
    BY <1>2, <1>4, <1>5, <2>2, CleanIsRepaired DEF SoundFile
  <2>3. CASE j = i
    BY <1>2, <1>3, <1>4, <2>3, RepairCleans
  <2>4. QED
    BY <1>2, <1>5, <2>1, <2>2, <2>3
<1>6. ASSUME NEW name \in f.done PROVE Clean(name, Early(f))
  <2>1. PICK j \in 1 .. Len(Repairs) : name = Repairs[j]
    BY <1>2, <1>4 DEF File, Names
  <2>2. Clean(Repairs[j], Early(inodes[n]))
    BY <1>2, <1>4, <2>1 DEF SoundFile
  <2>3. j < i \/ Repairs[i] \in inodes[n].done \/ j = i
    BY <1>2, <1>4, <2>1, RepairNames DEF SoundFile, RecordedBefore
  <2>4. QED
    BY <1>5, <2>1, <2>2, <2>3
<1>7. SoundFile(f)
  BY <1>2, <1>4, <1>6 DEF SoundFile, RecordedBefore
<1>8. ASSUME NEW q \in Processes, opener[q].at = "record", opener[q].inode = n
      PROVE  Clean(Repairs[opener[q].repair], Early(f))
  <2>1. /\ opener[q].repair \in 1 .. Len(Repairs) /\ RecordedBefore(opener[q].repair, inodes[n])
        /\ Clean(Repairs[opener[q].repair], Early(inodes[n]))
    BY <1>8 DEF OpeningInv, SoundOpener
  <2>2. \/ opener[q].repair < i \/ Repairs[i] \in inodes[n].done \/ opener[q].repair = i
    BY <1>2, <2>1, RepairNames DEF RecordedBefore
  <2>3. QED
    BY <1>5, <2>1, <2>2
<1>9. inodes' = [inodes EXCEPT ![n] = f] /\ Goes(p, o) /\ UNCHANGED <<dbPath, backups, ids>>
  BY DEF RunRepair, Migrates, Repairing, f
<1>10. o \in Opener /\ o.at = "record" /\ o.inode = n /\ o.repair = i
  BY <1>1, OpenerTyped DEF Opener, Places
<1>11. inodes'[n] = f /\ Len(inodes') = Len(inodes)
  BY <1>1, <1>2, <1>4, <1>9, OneFileChanges
<1>12. Clean(Repairs[i], Early(f))
  BY <1>2, <1>3, <1>4, RepairCleans
<1>13. SoundOpener(o, inodes')
  BY <1>2, <1>4, <1>10, <1>11, <1>12 DEF SoundOpener, RecordedBefore
<1>14. \A q \in Processes : opener[q].at = "record" /\ opener[q].inode = n
                             => Clean(Repairs[opener[q].repair], Early(f))
  BY <1>8
<1>15. /\ inodes[n].done \subseteq f.done /\ (inodes[n].ran => f.ran)
       /\ (inodes[n].damaged => f.damaged) /\ (inodes[n].lost => f.lost)
       /\ dbPath' = dbPath /\ backups' \in SUBSET Snapshot /\ ids' \in SUBSET NewIds
       /\ \E q \in Processes, s \in Opener : Goes(q, s) /\ SoundOpener(s, inodes')
  BY <1>1, <1>4, <1>9, <1>10, <1>13
<1> HIDE DEF o, n, i
<1>16. QED
  BY <1>2, <1>4, <1>7, <1>9, <1>14, <1>15, FileStepKeeps, Zenon

LEMMA RepairingKeeps ==
  ASSUME OpeningInv, NEW p \in Processes,
         CheckRepair(p) \/ RecordRepair(p) \/ MigrationFails(p)
  PROVE  OpeningInv'
<1>1. /\ OpeningTyped /\ SoundOpener(opener[p], inodes) /\ inodes \in Seq(File)
      /\ backups \in SUBSET Snapshot /\ ids \in SUBSET NewIds
  BY DEF OpeningInv, OpeningTyped
<1>2. CASE CheckRepair(p)
  <2> DEFINE left == {i \in 1 .. Len(Repairs) : Repairs[i] \notin Own(p).done}
  <2>1. CASE GoesOn(p, "open")
    BY <1>1, <1>2, <2>1, GoesOnKeeps DEF CheckRepair, Migrates, At, Places
  <2>2. ASSUME NEW i \in left, \A j \in left : i <= j,
               Goes(p, [opener[p] EXCEPT !.at = "repair", !.repair = i])
        PROVE  OpeningInv'
    <3> DEFINE o == [opener[p] EXCEPT !.at = "repair", !.repair = i]
    <3>1. i \in Nat /\ i \in 1 .. Len(Repairs)
      BY RepairNames
    <3>2. opener[p].at = "migrate"
      BY <1>2 DEF CheckRepair, Migrates, At
    <3>3. opener[p].inode \in 1 .. Len(inodes)
      BY <1>1, <3>2 DEF SoundOpener
    <3>4. o \in Opener /\ o.at = "repair" /\ o.inode = opener[p].inode /\ o.repair = i
      BY <1>1, <3>1, OpenerTyped DEF Opener, Places
    <3>5. RecordedBefore(i, inodes[opener[p].inode])
      BY <2>2, RepairNames DEF RecordedBefore, Own
    <3>6. SoundOpener(o, inodes)
      BY <3>1, <3>4, <3>5, <3>3 DEF SoundOpener
    <3>7. QED
      BY <1>1, <1>2, <2>2, <3>4, <3>6, LooksKeep DEF CheckRepair, Migrates
  <2>3. QED
    BY <1>2, <2>1, <2>2 DEF CheckRepair
<1>3. CASE RecordRepair(p)
  <2> DEFINE n == opener[p].inode
             i == opener[p].repair
             f == [inodes[n] EXCEPT !.done = @ \cup {Repairs[i]}]
             o == [Off EXCEPT !.at = "migrate", !.inode = n]
  <2>1. /\ n \in 1 .. Len(inodes) /\ inodes[n] \in File /\ SoundFile(inodes[n])
        /\ i \in 1 .. Len(Repairs) /\ RecordedBefore(i, inodes[n]) /\ Clean(Repairs[i], Early(inodes[n])) /\ inodes[n].ran
    BY <1>1, <1>3, ElementOfSeq DEF RecordRepair, Migrates, At, SoundOpener, OpeningInv
  <2>2. /\ f \in File /\ f.done = inodes[n].done \cup {Repairs[i]} /\ f.rows = inodes[n].rows
        /\ f.damaged = inodes[n].damaged /\ f.lost = inodes[n].lost /\ f.ran = inodes[n].ran
        /\ Early(f) = Early(inodes[n])
    BY <2>1 DEF File, Names, Early
  <2>3. SoundFile(f)
    <3>1. \A name \in f.done : f.ran /\ Clean(name, Early(f))
      BY <2>1, <2>2 DEF SoundFile
    <3>2. ASSUME NEW j \in 1 .. Len(Repairs), Repairs[j] \in f.done PROVE RecordedBefore(j, f)
      <4>1. CASE Repairs[j] \in inodes[n].done
        BY <2>1, <2>2, <4>1 DEF SoundFile, RecordedBefore
      <4>2. CASE Repairs[j] = Repairs[i]
        <5>1. j = i
          BY <2>1, <4>2, RepairNames
        <5>2. QED
          BY <2>1, <2>2, <5>1 DEF RecordedBefore
      <4>3. QED
        BY <2>2, <3>2, <4>1, <4>2
    <3>3. QED
      BY <3>1, <3>2 DEF SoundFile
  <2>4. \A q \in Processes : opener[q].at = "record" /\ opener[q].inode = n
                               => Clean(Repairs[opener[q].repair], Early(f))
    BY <2>2 DEF OpeningInv, SoundOpener
  <2>5. inodes' = [inodes EXCEPT ![n] = f] /\ Goes(p, o) /\ UNCHANGED <<dbPath, backups, ids>>
    BY <1>3 DEF RecordRepair, Migrates, Repairing, GoesOn
  <2>6. o \in Opener /\ o.at = "migrate" /\ o.inode = n
    BY <1>1, OpenerTyped DEF Opener, Places
  <2>7. SoundOpener(o, inodes')
    BY <1>1, <2>1, <2>2, <2>5, <2>6, OneFileChanges DEF SoundOpener
  <2>8. /\ inodes[n].done \subseteq f.done /\ (inodes[n].ran => f.ran)
        /\ (inodes[n].damaged => f.damaged) /\ (inodes[n].lost => f.lost)
        /\ dbPath' = dbPath /\ backups' \in SUBSET Snapshot /\ ids' \in SUBSET NewIds
        /\ \E q \in Processes, s \in Opener : Goes(q, s) /\ SoundOpener(s, inodes')
    BY <1>1, <2>2, <2>5, <2>6, <2>7
  <2> HIDE DEF f, o, n, i
  <2>9. QED
    BY <2>1, <2>2, <2>3, <2>4, <2>5, <2>8, FileStepKeeps, Zenon
<1>4. CASE MigrationFails(p)
  BY <1>1, <1>4, GoesOnKeeps DEF MigrationFails, Migrates, At, Places
<1>5. QED
  BY <1>2, <1>3, <1>4


-------------------------------------------------------------------------------
(* The path is given up only for a file that was found damaged, or that      *)
(* another opening put there since.                                          *)
LEMMA RenameKeeps ==
  ASSUME OpeningInv, NEW p \in Processes, Rename(p)
  PROVE  OpeningInv'
<1>1. /\ OpeningTyped /\ SoundOpener(opener[p], inodes) /\ inodes \in Seq(File)
      /\ backups \in SUBSET Snapshot /\ ids \in SUBSET NewIds /\ opener[p].at = "rotate"
      /\ UNCHANGED ids
  BY DEF OpeningInv, OpeningTyped, Rename, At
<1>2. CASE dbPath = 0
  BY <1>1, <1>2, EndsKeeps DEF Rename
<1>3. CASE dbPath # 0
  <2> DEFINE n == dbPath
             f == [inodes[n] EXCEPT !.lost = @ \/ n # opener[p].inode]
             o == [opener[p] EXCEPT !.at = "unlog"]
  <2>1. /\ n \in 1 .. Len(inodes) /\ n \in Nat /\ inodes[n] \in File /\ SoundFile(inodes[n])
        /\ opener[p].inode \in 1 .. Len(inodes) /\ inodes[opener[p].inode].damaged
    BY <1>1, <1>3, ElementOfSeq DEF SoundOpener, OpeningInv, OpeningTyped
  <2>2. /\ f \in File /\ f.done = inodes[n].done /\ f.rows = inodes[n].rows
        /\ f.ran = inodes[n].ran /\ f.damaged = inodes[n].damaged /\ f.lost = (inodes[n].lost \/ n # opener[p].inode)
        /\ Early(f) = Early(inodes[n])
    BY <2>1 DEF File, Early
  <2>3. SoundFile(f)
    BY <2>1, <2>2 DEF SoundFile, RecordedBefore
  <2>4. \A q \in Processes : opener[q].at = "record" /\ opener[q].inode = n
                               => Clean(Repairs[opener[q].repair], Early(f))
    BY <2>2 DEF OpeningInv, SoundOpener
  <2>5. inodes' = [inodes EXCEPT ![n] = f] /\ Goes(p, o) /\ dbPath' = 0
    BY <1>3 DEF Rename
  <2>6. LastName \subseteq Nat
    BY <1>1 DEF LastName, Snapshot
  <2>7. backups' \in SUBSET Snapshot
    BY <1>1, <1>3, <2>1, <2>6 DEF Rename, Snapshot
  <2>8. o \in Opener /\ o.at = "unlog" /\ o.inode = opener[p].inode
    BY <1>1, OpenerTyped DEF Opener, Places
  <2>9. SoundOpener(o, inodes')
    BY <1>1, <2>1, <2>2, <2>5, <2>8, OneFileChanges DEF SoundOpener
  <2>10. /\ inodes[n].done \subseteq f.done /\ (inodes[n].ran => f.ran)
         /\ (inodes[n].damaged => f.damaged) /\ (inodes[n].lost => f.lost)
         /\ dbPath' = 0 /\ n = dbPath /\ (f.damaged \/ f.lost) /\ ids' \in SUBSET NewIds
         /\ \E q \in Processes, s \in Opener : Goes(q, s) /\ SoundOpener(s, inodes')
    BY <1>1, <2>1, <2>2, <2>5, <2>8, <2>9
  <2> HIDE DEF f, o, n
  <2>11. QED
    BY <2>1, <2>2, <2>3, <2>4, <2>5, <2>7, <2>10, FileStepKeeps, Zenon
<1>4. QED
  BY <1>2, <1>3

(* Losing rows makes no repair necessary.                                    *)
LEMMA RemoveLogKeeps ==
  ASSUME OpeningInv, NEW p \in Processes, RemoveLog(p)
  PROVE  OpeningInv'
<1> DEFINE o == [opener[p] EXCEPT !.at = "reopen"]
<1>1. /\ OpeningTyped /\ SoundOpener(opener[p], inodes) /\ inodes \in Seq(File)
      /\ backups' \in SUBSET Snapshot /\ ids' \in SUBSET NewIds /\ opener[p].at = "unlog"
      /\ UNCHANGED dbPath /\ Goes(p, o)
  BY DEF OpeningInv, OpeningTyped, RemoveLog, At
<1>2. o \in Opener /\ o.at = "reopen" /\ o.inode = opener[p].inode
  BY <1>1, OpenerTyped DEF Opener, Places
<1>3. CASE UNCHANGED inodes
  <2>1. SoundOpener(o, inodes)
    BY <1>1, <1>2 DEF SoundOpener
  <2>2. QED
    BY <1>1, <1>2, <1>3, <2>1, LooksKeep
<1>4. ASSUME dbPath # 0, NEW gone \in SUBSET inodes[dbPath].rows,
             inodes' = [inodes EXCEPT ![dbPath].rows = @ \ gone, ![dbPath].lost = TRUE]
      PROVE  OpeningInv'
  <2> DEFINE n == dbPath
             f == [inodes[n] EXCEPT !.rows = @ \ gone, !.lost = TRUE]
  <2>1. n \in 1 .. Len(inodes) /\ inodes[n] \in File /\ SoundFile(inodes[n])
    BY <1>1, <1>4, ElementOfSeq DEF OpeningInv, OpeningTyped
  <2>2. /\ f \in File /\ f.done = inodes[n].done /\ f.rows = inodes[n].rows \ gone
        /\ f.damaged = inodes[n].damaged /\ f.lost /\ f.ran = inodes[n].ran
        /\ Early(f) \subseteq Early(inodes[n])
    BY <2>1 DEF File, Early
  <2>3. SoundFile(f)
    BY <2>1, <2>2 DEF SoundFile, RecordedBefore, Clean
  <2>4. \A q \in Processes : opener[q].at = "record" /\ opener[q].inode = n
                               => Clean(Repairs[opener[q].repair], Early(f))
    BY <2>2 DEF OpeningInv, SoundOpener, Clean
  <2>5. inodes' = [inodes EXCEPT ![n] = f]
    BY <1>4
  <2>6. SoundOpener(o, inodes')
    BY <1>1, <1>2, <2>1, <2>2, <2>5, OneFileChanges DEF SoundOpener
  <2>7. /\ inodes[n].done \subseteq f.done /\ (inodes[n].ran => f.ran)
        /\ (inodes[n].damaged => f.damaged) /\ (inodes[n].lost => f.lost)
        /\ \E q \in Processes, s \in Opener : Goes(q, s) /\ SoundOpener(s, inodes')
    BY <1>1, <1>2, <2>2, <2>6
  <2> HIDE DEF f, o, n
  <2>8. QED
    BY <1>1, <2>1, <2>2, <2>3, <2>4, <2>5, <2>7, FileStepKeeps, Zenon
<1>5. QED
  BY <1>3, <1>4 DEF RemoveLog

(* A row ingested into a file where a repair has run is not one of those a   *)
(* record speaks of, and before that nothing is recorded.                    *)
LEMMA IngestKeeps ==
  ASSUME OpeningInv, NEW p \in Processes, IngestRow(p)
  PROVE  OpeningInv'
<1> DEFINE n == opener[p].inode
<1>1. /\ OpeningTyped /\ SoundOpener(opener[p], inodes) /\ inodes \in Seq(File)
      /\ backups' \in SUBSET Snapshot /\ opener[p].at = "open"
      /\ UNCHANGED <<dbPath, opener>>
  BY DEF OpeningInv, OpeningTyped, IngestRow, At
<1>2. /\ n \in 1 .. Len(inodes) /\ inodes[n] \in File /\ SoundFile(inodes[n])
      /\ inodes[n].ran \in BOOLEAN /\ inodes[n].rows \in SUBSET Row
  <2>1. n \in 1 .. Len(inodes)
    BY <1>1 DEF SoundOpener
  <2>2. inodes[n] \in File /\ SoundFile(inodes[n])
    BY <1>1, <2>1, ElementOfSeq DEF OpeningInv
  <2>3. QED
    BY <2>1, <2>2 DEF File
<1>3. PICK c \in Incoming : AddRow(p, c) \/ MergeRow(p, c)
  BY DEF IngestRow
<1>4. PICK r \in Row, rows \in SUBSET inodes[n].rows :
        /\ r.late = inodes[n].ran
        /\ inodes' = [inodes EXCEPT ![n].rows = rows \cup {r}]
        /\ ids' \in SUBSET NewIds
  <2>1. CASE AddRow(p, c)
    <3>1. PICK id \in ids :
            /\ ids' = ids \ {id}
            /\ inodes' = [inodes EXCEPT ![n].rows = @ \cup
                 {[id |-> id, by |-> c.by, provider |-> c.provider, account |-> c.account,
                   instant |-> c.instant, late |-> inodes[n].ran]}]
      BY <2>1 DEF AddRow, Own
    <3> DEFINE r == [id |-> id, by |-> c.by, provider |-> c.provider, account |-> c.account,
                     instant |-> c.instant, late |-> inodes[n].ran]
    <3>2. r \in Row /\ r.late = inodes[n].ran
      BY <1>1, <1>2, OpeningAssumption DEF Row, OpeningTyped
    <3>3. ids' \in SUBSET NewIds /\ inodes[n].rows \in SUBSET inodes[n].rows
      BY <1>1, <3>1 DEF OpeningTyped
    <3>4. inodes' = [inodes EXCEPT ![n].rows = inodes[n].rows \cup {r}]
      BY <3>1
    <3> HIDE DEF r, n
    <3>5. QED
      BY <3>2, <3>3, <3>4
  <2>2. CASE MergeRow(p, c)
    <3>0. PICK q \in inodes[n].rows :
            \E provider \in {q.provider, c.provider}, account \in {q.account, c.account},
               instant \in {q.instant, q.instant /\ c.instant} :
              inodes' = [inodes EXCEPT ![n].rows = (@ \ {q}) \cup
                {[q EXCEPT !.provider = provider, !.account = account, !.instant = instant,
                           !.late = inodes[n].ran]}]
      BY <2>2 DEF MergeRow, Own
    <3>1. PICK provider \in {q.provider, c.provider}, account \in {q.account, c.account},
               instant \in {q.instant, q.instant /\ c.instant} :
            inodes' = [inodes EXCEPT ![n].rows = (@ \ {q}) \cup
              {[q EXCEPT !.provider = provider, !.account = account, !.instant = instant,
                         !.late = inodes[n].ran]}]
      BY <3>0
    <3> DEFINE s == [q EXCEPT !.provider = provider, !.account = account, !.instant = instant,
                              !.late = inodes[n].ran]
    <3>2. q \in Row
      BY <1>2
    <3>3. /\ provider \in {x.provider : x \in Legacy \cup Incoming} \cup {"codex", "cursor"}
          /\ account \in {x.account : x \in Legacy \cup Incoming} \cup {"codex-cli"}
          /\ instant \in BOOLEAN
      BY <3>2, OpeningAssumption DEF Row
    <3>4. s \in Row /\ s.late = inodes[n].ran
      BY <1>2, <3>2, <3>3 DEF Row
    <3>5. inodes' = [inodes EXCEPT ![n].rows = (inodes[n].rows \ {q}) \cup {s}]
      BY <3>1
    <3>6. ids' \in SUBSET NewIds /\ inodes[n].rows \ {q} \in SUBSET inodes[n].rows
      BY <1>1, <2>2 DEF MergeRow, OpeningTyped
    <3> HIDE DEF s, n
    <3>7. QED
      BY <3>4, <3>5, <3>6
  <2>3. QED
    BY <1>3, <2>1, <2>2
<1> DEFINE f == [inodes[n] EXCEPT !.rows = rows \cup {r}]
<1>5. /\ f \in File /\ f.done = inodes[n].done /\ f.rows = rows \cup {r}
      /\ f.damaged = inodes[n].damaged /\ f.lost = inodes[n].lost /\ f.ran = inodes[n].ran
  BY <1>2, <1>4 DEF File
<1>6. inodes[n].ran => Early(f) \subseteq Early(inodes[n])
  BY <1>4, <1>5 DEF Early
<1>7. SoundFile(f)
  BY <1>2, <1>5, <1>6 DEF SoundFile, RecordedBefore, Clean
<1>8. \A q \in Processes : opener[q].at = "record" /\ opener[q].inode = n
                             => Clean(Repairs[opener[q].repair], Early(f))
  BY <1>6 DEF OpeningInv, SoundOpener, Clean
<1>9. /\ inodes[n].done \subseteq f.done /\ (inodes[n].ran => f.ran)
      /\ (inodes[n].damaged => f.damaged) /\ (inodes[n].lost => f.lost)
      /\ inodes' = [inodes EXCEPT ![n] = f]
  BY <1>4, <1>5
<1> HIDE DEF f, n
<1>10. QED
  BY <1>1, <1>2, <1>4, <1>5, <1>7, <1>8, <1>9, FileStepKeeps, Zenon

LEMMA DamageKeeps ==
  ASSUME OpeningInv, Damage
  PROVE  OpeningInv'
<1> DEFINE n == dbPath
           f == [inodes[n] EXCEPT !.damaged = TRUE]
<1>1. /\ OpeningTyped /\ inodes \in Seq(File)
      /\ backups' \in SUBSET Snapshot /\ ids' \in SUBSET NewIds
      /\ UNCHANGED <<dbPath, opener>>
  BY DEF OpeningInv, OpeningTyped, Damage
<1>2. n \in 1 .. Len(inodes) /\ inodes[n] \in File /\ SoundFile(inodes[n])
  BY <1>1, ElementOfSeq DEF Damage, OpeningInv, OpeningTyped
<1>3. /\ f \in File /\ f.done = inodes[n].done /\ f.rows = inodes[n].rows
      /\ f.damaged /\ f.lost = inodes[n].lost /\ f.ran = inodes[n].ran
      /\ Early(f) = Early(inodes[n])
  BY <1>2 DEF File, Early
<1>4. SoundFile(f)
  BY <1>2, <1>3 DEF SoundFile, RecordedBefore
<1>5. \A q \in Processes : opener[q].at = "record" /\ opener[q].inode = n
                             => Clean(Repairs[opener[q].repair], Early(f))
  BY <1>3 DEF OpeningInv, SoundOpener
<1>6. /\ inodes[n].done \subseteq f.done /\ (inodes[n].ran => f.ran)
      /\ (inodes[n].damaged => f.damaged) /\ (inodes[n].lost => f.lost)
      /\ inodes' = [inodes EXCEPT ![n] = f]
  BY <1>3 DEF Damage
<1> HIDE DEF f, n
<1>7. QED
  BY <1>1, <1>2, <1>3, <1>4, <1>5, <1>6, FileStepKeeps, Zenon

-------------------------------------------------------------------------------
LEMMA OpeningStarts ==
  ASSUME OpeningInit
  PROVE  OpeningInv
<1> DEFINE f == FileOf(Legacy)
<1>1. f \in File /\ SoundFile(f)
  BY OpeningAssumption DEF FileOf, File, SoundFile
<1>2. inodes \in Seq(File) /\ Len(inodes) = 1 /\ inodes[1] = f
  BY <1>1 DEF OpeningInit
<1>3. \A p \in Processes : opener[p] = Off /\ Off \in Opener /\ SoundOpener(Off, inodes)
  BY OffIsSound DEF OpeningInit
<1>4. OpeningTyped
  BY <1>2, <1>3 DEF OpeningInit, OpeningTyped
<1>5. \A m \in 1 .. Len(inodes) : m = 1 /\ m = dbPath
  BY <1>2 DEF OpeningInit
<1> HIDE DEF f
<1>6. \A m \in 1 .. Len(inodes) : SoundFile(inodes[m])
  BY <1>1, <1>2, <1>5
<1>7. QED
  BY <1>3, <1>4, <1>5, <1>6 DEF OpeningInv, HealthyFilesStay

LEMMA OpeningSteps ==
  ASSUME OpeningInv, [OpeningNext]_openVars
  PROVE  OpeningInv'
<1>1. CASE UNCHANGED openVars
  BY <1>1 DEF openVars, OpeningInv, OpeningTyped, HealthyFilesStay
<1>2. ASSUME NEW p \in Processes,
             \/ Connect(p) \/ CheckFinds(p) \/ CheckPasses(p) \/ Rename(p) \/ RemoveLog(p) \/ Reopen(p)
             \/ ListBackups(p) \/ RemoveBackups(p)
             \/ CheckRepair(p) \/ RunRepair(p) \/ RecordRepair(p) \/ MigrationFails(p)
             \/ IngestRow(p) \/ Ends(p)
      PROVE  OpeningInv'
  BY <1>2, ConnectKeeps, LookingKeeps, RenameKeeps, RemoveLogKeeps, RunRepairKeeps,
     RepairingKeeps, IngestKeeps
<1>3. QED
  BY <1>1, <1>2, DamageKeeps DEF OpeningNext

(* A recorded repair has nothing left to do in the rows written before the   *)
(* first repair ran in the file, for any number of daemons and hook commands *)
(* that repair and ingest beside each other, any rows of earlier versions    *)
(* and anything that is ingested (store.go:340-412).                         *)
THEOREM RepairsStand == OpeningSpec => []RecordedMeansRepaired
<1>1. OpeningInit => OpeningInv
  BY OpeningStarts
<1>2. OpeningInv /\ [OpeningNext]_openVars => OpeningInv'
  BY OpeningSteps
<1>3. OpeningInv => RecordedMeansRepaired
  BY CleanIsRepaired DEF OpeningInv, RecordedMeansRepaired, SoundFile
<1>4. QED
  BY <1>1, <1>2, <1>3, PTL DEF OpeningSpec

(* No healthy file is rotated away but by an opening that had judged the     *)
(* file before it (store.go:101).                                            *)
THEOREM HealthyStay == OpeningSpec => []HealthyFilesStay
<1>1. OpeningInit => OpeningInv
  BY OpeningStarts
<1>2. OpeningInv /\ [OpeningNext]_openVars => OpeningInv'
  BY OpeningSteps
<1>3. OpeningInv => HealthyFilesStay
  BY DEF OpeningInv
<1>4. QED
  BY <1>1, <1>2, <1>3, PTL DEF OpeningSpec

===============================================================================
