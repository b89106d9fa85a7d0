-------------------------- MODULE SpoolPipelineProofs --------------------------
(***************************************************************************)
(* The spool loses no event while no flusher is killed, implements         *)
(* Delivery then, and otherwise loses at most one event for each flusher   *)
(* killed at work - for any number of flushers, files and events.          *)
(*                                                                         *)
(* The argument is one of accounts.  A file is hollow when it was          *)
(* truncated and nobody has it open any more; only a kill makes one, of a  *)
(* file that the killed flusher alone was about to write, and a flusher    *)
(* writes one file at a time.  Renaming moves a hollow file over a good    *)
(* one, but does not make a second one of it.                              *)
(***************************************************************************)
EXTENDS SpoolPipeline, FiniteSetTheorems, FunctionTheorems, WellFoundedInduction, TLAPS

(* Of some numbers one is the least, so the oldest event of a batch is one   *)
(* of the batch.                                                             *)
LEMMA LeastNumber ==
  ASSUME NEW S \in SUBSET Nat, S # {}
  PROVE  \E n \in S : \A m \in S : n <= m
<1>1. \E n \in S : \A m \in S : ~ (<<m, n>> \in OpToRel(<, Nat))
  BY NatLessThanWellFounded, WFMin
<1>2. \E n \in S : \A m \in S : ~ (m < n)
  BY <1>1 DEF OpToRel
<1>3. QED
  BY <1>2

LEMMA MinIsElement ==
  ASSUME NEW S, S \subseteq Nat, S # {}
  PROVE  Min(S) \in S
BY LeastNumber DEF Min

-------------------------------------------------------------------------------
(* The inductive invariant.                                                  *)
Flushes == [batch : SUBSET Nat, budget : Int, gain : BOOLEAN]

Dir(dir) == /\ DOMAIN dir \subseteq DOMAIN log
            /\ \A n \in DOMAIN dir : dir[n] \in Inode

Typed ==
  /\ log \in Seq(Events)
  /\ Dir(files) /\ Dir(tmps)
  /\ pc \in [Actors -> PCs]
  /\ flush \in [Actors -> Flushes]
  /\ \A a \in Actors : flush[a].batch \subseteq DOMAIN log
  /\ now \in Nat /\ crashes \in Nat

(* Who is about to acknowledge a file has put its event into the database.   *)
AckedAreStored ==
  \A a \in Actors : pc[a] = "ack" => /\ Current(a) \in DOMAIN log
                                     /\ log[Current(a)] \in stored

FilesAreKept == \A n \in DOMAIN log : log[n] \in stored \cup dropped \/ n \in DOMAIN files

(* A flusher has one file open at most, and only while it writes.            *)
Opens(dir, n, a) == n \in DOMAIN dir /\ a \in dir[n].writers

OneFileOpen ==
  \A a \in Actors :
    /\ \A n : Opens(files, n, a) \/ Opens(tmps, n, a) => pc[a] = "write"
    /\ \A n, m : Opens(files, n, a) /\ Opens(files, m, a) => n = m
    /\ \A n, m : Opens(tmps, n, a) /\ Opens(tmps, m, a) => n = m
    /\ \A n, m : ~ (Opens(files, n, a) /\ Opens(tmps, m, a))

Hollow(dir) == {n \in DOMAIN dir : dir[n].blank /\ dir[n].writers = {}}

HollowPaidFor == Cardinality(Hollow(files)) + Cardinality(Hollow(tmps)) <= crashes

Inv == Typed /\ AckedAreStored /\ FilesAreKept /\ OneFileOpen /\ HollowPaidFor

LEMMA LostAreHollow ==
  ASSUME Inv PROVE Lost \subseteq Hollow(files)
  BY DEF Inv, FilesAreKept, Lost, Recoverable, Hollow

LEMMA DirIsFinite ==
  ASSUME log \in Seq(Events), NEW S, S \subseteq DOMAIN log
  PROVE  IsFiniteSet(S) /\ Cardinality(S) \in Nat
<1>1. DOMAIN log = 1 .. Len(log) /\ Len(log) \in Nat
  OBVIOUS
<1>2. IsFiniteSet(DOMAIN log)
  BY <1>1, FS_Interval
<1>3. IsFiniteSet(S)
  BY <1>2, FS_Subset
<1> QED
  BY <1>3, FS_CardinalityType

LEMMA ActorsAreFinite == IsFiniteSet(Actors)
<1>1. IsFiniteSet({"collect", "maint"})
  <2>1. IsFiniteSet({"collect"}) /\ IsFiniteSet({"maint"})
    BY FS_Singleton
  <2>2. {"collect", "maint"} = {"collect"} \cup {"maint"}
    OBVIOUS
  <2> QED
    BY <2>1, <2>2, FS_Union
<1>2. IsFiniteSet(Daemon)
  BY <1>1, FS_Subset, SpoolAssumption
<1> QED
  BY <1>2, FS_Union, SpoolAssumption DEF Actors

(* The directory operations.                                                 *)
LEMMA PutDir ==
  ASSUME NEW dir, NEW n, NEW inode
  PROVE  /\ DOMAIN Put(dir, n, inode) = DOMAIN dir \cup {n}
         /\ Put(dir, n, inode)[n] = inode
         /\ \A m \in DOMAIN dir \ {n} : Put(dir, n, inode)[m] = dir[m]
  BY DEF Put

LEMMA DelDir ==
  ASSUME NEW dir, NEW S
  PROVE  /\ DOMAIN Del(dir, S) = DOMAIN dir \ S
         /\ \A m \in DOMAIN dir \ S : Del(dir, S)[m] = dir[m]
  BY DEF Del, Restrict

LEMMA WrittenDir ==
  ASSUME now \in Nat, NEW a, NEW dir, \A n \in DOMAIN dir : dir[n] \in Inode
  PROVE  /\ DOMAIN Written(a, dir) = DOMAIN dir
         /\ \A n \in DOMAIN dir :
              /\ Written(a, dir)[n] \in Inode
              /\ Written(a, dir)[n].writers = dir[n].writers \ {a}
              /\ Written(a, dir)[n].blank /\ Written(a, dir)[n].writers = {} =>
                   dir[n].blank /\ dir[n].writers = {}
<1>1. DOMAIN Written(a, dir) = DOMAIN dir
  BY DEF Written
<1>2. ASSUME NEW n \in DOMAIN dir
      PROVE  /\ Written(a, dir)[n] \in Inode
             /\ Written(a, dir)[n].writers = dir[n].writers \ {a}
             /\ Written(a, dir)[n].blank /\ Written(a, dir)[n].writers = {} =>
                  dir[n].blank /\ dir[n].writers = {}
  <2>1. CASE a \in dir[n].writers
    <3>1. Written(a, dir)[n] = [mtime |-> now, blank |-> FALSE, writers |-> dir[n].writers \ {a}]
      BY <2>1 DEF Written
    <3> QED
      BY <3>1 DEF Inode
  <2>2. CASE a \notin dir[n].writers
    <3>1. Written(a, dir)[n] = dir[n]
      BY <2>2 DEF Written
    <3> QED
      BY <2>2, <3>1
  <2> QED
    BY <2>1, <2>2
<1> QED
  BY <1>1, <1>2

LEMMA CloseDir ==
  ASSUME NEW A, NEW dir, \A n \in DOMAIN dir : dir[n] \in Inode
  PROVE  /\ DOMAIN Close(dir, A) = DOMAIN dir
         /\ \A n \in DOMAIN dir :
              /\ Close(dir, A)[n] \in Inode
              /\ Close(dir, A)[n].writers = dir[n].writers \ A
              /\ Close(dir, A)[n].blank = dir[n].blank
  BY DEF Close, Inode

-------------------------------------------------------------------------------
(* The log only grows.                                                       *)
LogGrows == /\ log' \in Seq(Events)
            /\ DOMAIN log \subseteq DOMAIN log'
            /\ \A n \in DOMAIN log : log'[n] = log[n]

LEMMA AppendGrows ==
  ASSUME log \in Seq(Events), NEW a, NEW e \in Events, Append_(a, e)
  PROVE  /\ LogGrows /\ DOMAIN log' = DOMAIN log \cup {Len(log) + 1}
         /\ log'[Len(log) + 1] = e
  BY DEF Append_, LogGrows

LEMMA StepGrows ==
  ASSUME Typed, [SpoolNext]_spoolVars
  PROVE  LogGrows
<1>1. ASSUME log' = log PROVE LogGrows
  BY <1>1 DEF Typed, LogGrows
<1>2. ASSUME NEW a \in Actors, FlushStep(a) PROVE LogGrows
  <2>1. CASE \E e \in Events : Append_(a, e)
    BY <2>1, AppendGrows DEF Typed
  <2>2. CASE \E e \in Events : IngestOK(a, e)
    BY <1>1, <2>2 DEF IngestOK
  <2> QED
    BY <1>1, <1>2, <2>1, <2>2 DEF FlushStep, AppendFails, ReadOldest, BatchDone, FlushDone, IngestFails,
         Ack, MarkFailedUnreadable, OpenTmp, WriteTmp, RenameTmp, RemoveTmp
<1> QED
  BY <1>1, <1>2 DEF SpoolNext, FlushBacklog, IngestHookLocally, FlushSpoolBacklog, Start, Cleanup, ClockTicks,
                    Kill, spoolVars

(* Types of the flushers.                                                    *)
FlushTyped == /\ pc \in [Actors -> PCs]
              /\ flush \in [Actors -> Flushes]
              /\ \A a \in Actors : flush[a].batch \subseteq DOMAIN log

LEMMA NoFlushTyped == NoFlush \in Flushes /\ NoFlush.batch = {}
  BY DEF NoFlush, Flushes

LEMMA BatchStays ==
  ASSUME Typed, LogGrows, UNCHANGED flush, pc' \in [Actors -> PCs]
  PROVE  FlushTyped'
  BY DEF Typed, LogGrows, FlushTyped

LEMMA BatchOfOne ==
  ASSUME Typed, LogGrows, NEW a \in Actors, NEW new \in Flushes, new.batch \subseteq DOMAIN log',
         flush' = [flush EXCEPT ![a] = new], pc' \in [Actors -> PCs]
  PROVE  FlushTyped'
  BY DEF Typed, LogGrows, FlushTyped

LEMMA StartTyped ==
  ASSUME Typed, LogGrows, NEW a, NEW requests, NEW budget \in Int, Start(a, requests, budget)
  PROVE  FlushTyped'
<1>1. a \in Actors /\ pc' = [pc EXCEPT ![a] = "flush"]
  BY DEF Start, Goto
<1>2. flush' = [flush EXCEPT ![a] = [flush[a] EXCEPT !.budget = budget]]
  BY DEF Start
<1>3. [flush[a] EXCEPT !.budget = budget] \in Flushes /\ [flush[a] EXCEPT !.budget = budget].batch = flush[a].batch
  BY <1>1 DEF Typed, Flushes
<1>4. pc' \in [Actors -> PCs]
  BY <1>1 DEF Typed, PCs
<1>5. flush[a].batch \subseteq DOMAIN log'
  BY <1>1 DEF Typed, LogGrows
<1> QED
  BY <1>1, <1>2, <1>3, <1>4, <1>5, BatchOfOne

LEMMA NextItemTyped ==
  ASSUME Typed, LogGrows, NEW a \in Actors, NextItem(a)
  PROVE  FlushTyped'
<1> DEFINE new == [flush[a] EXCEPT !.batch = @ \ {Current(a)}]
<1>1. flush' = [flush EXCEPT ![a] = new] /\ pc' = [pc EXCEPT ![a] = "item"]
  BY DEF NextItem, Goto
<1>2. flush[a] \in Flushes /\ flush[a].batch \subseteq DOMAIN log'
  BY DEF Typed, LogGrows
<1>3. new \in Flushes /\ new.batch \subseteq DOMAIN log'
  BY <1>2 DEF Flushes
<1>4. pc' \in [Actors -> PCs]
  BY <1>1 DEF Typed, PCs
<1> HIDE DEF new
<1> QED
  BY <1>1, <1>3, <1>4, BatchOfOne

LEMMA ReadOldestTyped ==
  ASSUME Typed, LogGrows, NEW a \in Actors, ReadOldest(a)
  PROVE  FlushTyped'
<1> DEFINE batch == NextBatch(a)
           new == [batch |-> batch, budget |-> flush[a].budget - Cardinality(batch), gain |-> FALSE]
<1>1. flush' = [flush EXCEPT ![a] = new] /\ pc' = [pc EXCEPT ![a] = "item"]
  BY DEF ReadOldest, Goto
<1>2. batch \subseteq DOMAIN files
  BY DEF NextBatch, Oldest
<1>3. batch \subseteq DOMAIN log /\ batch \subseteq DOMAIN log'
  BY <1>2 DEF Typed, Dir, LogGrows
<1>4. DOMAIN log \subseteq Nat
  BY DEF Typed
<1>5. Cardinality(batch) \in Nat
  BY <1>3, DirIsFinite DEF Typed
<1>6. flush[a].budget \in Int
  BY DEF Typed, Flushes
<1> HIDE DEF batch
<1>7. new \in Flushes /\ new.batch = batch
  BY <1>3, <1>4, <1>5, <1>6 DEF Flushes
<1>8. pc' \in [Actors -> PCs]
  BY <1>1 DEF Typed, PCs
<1> QED
  BY <1>1, <1>3, <1>7, <1>8, BatchOfOne

LEMMA FlushStepTyped ==
  ASSUME Typed, LogGrows, NEW a \in Actors, FlushStep(a)
  PROVE  FlushTyped'
<1>1. ASSUME NEW label \in PCs, Goto(a, label)
      PROVE  pc' \in [Actors -> PCs]
  BY <1>1 DEF Typed, Goto
<1>2. {"idle", "flush", "item", "ack", "mark", "write", "rename", "remove"} \subseteq PCs
  BY DEF PCs
<1>3. CASE \E e \in Events : Append_(a, e)
  BY <1>3, BatchStays DEF Append_, Typed
<1>4. CASE \E e \in Events : IngestOK(a, e)
  <2> DEFINE new == [flush[a] EXCEPT !.gain = TRUE]
  <2>1. flush' = [flush EXCEPT ![a] = new] /\ Goto(a, "ack")
    BY <1>4 DEF IngestOK
  <2>2. flush[a] \in Flushes /\ flush[a].batch \subseteq DOMAIN log'
    BY DEF Typed, LogGrows
  <2>3. new \in Flushes /\ new.batch \subseteq DOMAIN log'
    BY <2>2 DEF Flushes
  <2> HIDE DEF new
  <2> QED
    BY <1>1, <1>2, <2>1, <2>3, BatchOfOne
<1>5. CASE AppendFails(a)
  <2>1. CASE a \in Hooks
    <3>1. flush' = [flush EXCEPT ![a] = NoFlush] /\ Goto(a, "idle")
      BY <1>5, <2>1 DEF AppendFails
    <3> QED
      BY <1>1, <1>2, <3>1, NoFlushTyped, BatchOfOne
  <2>2. CASE a \notin Hooks
    BY <1>5, <2>2, BatchStays DEF AppendFails, Typed
  <2> QED
    BY <2>1, <2>2
<1>6. CASE ReadOldest(a)
  BY <1>6, ReadOldestTyped
<1>7. CASE BatchDone(a) \/ IngestFails(a) \/ OpenTmp(a) \/ WriteTmp(a) \/ RenameTmp(a)
  <2>1. UNCHANGED flush /\ \E label \in PCs : Goto(a, label)
    BY <1>2, <1>7 DEF BatchDone, IngestFails, OpenTmp, WriteTmp, RenameTmp
  <2> QED
    BY <1>1, <2>1, BatchStays
<1>8. CASE FlushDone(a)
  <2>1. flush' = [flush EXCEPT ![a] = NoFlush] /\ Goto(a, "idle")
    BY <1>8 DEF FlushDone
  <2> QED
    BY <1>1, <1>2, <2>1, NoFlushTyped, BatchOfOne
<1>9. CASE Ack(a) \/ MarkFailedUnreadable(a) \/ RemoveTmp(a)
  BY <1>9, NextItemTyped DEF Ack, MarkFailedUnreadable, RemoveTmp
<1> QED
  BY <1>3, <1>4, <1>5, <1>6, <1>7, <1>8, <1>9 DEF FlushStep

(* Types of the directory.                                                   *)
DirOf(dir, names) == DOMAIN dir \subseteq names /\ \A n \in DOMAIN dir : dir[n] \in Inode

LEMMA PutTyped ==
  ASSUME NEW dir, NEW names, DirOf(dir, names), NEW n \in names, NEW inode \in Inode
  PROVE  DirOf(Put(dir, n, inode), names)
<1> DEFINE new == Put(dir, n, inode)
<1>1. /\ DOMAIN new = DOMAIN dir \cup {n} /\ new[n] = inode
      /\ \A m \in DOMAIN dir \ {n} : new[m] = dir[m]
  BY DEF Put
<1> HIDE DEF new
<1>2. DirOf(new, names)
  BY <1>1 DEF DirOf
<1> QED
  BY <1>2 DEF new

LEMMA DelTyped ==
  ASSUME NEW dir, NEW names, DirOf(dir, names), NEW S
  PROVE  DirOf(Del(dir, S), names)
<1> DEFINE new == Del(dir, S)
<1>1. DOMAIN new = DOMAIN dir \ S /\ \A m \in DOMAIN dir \ S : new[m] = dir[m]
  BY DelDir
<1> HIDE DEF new
<1>2. DirOf(new, names)
  BY <1>1 DEF DirOf
<1> QED
  BY <1>2 DEF new

LEMMA WrittenTyped ==
  ASSUME now \in Nat, NEW dir, NEW names, DirOf(dir, names), NEW a
  PROVE  DirOf(Written(a, dir), names)
<1> DEFINE new == Written(a, dir)
<1>1. DOMAIN new = DOMAIN dir /\ \A m \in DOMAIN dir : new[m] \in Inode
  BY WrittenDir DEF DirOf
<1> HIDE DEF new
<1>2. DirOf(new, names)
  BY <1>1 DEF DirOf
<1> QED
  BY <1>2 DEF new

LEMMA CloseTyped ==
  ASSUME NEW dir, NEW names, DirOf(dir, names), NEW A
  PROVE  DirOf(Close(dir, A), names)
<1> DEFINE new == Close(dir, A)
<1>1. DOMAIN new = DOMAIN dir /\ \A m \in DOMAIN dir : new[m] \in Inode
  BY CloseDir DEF DirOf
<1> HIDE DEF new
<1>2. DirOf(new, names)
  BY <1>1 DEF DirOf
<1> QED
  BY <1>2 DEF new

DirsTyped == DirOf(files, DOMAIN log) /\ DirOf(tmps, DOMAIN log)

(* The inode that opening the temporary file leaves.                         *)
Truncated(a, n) == [mtime |-> now, blank |-> TRUE,
                    writers |-> (IF n \in DOMAIN tmps THEN tmps[n].writers ELSE {}) \cup {a}]

LEMMA OpenTmpIs ==
  ASSUME NEW a, OpenTmp(a)
  PROVE  /\ tmps' = Put(tmps, Current(a), Truncated(a, Current(a)))
         /\ files' = files /\ log' = log /\ Current(a) \in DOMAIN files
         /\ pc[a] = "mark" /\ pc' = [pc EXCEPT ![a] = "write"]
  BY DEF OpenTmp, Truncated, Readable, Goto

LEMMA TruncatedTyped ==
  ASSUME DirsTyped, now \in Nat, NEW a \in Actors, NEW n
  PROVE  Truncated(a, n) \in Inode
<1>1. n \in DOMAIN tmps => tmps[n].writers \subseteq Actors
  BY DEF DirsTyped, DirOf, Inode
<1> QED
  BY <1>1 DEF Truncated, Inode

LEMMA FlushStepDirs ==
  ASSUME DirsTyped, log \in Seq(Events), now \in Nat, NEW a \in Actors, FlushStep(a)
  PROVE  DirsTyped'
<1>1. ASSUME UNCHANGED <<log, disk>> PROVE DirsTyped'
  BY <1>1 DEF DirsTyped, disk
<1>2. CASE \E e \in Events : Append_(a, e)
  <2>1. PICK e \in Events : Append_(a, e)
    BY <1>2
  <2> DEFINE inode == [mtime |-> now, blank |-> FALSE, writers |-> {}]
  <2>2. files' = Put(files, Len(log) + 1, inode) /\ tmps' = tmps
    BY <2>1 DEF Append_
  <2>3. DOMAIN log' = DOMAIN log \cup {Len(log) + 1}
    BY <2>1, AppendGrows
  <2>4. inode \in Inode
    BY DEF Inode
  <2> HIDE DEF inode
  <2>5. DirOf(files, DOMAIN log') /\ DirOf(tmps, DOMAIN log')
    BY <2>3 DEF DirsTyped, DirOf
  <2>6. DirOf(Put(files, Len(log) + 1, inode), DOMAIN log')
    BY <2>3, <2>4, <2>5, PutTyped
  <2> QED
    BY <2>2, <2>5, <2>6 DEF DirsTyped
<1>3. CASE \E e \in Events : IngestOK(a, e)
  BY <1>1, <1>3 DEF IngestOK
<1>4. CASE AppendFails(a) \/ ReadOldest(a) \/ BatchDone(a) \/ FlushDone(a) \/ IngestFails(a)
           \/ MarkFailedUnreadable(a)
  BY <1>1, <1>4 DEF AppendFails, ReadOldest, BatchDone, FlushDone, IngestFails, MarkFailedUnreadable
<1>5. CASE Ack(a) \/ RemoveTmp(a)
  <2>1. \/ files' = Del(files, {Current(a)}) /\ UNCHANGED <<log, tmps>>
        \/ tmps' = Del(tmps, {Current(a)}) /\ UNCHANGED <<log, files>>
    BY <1>5 DEF Ack, RemoveTmp
  <2> QED
    BY <2>1, DelTyped DEF DirsTyped
<1>6. CASE OpenTmp(a)
  <2>1. Current(a) \in DOMAIN log
    BY <1>6, OpenTmpIs DEF DirsTyped, DirOf
  <2>2. DirOf(Put(tmps, Current(a), Truncated(a, Current(a))), DOMAIN log)
    BY <2>1, PutTyped, TruncatedTyped DEF DirsTyped
  <2> QED
    BY <1>6, <2>2, OpenTmpIs DEF DirsTyped
<1>7. CASE WriteTmp(a)
  <2>1. files' = Written(a, files) /\ tmps' = Written(a, tmps) /\ log' = log
    BY <1>7 DEF WriteTmp
  <2> QED
    BY <2>1, WrittenTyped DEF DirsTyped
<1>8. CASE RenameTmp(a)
  <2> DEFINE n == Current(a)
  <2>1. CASE n \in DOMAIN tmps
    <3>1. files' = Put(files, n, tmps[n]) /\ tmps' = Del(tmps, {n}) /\ log' = log
      BY <1>8, <2>1 DEF RenameTmp
    <3>2. tmps[n] \in Inode /\ n \in DOMAIN log
      BY <2>1 DEF DirsTyped, DirOf
    <3> HIDE DEF n
    <3>3. DirOf(Put(files, n, tmps[n]), DOMAIN log) /\ DirOf(Del(tmps, {n}), DOMAIN log)
      BY <3>2, PutTyped, DelTyped DEF DirsTyped
    <3> QED
      BY <3>1, <3>3 DEF DirsTyped
  <2>2. CASE n \notin DOMAIN tmps
    BY <1>1, <1>8, <2>2 DEF RenameTmp
  <2> QED
    BY <2>1, <2>2
<1> QED
  BY <1>2, <1>3, <1>4, <1>5, <1>6, <1>7, <1>8 DEF FlushStep

LEMMA KillTyped ==
  ASSUME Typed, NEW A, Kill(A), A \in {Daemon} \cup {{h} : h \in Hooks}
  PROVE  /\ FlushTyped'
         /\ crashes' \in Nat
         /\ crashes' = crashes + Cardinality({a \in A : pc[a] # "idle"})
         /\ IsFiniteSet({a \in A : pc[a] # "idle"})
<1>1. {a \in A : pc[a] # "idle"} \subseteq Actors
  BY DEF Actors
<1>2. /\ IsFiniteSet({a \in A : pc[a] # "idle"})
      /\ Cardinality({a \in A : pc[a] # "idle"}) \in Nat
  BY <1>1, ActorsAreFinite, FS_Subset, FS_CardinalityType
<1>3. crashes' = crashes + Cardinality({a \in A : pc[a] # "idle"})
  BY DEF Kill
<1>4. pc' = [a \in Actors |-> IF a \in A THEN "idle" ELSE pc[a]]
  BY DEF Kill
<1>5. flush' = [a \in Actors |-> IF a \in A THEN NoFlush ELSE flush[a]] /\ log' = log
  BY DEF Kill
<1>6. pc' \in [Actors -> PCs]
  BY <1>4 DEF Typed, PCs
<1>7. flush' \in [Actors -> Flushes] /\ \A a \in Actors : flush'[a].batch \subseteq DOMAIN log'
  BY <1>5, NoFlushTyped DEF Typed
<1> QED
  BY <1>2, <1>3, <1>6, <1>7 DEF Typed, FlushTyped

LEMMA StepTyped ==
  ASSUME Typed, [SpoolNext]_spoolVars
  PROVE  Typed'
<1>1. LogGrows
  BY StepGrows
<1>2. DirsTyped
  BY DEF Typed, Dir, DirsTyped, DirOf
<1>3. ASSUME FlushTyped', DirsTyped', now' \in Nat, crashes' \in Nat PROVE Typed'
  BY <1>1, <1>3 DEF Typed, FlushTyped, DirsTyped, DirOf, Dir, LogGrows
<1>4. ASSUME UNCHANGED <<log, disk>> PROVE DirsTyped'
  BY <1>2, <1>4 DEF DirsTyped, disk
<1>5. FlushTyped
  BY DEF Typed, FlushTyped
<1>6. CASE UNCHANGED spoolVars
  BY <1>3, <1>4, <1>5, <1>6 DEF FlushTyped, Typed, spoolVars, disk
<1>7. ASSUME NEW a, NEW requests, NEW budget \in Int, Start(a, requests, budget)
      PROVE  Typed'
  <2>1. UNCHANGED <<log, disk, now, crashes>>
    BY <1>7 DEF Start
  <2> QED
    BY <1>1, <1>3, <1>4, <1>7, <2>1, StartTyped DEF Typed
<1>8. ASSUME NEW requests, FlushBacklog(requests) PROVE Typed'
  BY <1>7, <1>8, SpoolAssumption DEF FlushBacklog
<1>9. CASE FlushSpoolBacklog
  BY <1>7, <1>9, SpoolAssumption DEF FlushSpoolBacklog
<1>10. ASSUME NEW requests \in SUBSET Events, NEW h \in Hooks, NEW spoolOnly \in BOOLEAN,
              IngestHookLocally(h, requests, spoolOnly)
       PROVE  Typed'
  <2>1. Start(h, requests, IF spoolOnly THEN 0 ELSE Cardinality(requests))
    BY <1>10 DEF IngestHookLocally
  <2>2. Cardinality(requests) \in Int
    BY <1>10, FS_Subset, FS_CardinalityType, SpoolAssumption
  <2> QED
    BY <1>7, <2>1, <2>2
<1>11. ASSUME NEW a \in Actors, FlushStep(a) PROVE Typed'
  <2>1. UNCHANGED <<now, crashes>>
    BY <1>11 DEF FlushStep, Append_, IngestOK, AppendFails, ReadOldest, BatchDone, FlushDone, IngestFails,
         Ack, MarkFailedUnreadable, OpenTmp, WriteTmp, RenameTmp, RemoveTmp
  <2>2. DirsTyped'
    BY <1>2, <1>11, FlushStepDirs DEF Typed
  <2> QED
    BY <1>1, <1>3, <1>11, <2>1, <2>2, FlushStepTyped DEF Typed
<1>12. CASE Cleanup
  <2>1. files' = Del(files, Expired \cup Excess) /\ UNCHANGED <<log, tmps, pc, flush, now, crashes>>
    BY <1>12 DEF Cleanup
  <2>2. DirsTyped'
    BY <1>2, <2>1, DelTyped DEF DirsTyped
  <2> QED
    BY <1>3, <1>5, <2>1, <2>2 DEF FlushTyped, Typed
<1>13. CASE ClockTicks
  BY <1>3, <1>4, <1>5, <1>13 DEF ClockTicks, FlushTyped, Typed
<1>14. ASSUME NEW A \in {Daemon} \cup {{h} : h \in Hooks}, Kill(A) PROVE Typed'
  <2>1. files' = Close(files, A) /\ tmps' = Close(tmps, A) /\ UNCHANGED <<log, now>>
    BY <1>14 DEF Kill
  <2>2. DirsTyped'
    BY <1>2, <2>1, CloseTyped DEF DirsTyped
  <2> QED
    BY <1>3, <1>14, <2>1, <2>2, KillTyped DEF Typed
<1> QED
  BY <1>6, <1>8, <1>9, <1>10, <1>11, <1>12, <1>13, <1>14 DEF SpoolNext

-------------------------------------------------------------------------------
(* Acknowledgements: a flusher gets there by an ingest only, and the batch   *)
(* it works on is its own.                                                   *)
LEMMA GotoProperties ==
  ASSUME Typed, NEW a \in Actors, NEW label, Goto(a, label)
  PROVE  pc'[a] = label /\ \A b \in Actors \ {a} : pc'[b] = pc[b]
  BY DEF Typed, Goto

LEMMA FlushOfOne ==
  ASSUME Typed, NEW a \in Actors, FlushStep(a)
  PROVE  \A b \in Actors \ {a} : pc'[b] = pc[b] /\ flush'[b] = flush[b]
<1>1. \A b \in Actors \ {a} : flush'[b] = flush[b]
  BY DEF Typed, FlushStep, Append_, IngestOK, AppendFails, ReadOldest, BatchDone, FlushDone, IngestFails,
         Ack, MarkFailedUnreadable, OpenTmp, WriteTmp, RenameTmp, RemoveTmp, NextItem
<1>2. pc' = pc \/ \E label : Goto(a, label)
  BY DEF FlushStep, Append_, IngestOK, AppendFails, ReadOldest, BatchDone, FlushDone, IngestFails,
         Ack, MarkFailedUnreadable, OpenTmp, WriteTmp, RenameTmp, RemoveTmp, NextItem
<1> QED
  BY <1>1, <1>2, GotoProperties

LEMMA StartOfOne ==
  ASSUME Typed, NEW a, NEW requests, NEW budget, Start(a, requests, budget)
  PROVE  /\ a \in Actors /\ pc[a] = "idle" /\ pc'[a] = "flush"
         /\ \A b \in Actors \ {a} : pc'[b] = pc[b] /\ flush'[b] = flush[b]
         /\ UNCHANGED <<log, files, tmps, stored, dropped, crashes>>
  BY DEF Start, Goto, Typed, disk

LEMMA ReachesAck ==
  ASSUME Typed, NEW a \in Actors, FlushStep(a), pc'[a] = "ack"
  PROVE  \/ pc[a] = "ack" /\ flush'[a] = flush[a]
         \/ \E e \in Events : IngestOK(a, e)
<1>1. CASE \E e \in Events : Append_(a, e)
  BY <1>1 DEF Append_
<1>2. CASE AppendFails(a)
  BY <1>2 DEF AppendFails, Goto, Typed
<1>3. CASE ReadOldest(a) \/ BatchDone(a) \/ FlushDone(a) \/ IngestFails(a)
           \/ OpenTmp(a) \/ WriteTmp(a) \/ RenameTmp(a)
  <2>1. \E label \in {"item", "flush", "idle", "mark", "write", "rename", "remove"} : Goto(a, label)
    BY <1>3 DEF ReadOldest, BatchDone, FlushDone, IngestFails, OpenTmp, WriteTmp, RenameTmp
  <2> QED
    BY <2>1, GotoProperties
<1>4. CASE Ack(a) \/ MarkFailedUnreadable(a) \/ RemoveTmp(a)
  <2>1. Goto(a, "item")
    BY <1>4 DEF Ack, MarkFailedUnreadable, RemoveTmp, NextItem
  <2> QED
    BY <2>1, GotoProperties
<1> QED
  BY <1>1, <1>2, <1>3, <1>4 DEF FlushStep

LEMMA IngestStores ==
  ASSUME Typed, LogGrows, NEW a \in Actors, NEW e, IngestOK(a, e)
  PROVE  Current(a)' \in DOMAIN log' /\ log'[Current(a)'] \in stored'
<1>1. flush[a].batch # {} /\ e = log[Current(a)] /\ stored' = stored \cup {e} /\ log' = log
  BY DEF IngestOK
<1>2. flush'[a].batch = flush[a].batch
  BY DEF IngestOK, Typed, Flushes
<1>3. flush[a].batch \subseteq DOMAIN log /\ flush[a].batch \subseteq Nat
  BY DEF Typed, Flushes
<1>4. Current(a) \in DOMAIN log
  BY <1>1, <1>3, MinIsElement DEF Current
<1> QED
  BY <1>1, <1>2, <1>4 DEF Current

LEMMA StoredGrows ==
  ASSUME [SpoolNext]_spoolVars PROVE stored \subseteq stored'
<1>1. ASSUME NEW a \in Actors, FlushStep(a) PROVE stored \subseteq stored'
  BY <1>1 DEF FlushStep, Append_, IngestOK, AppendFails, ReadOldest, BatchDone, FlushDone, IngestFails,
         Ack, MarkFailedUnreadable, OpenTmp, WriteTmp, RenameTmp, RemoveTmp
<1> QED
  BY <1>1 DEF SpoolNext, FlushBacklog, IngestHookLocally, FlushSpoolBacklog, Start, Cleanup, ClockTicks, Kill, spoolVars

LEMMA StepAcked ==
  ASSUME Typed, AckedAreStored, [SpoolNext]_spoolVars
  PROVE  AckedAreStored'
<1> SUFFICES ASSUME NEW b \in Actors, pc'[b] = "ack"
             PROVE  Current(b)' \in DOMAIN log' /\ log'[Current(b)'] \in stored'
  BY DEF AckedAreStored
<1>1. LogGrows /\ stored \subseteq stored'
  BY StepGrows, StoredGrows
<1>2. ASSUME pc[b] = "ack", flush'[b] = flush[b]
      PROVE  Current(b)' \in DOMAIN log' /\ log'[Current(b)'] \in stored'
  BY <1>1, <1>2 DEF AckedAreStored, Current, LogGrows
<1>3. ASSUME NEW a, NEW requests, NEW budget, Start(a, requests, budget)
      PROVE  pc[b] = "ack" /\ flush'[b] = flush[b]
  BY <1>3, StartOfOne
<1>4. CASE \E requests \in SUBSET Events : FlushBacklog(requests)
  BY <1>2, <1>3, <1>4 DEF FlushBacklog
<1>5. CASE \E requests \in SUBSET Events, h \in Hooks, spoolOnly \in BOOLEAN :
             IngestHookLocally(h, requests, spoolOnly)
  BY <1>2, <1>3, <1>5 DEF IngestHookLocally
<1>6. CASE FlushSpoolBacklog
  BY <1>2, <1>3, <1>6 DEF FlushSpoolBacklog
<1>7. ASSUME NEW a \in Actors, FlushStep(a)
      PROVE  Current(b)' \in DOMAIN log' /\ log'[Current(b)'] \in stored'
  <2>1. CASE a # b
    BY <1>2, <1>7, <2>1, FlushOfOne
  <2>2. CASE a = b
    BY <1>1, <1>2, <1>7, <2>2, ReachesAck, IngestStores
  <2> QED
    BY <2>1, <2>2
<1>8. CASE Cleanup \/ ClockTicks \/ UNCHANGED spoolVars
  BY <1>2, <1>8 DEF Cleanup, ClockTicks, spoolVars
<1>9. ASSUME NEW A, Kill(A) PROVE pc[b] = "ack" /\ flush'[b] = flush[b]
  BY <1>9 DEF Kill
<1> QED
  BY <1>2, <1>4, <1>5, <1>6, <1>7, <1>8, <1>9 DEF SpoolNext

(* Files go with an acknowledgement or a cleanup only.                       *)
LEMMA StepKept ==
  ASSUME Typed, AckedAreStored, FilesAreKept, [SpoolNext]_spoolVars
  PROVE  FilesAreKept'
<1>1. LogGrows /\ stored \subseteq stored'
  BY StepGrows, StoredGrows
<1>2. ASSUME log' = log, dropped \subseteq dropped',
             \A n \in DOMAIN files \ DOMAIN files' : log[n] \in stored \cup dropped'
      PROVE  FilesAreKept'
  BY <1>1, <1>2 DEF FilesAreKept
<1>3. ASSUME UNCHANGED <<log, files, dropped>> PROVE FilesAreKept'
  BY <1>2, <1>3
<1>4. ASSUME NEW a, NEW requests, NEW budget, Start(a, requests, budget) PROVE FilesAreKept'
  BY <1>3, <1>4, StartOfOne
<1>5. ASSUME NEW a \in Actors, FlushStep(a) PROVE FilesAreKept'
  <2>1. CASE \E e \in Events : Append_(a, e)
    <3>1. PICK e \in Events : Append_(a, e)
      BY <2>1
    <3>2. DOMAIN files' = DOMAIN files \cup {Len(log) + 1}
      BY <3>1, PutDir DEF Append_
    <3>3. DOMAIN log' = DOMAIN log \cup {Len(log) + 1}
      BY <3>1, AppendGrows DEF Typed
    <3>4. UNCHANGED <<stored, dropped>>
      BY <3>1 DEF Append_
    <3>5. ASSUME NEW n \in DOMAIN log' PROVE log'[n] \in stored' \cup dropped' \/ n \in DOMAIN files'
      <4>1. CASE n \in DOMAIN log
        BY <1>1, <3>2, <3>4, <4>1 DEF FilesAreKept, LogGrows
      <4>2. CASE n = Len(log) + 1
        BY <3>2, <4>2
      <4> QED
        BY <3>3, <4>1, <4>2
    <3> QED
      BY <3>5 DEF FilesAreKept
  <2>2. CASE \E e \in Events : IngestOK(a, e)
    BY <1>3, <2>2 DEF IngestOK, disk
  <2>3. CASE AppendFails(a) \/ ReadOldest(a) \/ BatchDone(a) \/ FlushDone(a) \/ IngestFails(a)
             \/ MarkFailedUnreadable(a) \/ OpenTmp(a) \/ RemoveTmp(a)
    BY <1>3, <2>3 DEF AppendFails, ReadOldest, BatchDone, FlushDone, IngestFails, MarkFailedUnreadable,
                      OpenTmp, RemoveTmp, disk
  <2>4. CASE Ack(a)
    <3>1. files' = Del(files, {Current(a)}) /\ UNCHANGED <<log, dropped>> /\ pc[a] = "ack"
      BY <2>4 DEF Ack
    <3>2. log[Current(a)] \in stored
      BY <3>1 DEF AckedAreStored
    <3>3. DOMAIN files' = DOMAIN files \ {Current(a)}
      BY <3>1, DelDir
    <3> QED
      BY <1>2, <3>1, <3>2, <3>3
  <2>5. CASE WriteTmp(a)
    <3>1. files' = Written(a, files) /\ UNCHANGED <<log, dropped>>
      BY <2>5 DEF WriteTmp
    <3>2. DOMAIN files' = DOMAIN files
      BY <3>1 DEF Written
    <3> QED
      BY <1>2, <3>1, <3>2
  <2>6. CASE RenameTmp(a)
    <3>1. UNCHANGED <<log, dropped>>
      BY <2>6 DEF RenameTmp, disk
    <3>2. files' = files \/ files' = Put(files, Current(a), tmps[Current(a)])
      BY <2>6 DEF RenameTmp, disk
    <3>3. DOMAIN files \subseteq DOMAIN files'
      BY <3>2 DEF Put
    <3> QED
      BY <1>2, <3>1, <3>3
  <2> QED
    BY <1>5, <2>1, <2>2, <2>3, <2>4, <2>5, <2>6 DEF FlushStep
<1>6. CASE Cleanup
  <2>1. /\ files' = Del(files, Expired \cup Excess) /\ log' = log
        /\ dropped' = dropped \cup {log[n] : n \in Expired \cup Excess}
    BY <1>6 DEF Cleanup
  <2>2. DOMAIN files' = DOMAIN files \ (Expired \cup Excess)
    BY <2>1, DelDir
  <2> QED
    BY <1>2, <2>1, <2>2
<1>7. ASSUME NEW A, Kill(A) PROVE FilesAreKept'
  <2>1. files' = Close(files, A) /\ UNCHANGED <<log, dropped>>
    BY <1>7 DEF Kill
  <2>2. DOMAIN files' = DOMAIN files
    BY <2>1 DEF Close
  <2> QED
    BY <1>2, <2>1, <2>2
<1>8. CASE ClockTicks \/ UNCHANGED spoolVars
  BY <1>3, <1>8 DEF ClockTicks, spoolVars, disk
<1> QED
  BY <1>4, <1>5, <1>6, <1>7, <1>8 DEF SpoolNext, FlushBacklog, IngestHookLocally, FlushSpoolBacklog

-------------------------------------------------------------------------------
(* Open files.  Who has what open, of the two kinds of files.                *)
OpenAfter(dir, newDir, closed) ==
  \A n, a : n \in DOMAIN newDir /\ a \in newDir[n].writers =>
    n \in DOMAIN dir /\ a \in dir[n].writers /\ a \notin closed

(* A step that opens nothing: whoever may stop writing has closed its file.  *)
LEMMA OpensNothing ==
  ASSUME OneFileOpen, NEW closed,
         OpenAfter(files, files', closed), OpenAfter(tmps, tmps', closed),
         \A a \in Actors \ closed : pc[a] = "write" => pc'[a] = "write"
  PROVE  OneFileOpen'
<1>1. \A n, a : Opens(files, n, a)' => Opens(files, n, a) /\ a \notin closed
  BY DEF OpenAfter, Opens
<1>2. \A n, a : Opens(tmps, n, a)' => Opens(tmps, n, a) /\ a \notin closed
  BY DEF OpenAfter, Opens
<1> SUFFICES ASSUME NEW a \in Actors
             PROVE  /\ \A n : Opens(files, n, a)' \/ Opens(tmps, n, a)' => pc'[a] = "write"
                    /\ \A n, m : Opens(files, n, a)' /\ Opens(files, m, a)' => n = m
                    /\ \A n, m : Opens(tmps, n, a)' /\ Opens(tmps, m, a)' => n = m
                    /\ \A n, m : ~ (Opens(files, n, a)' /\ Opens(tmps, m, a)')
  BY DEF OneFileOpen
<1>3. /\ \A n : Opens(files, n, a) \/ Opens(tmps, n, a) => pc[a] = "write"
      /\ \A n, m : Opens(files, n, a) /\ Opens(files, m, a) => n = m
      /\ \A n, m : Opens(tmps, n, a) /\ Opens(tmps, m, a) => n = m
      /\ \A n, m : ~ (Opens(files, n, a) /\ Opens(tmps, m, a))
  BY DEF OneFileOpen
<1> QED
  BY <1>1, <1>2, <1>3

LEMMA SameOpen ==
  ASSUME NEW dir, NEW closed, \A n \in DOMAIN dir : dir[n].writers \cap closed = {}
  PROVE  OpenAfter(dir, dir, closed)
  BY DEF OpenAfter

LEMMA DelOpen ==
  ASSUME NEW dir, NEW S
  PROVE  OpenAfter(dir, Del(dir, S), {})
  BY DEF Del, Restrict, OpenAfter

LEMMA OpenTmpOpens ==
  ASSUME Typed, OneFileOpen, NEW b \in Actors, OpenTmp(b)
  PROVE  OneFileOpen'
<1> DEFINE c == Current(b)
<1>1. /\ tmps' = Put(tmps, c, Truncated(b, c)) /\ files' = files
      /\ pc[b] = "mark" /\ pc' = [pc EXCEPT ![b] = "write"]
  BY OpenTmpIs
<1>2. pc'[b] = "write" /\ \A a \in Actors \ {b} : pc'[a] = pc[a]
  BY <1>1 DEF Typed
<1>3. \A n, a : Opens(files, n, a)' <=> Opens(files, n, a)
  BY <1>1 DEF Opens
<1> HIDE DEF c
<1>4. \A n, a : Opens(tmps, n, a)' => Opens(tmps, n, a) \/ (n = c /\ a = b)
  BY <1>1 DEF Opens, Put, Truncated
<1>5. \A n : ~ Opens(files, n, b) /\ ~ Opens(tmps, n, b)
  BY <1>1 DEF OneFileOpen
<1> SUFFICES ASSUME NEW a \in Actors
             PROVE  /\ \A n : Opens(files, n, a)' \/ Opens(tmps, n, a)' => pc'[a] = "write"
                    /\ \A n, m : Opens(files, n, a)' /\ Opens(files, m, a)' => n = m
                    /\ \A n, m : Opens(tmps, n, a)' /\ Opens(tmps, m, a)' => n = m
                    /\ \A n, m : ~ (Opens(files, n, a)' /\ Opens(tmps, m, a)')
  BY DEF OneFileOpen
<1>6. CASE a = b
  BY <1>2, <1>3, <1>4, <1>5, <1>6
<1>7. CASE a # b
  <2>1. \A n : Opens(tmps, n, a)' => Opens(tmps, n, a)
    BY <1>4, <1>7
  <2> QED
    BY <1>2, <1>3, <1>7, <2>1 DEF OneFileOpen
<1> QED
  BY <1>6, <1>7

LEMMA RenameOpens ==
  ASSUME Typed, OneFileOpen, NEW b \in Actors, RenameTmp(b)
  PROVE  OneFileOpen'
<1> DEFINE c == Current(b)
<1>1. pc[b] = "rename" /\ pc' = [pc EXCEPT ![b] = "remove"]
  BY DEF RenameTmp, Goto
<1>2. \A a \in Actors : pc[a] = "write" => pc'[a] = "write"
  BY <1>1 DEF Typed
<1>3. CASE c \in DOMAIN tmps
  <2>1. files' = Put(files, c, tmps[c]) /\ tmps' = Del(tmps, {c})
    BY <1>3 DEF RenameTmp
  <2> HIDE DEF c
  <2>2. \A n, a : Opens(files, n, a)' => \/ n # c /\ Opens(files, n, a)
                                         \/ n = c /\ Opens(tmps, c, a)
    BY <1>3, <2>1 DEF Opens, Put
  <2>3. \A n, a : Opens(tmps, n, a)' => n # c /\ Opens(tmps, n, a)
    BY <2>1 DEF Opens, Del, Restrict
  <2> SUFFICES ASSUME NEW a \in Actors
               PROVE  /\ \A n : Opens(files, n, a)' \/ Opens(tmps, n, a)' => pc'[a] = "write"
                      /\ \A n, m : Opens(files, n, a)' /\ Opens(files, m, a)' => n = m
                      /\ \A n, m : Opens(tmps, n, a)' /\ Opens(tmps, m, a)' => n = m
                      /\ \A n, m : ~ (Opens(files, n, a)' /\ Opens(tmps, m, a)')
    BY DEF OneFileOpen
  <2>4. /\ \A n : Opens(files, n, a) \/ Opens(tmps, n, a) => pc[a] = "write"
        /\ \A n, m : Opens(files, n, a) /\ Opens(files, m, a) => n = m
        /\ \A n, m : Opens(tmps, n, a) /\ Opens(tmps, m, a) => n = m
        /\ \A n, m : ~ (Opens(files, n, a) /\ Opens(tmps, m, a))
    BY DEF OneFileOpen
  <2> QED
    BY <1>2, <2>2, <2>3, <2>4
<1>4. CASE c \notin DOMAIN tmps
  <2>1. files' = files /\ tmps' = tmps
    BY <1>4 DEF RenameTmp, disk
  <2>2. OpenAfter(files, files', {}) /\ OpenAfter(tmps, tmps', {})
    BY <2>1, SameOpen
  <2> QED
    BY <1>2, <2>2, OpensNothing
<1> QED
  BY <1>3, <1>4

LEMMA StepOpens ==
  ASSUME Typed, OneFileOpen, [SpoolNext]_spoolVars
  PROVE  OneFileOpen'
<1>1. ASSUME OpenAfter(files, files', {}), OpenAfter(tmps, tmps', {}),
             \A a \in Actors : pc[a] = "write" => pc'[a] = "write"
      PROVE  OneFileOpen'
  BY <1>1, OpensNothing
<1>2. OpenAfter(files, files, {}) /\ OpenAfter(tmps, tmps, {})
  BY SameOpen
<1>3. ASSUME UNCHANGED disk, \A a \in Actors : pc[a] = "write" => pc'[a] = "write"
      PROVE  OneFileOpen'
  BY <1>1, <1>2, <1>3 DEF disk
<1>4. ASSUME NEW a, NEW requests, NEW budget, Start(a, requests, budget) PROVE OneFileOpen'
  BY <1>3, <1>4, StartOfOne DEF disk
<1>5. ASSUME NEW b \in Actors, FlushStep(b) PROVE OneFileOpen'
  <2>1. pc[b] # "write" => \A a \in Actors : pc[a] = "write" => pc'[a] = "write"
    BY <1>5, FlushOfOne
  <2>2. CASE \E e \in Events : Append_(b, e)
    <3>1. PICK e \in Events : Append_(b, e)
      BY <2>2
    <3>2. /\ files' = Put(files, Len(log) + 1, [mtime |-> now, blank |-> FALSE, writers |-> {}])
          /\ tmps' = tmps /\ pc' = pc
      BY <3>1 DEF Append_
    <3>3. OpenAfter(files, files', {})
      BY <3>2 DEF OpenAfter, Put
    <3> QED
      BY <1>1, <1>2, <3>2, <3>3
  <2>3. CASE \E e \in Events : IngestOK(b, e)
    BY <1>3, <2>1, <2>3 DEF IngestOK
  <2>4. CASE AppendFails(b) \/ ReadOldest(b) \/ BatchDone(b) \/ FlushDone(b) \/ IngestFails(b)
             \/ MarkFailedUnreadable(b)
    BY <1>3, <2>1, <2>4 DEF AppendFails, ReadOldest, BatchDone, FlushDone, IngestFails, MarkFailedUnreadable
  <2>5. CASE Ack(b) \/ RemoveTmp(b)
    <3>1. /\ pc[b] # "write"
          /\ \/ files' = Del(files, {Current(b)}) /\ tmps' = tmps
             \/ tmps' = Del(tmps, {Current(b)}) /\ files' = files
      BY <2>5 DEF Ack, RemoveTmp
    <3>2. OpenAfter(files, files', {}) /\ OpenAfter(tmps, tmps', {})
      BY <1>2, <3>1, DelOpen
    <3> QED
      BY <1>1, <2>1, <3>1, <3>2
  <2>6. CASE WriteTmp(b)
    <3>1. files' = Written(b, files) /\ tmps' = Written(b, tmps)
      BY <2>6 DEF WriteTmp
    <3>2. OpenAfter(files, Written(b, files), {b}) /\ OpenAfter(tmps, Written(b, tmps), {b})
      BY WrittenDir DEF OpenAfter, Typed, Dir
    <3>3. \A a \in Actors \ {b} : pc[a] = "write" => pc'[a] = "write"
      BY <1>5, FlushOfOne
    <3> QED
      BY <3>1, <3>2, <3>3, OpensNothing
  <2> QED
    BY <1>5, <2>2, <2>3, <2>4, <2>5, <2>6, OpenTmpOpens, RenameOpens DEF FlushStep
<1>6. CASE Cleanup
  <2>1. files' = Del(files, Expired \cup Excess) /\ tmps' = tmps /\ pc' = pc
    BY <1>6 DEF Cleanup
  <2> QED
    BY <1>1, <1>2, <2>1, DelOpen
<1>7. ASSUME NEW A \in {Daemon} \cup {{h} : h \in Hooks}, Kill(A) PROVE OneFileOpen'
  <2>1. files' = Close(files, A) /\ tmps' = Close(tmps, A)
    BY <1>7 DEF Kill
  <2>2. OpenAfter(files, Close(files, A), A) /\ OpenAfter(tmps, Close(tmps, A), A)
    BY CloseDir DEF OpenAfter, Typed, Dir
  <2>3. \A a \in Actors \ A : pc[a] = "write" => pc'[a] = "write"
    BY <1>7 DEF Kill
  <2> QED
    BY <2>1, <2>2, <2>3, OpensNothing
<1>8. CASE ClockTicks \/ UNCHANGED spoolVars
  BY <1>3, <1>8 DEF ClockTicks, spoolVars, disk
<1> QED
  BY <1>4, <1>5, <1>6, <1>7, <1>8 DEF SpoolNext, FlushBacklog, IngestHookLocally, FlushSpoolBacklog

-------------------------------------------------------------------------------
(* Hollow files.  Only a kill makes one; a rename moves one.                 *)
LEMMA HollowAreFinite ==
  ASSUME Typed
  PROVE  /\ IsFiniteSet(Hollow(files)) /\ Cardinality(Hollow(files)) \in Nat
         /\ IsFiniteSet(Hollow(tmps)) /\ Cardinality(Hollow(tmps)) \in Nat
<1>1. Hollow(files) \subseteq DOMAIN log /\ Hollow(tmps) \subseteq DOMAIN log
  BY DEF Typed, Dir, Hollow
<1> QED
  BY <1>1, DirIsFinite DEF Typed

(* Hollow files that become no more need no more credit.                     *)
LEMMA NoMoreHollow ==
  ASSUME Typed, Typed', HollowPaidFor, crashes' = crashes,
         Hollow(files)' \subseteq Hollow(files), Hollow(tmps)' \subseteq Hollow(tmps)
  PROVE  HollowPaidFor'
<1>1. /\ IsFiniteSet(Hollow(files)) /\ Cardinality(Hollow(files)) \in Nat
      /\ IsFiniteSet(Hollow(tmps)) /\ Cardinality(Hollow(tmps)) \in Nat
  BY HollowAreFinite
<1>2. Cardinality(Hollow(files)') <= Cardinality(Hollow(files))
  BY <1>1, FS_Subset
<1>3. Cardinality(Hollow(tmps)') <= Cardinality(Hollow(tmps))
  BY <1>1, FS_Subset
<1>4. Cardinality(Hollow(files)') \in Nat /\ Cardinality(Hollow(tmps)') \in Nat
  <2>1. IsFiniteSet(Hollow(files)') /\ IsFiniteSet(Hollow(tmps)')
    BY <1>1, FS_Subset
  <2> QED
    BY <2>1, FS_CardinalityType
<1>5. crashes \in Nat
  BY DEF Typed
<1> QED
  BY <1>1, <1>2, <1>3, <1>4, <1>5 DEF HollowPaidFor

LEMMA RenameHollow ==
  ASSUME Typed, HollowPaidFor, NEW b \in Actors, RenameTmp(b)
  PROVE  HollowPaidFor'
<1> DEFINE c == Current(b)
           F == Hollow(files)
           T == Hollow(tmps)
<1>1. /\ IsFiniteSet(F) /\ Cardinality(F) \in Nat /\ IsFiniteSet(T) /\ Cardinality(T) \in Nat
  BY HollowAreFinite
<1>2. crashes' = crashes /\ crashes \in Nat
  BY DEF RenameTmp, Typed
<1>3. CASE c \in DOMAIN tmps
  <2>1. files' = Put(files, c, tmps[c]) /\ tmps' = Del(tmps, {c})
    BY <1>3 DEF RenameTmp
  <2> HIDE DEF c
  <2>2. Hollow(tmps)' = T \ {c}
    BY <2>1 DEF Hollow, Del, Restrict
  <2>3. CASE c \in T
    <3>1. Hollow(files)' = F \cup {c}
      BY <1>3, <2>1, <2>3 DEF Hollow, Put
    <3> HIDE DEF F, T
    <3>2. Cardinality(Hollow(files)') <= Cardinality(F) + 1
      <4>1. Cardinality(F \cup {c}) = IF c \in F THEN Cardinality(F) ELSE Cardinality(F) + 1
        BY <1>1, FS_AddElement
      <4> QED
        BY <1>1, <3>1, <4>1
    <3>3. Cardinality(Hollow(tmps)') = Cardinality(T) - 1
      BY <1>1, <2>2, <2>3, FS_RemoveElement
    <3>4. IsFiniteSet(Hollow(files)')
      BY <1>1, <3>1, FS_AddElement
    <3>5. Cardinality(Hollow(files)') \in Nat
      BY <3>4, FS_CardinalityType
    <3>6. Cardinality(F) + Cardinality(T) <= crashes
      BY DEF HollowPaidFor, F, T
    <3>7. Cardinality(Hollow(files)') + Cardinality(Hollow(tmps)') <= crashes'
      BY <1>1, <1>2, <3>2, <3>3, <3>5, <3>6
    <3> QED
      BY <3>7 DEF HollowPaidFor
  <2>4. CASE c \notin T
    <3>1. Hollow(files)' \subseteq F /\ Hollow(tmps)' = T
      BY <1>3, <2>1, <2>2, <2>4 DEF Hollow, Put
    <3>2. IsFiniteSet(Hollow(files)') /\ Cardinality(Hollow(files)') <= Cardinality(F)
      BY <1>1, <3>1, FS_Subset
    <3>3. Cardinality(Hollow(files)') \in Nat
      BY <3>2, FS_CardinalityType
    <3>4. Cardinality(F) + Cardinality(T) <= crashes
      BY DEF HollowPaidFor
    <3> HIDE DEF F, T
    <3>5. Cardinality(Hollow(files)') + Cardinality(Hollow(tmps)') <= crashes'
      BY <1>1, <1>2, <3>1, <3>2, <3>3, <3>4
    <3> QED
      BY <3>5 DEF HollowPaidFor
  <2> QED
    BY <2>3, <2>4
<1>4. CASE c \notin DOMAIN tmps
  <2>1. UNCHANGED <<files, tmps, crashes>>
    BY <1>4 DEF RenameTmp, disk
  <2> QED
    BY <2>1 DEF HollowPaidFor, Hollow
<1> QED
  BY <1>3, <1>4

(* The killed flushers that had open what became hollow.  Each had one file  *)
(* open, so there are as many of them as hollow files.                       *)
OneOpen(dir) == \A a, n, m : Opens(dir, n, a) /\ Opens(dir, m, a) => n = m

OpenedBy(dir, H, W) ==
  H \subseteq DOMAIN dir /\ \A n \in H : dir[n].writers # {} /\ dir[n].writers \subseteq W

Writers(dir, V) == \A a \in V : \E n : Opens(dir, n, a)

LEMMA OneWriterEach ==
  ASSUME NEW dir, NEW H, NEW W, IsFiniteSet(H), OpenedBy(dir, H, W), OneOpen(dir)
  PROVE  \E V \in SUBSET W : IsFiniteSet(V) /\ Cardinality(V) = Cardinality(H) /\ Writers(dir, V)
<1> DEFINE writer == [n \in H |-> CHOOSE a \in dir[n].writers : TRUE]
           V == {writer[n] : n \in H}
<1>1. \A n \in H : writer[n] \in dir[n].writers
  BY DEF OpenedBy
<1>2. \A n \in H : writer[n] \in W /\ Opens(dir, n, writer[n])
  BY <1>1 DEF Opens, OpenedBy
<1> HIDE DEF writer
<1>3. writer \in Bijection(H, V)
  <2>1. writer \in [H -> V]
    BY DEF writer
  <2>2. \A m, n \in H : writer[m] = writer[n] => m = n
    BY <1>2 DEF OneOpen
  <2>3. \A a \in V : \E n \in H : writer[n] = a
    OBVIOUS
  <2> QED
    BY <2>1, <2>2, <2>3, Fun_IsBij
<1>4. IsFiniteSet(V) /\ Cardinality(V) = Cardinality(H)
  BY <1>3, FS_Bijection DEF ExistsBijection
<1>5. V \subseteq W /\ Writers(dir, V)
  BY <1>2 DEF Writers
<1> QED
  BY <1>4, <1>5

(* What is hollow after a kill was before, or the killed had it open.        *)
LEMMA CloseHollow ==
  ASSUME NEW A, NEW dir, \A n \in DOMAIN dir : dir[n] \in Inode
  PROVE  /\ Hollow(dir) \subseteq Hollow(Close(dir, A))
         /\ Hollow(Close(dir, A)) \subseteq DOMAIN dir
         /\ \A n \in Hollow(Close(dir, A)) \ Hollow(dir) :
              dir[n].writers # {} /\ dir[n].writers \subseteq A
<1> DEFINE closed == Close(dir, A)
<1>1. /\ DOMAIN closed = DOMAIN dir
      /\ \A n \in DOMAIN dir : /\ closed[n].writers = dir[n].writers \ A
                               /\ closed[n].blank = dir[n].blank
  BY CloseDir
<1> HIDE DEF closed
<1>2. \A n : n \in Hollow(closed) <=>
              n \in DOMAIN dir /\ dir[n].blank /\ dir[n].writers \ A = {}
  BY <1>1 DEF Hollow
<1>3. \A n : n \in Hollow(dir) <=> n \in DOMAIN dir /\ dir[n].blank /\ dir[n].writers = {}
  BY DEF Hollow
<1>4. /\ Hollow(dir) \subseteq Hollow(closed)
      /\ Hollow(closed) \subseteq DOMAIN dir
      /\ \A n \in Hollow(closed) \ Hollow(dir) :
           dir[n].writers # {} /\ dir[n].writers \subseteq A
  BY <1>2, <1>3
<1> QED
  BY <1>4 DEF closed

LEMMA KillHollow ==
  ASSUME Typed, OneFileOpen, HollowPaidFor, NEW A \in {Daemon} \cup {{h} : h \in Hooks}, Kill(A)
  PROVE  HollowPaidFor'
<1> DEFINE K  == {a \in A : pc[a] # "idle"}
           F  == Hollow(files)
           T  == Hollow(tmps)
           HF == Hollow(files)' \ F
           HT == Hollow(tmps)' \ T
<1>1. crashes' = crashes + Cardinality(K) /\ IsFiniteSet(K) /\ crashes \in Nat
  BY KillTyped DEF Typed
<1>2. A \subseteq Actors
  BY DEF Actors
<1>3. /\ IsFiniteSet(F) /\ Cardinality(F) \in Nat /\ IsFiniteSet(T) /\ Cardinality(T) \in Nat
  BY HollowAreFinite
<1>4. files' = Close(files, A) /\ tmps' = Close(tmps, A) /\ log' = log
  BY DEF Kill
<1>5. /\ \A n \in DOMAIN files : files[n].writers \subseteq Actors
      /\ \A n \in DOMAIN tmps : tmps[n].writers \subseteq Actors
  BY DEF Typed, Dir, Inode
<1>6. /\ F \subseteq Hollow(files)' /\ HF \subseteq DOMAIN files
      /\ \A n \in HF : files[n].writers # {} /\ files[n].writers \subseteq A
  <2>1. Hollow(files)' = Hollow(Close(files, A))
    BY <1>4 DEF Hollow
  <2>2. \A n \in DOMAIN files : files[n] \in Inode
    BY DEF Typed, Dir
  <2> QED
    BY <2>1, <2>2, CloseHollow
<1>7. /\ T \subseteq Hollow(tmps)' /\ HT \subseteq DOMAIN tmps
      /\ \A n \in HT : tmps[n].writers # {} /\ tmps[n].writers \subseteq A
  <2>1. Hollow(tmps)' = Hollow(Close(tmps, A))
    BY <1>4 DEF Hollow
  <2>2. \A n \in DOMAIN tmps : tmps[n] \in Inode
    BY DEF Typed, Dir
  <2> QED
    BY <2>1, <2>2, CloseHollow
<1>8. /\ \A a, n : Opens(files, n, a) => a \in Actors /\ pc[a] = "write"
      /\ \A a, n : Opens(tmps, n, a) => a \in Actors /\ pc[a] = "write"
  BY <1>5 DEF Opens, OneFileOpen
<1>9. /\ \A n \in HF : files[n].writers \subseteq K
      /\ \A n \in HT : tmps[n].writers \subseteq K
  BY <1>6, <1>7, <1>8 DEF Opens
<1>10. /\ IsFiniteSet(HF) /\ Cardinality(HF) \in Nat
       /\ IsFiniteSet(HT) /\ Cardinality(HT) \in Nat
  <2>1. HF \subseteq DOMAIN log /\ HT \subseteq DOMAIN log
    BY <1>6, <1>7 DEF Typed, Dir
  <2> QED
    BY <2>1, DirIsFinite DEF Typed
<1>11. PICK VF \in SUBSET K :
         IsFiniteSet(VF) /\ Cardinality(VF) = Cardinality(HF) /\ Writers(files, VF)
  <2>1. OneOpen(files)
    BY <1>8 DEF OneFileOpen, OneOpen
  <2>2. OpenedBy(files, HF, K)
    BY <1>6, <1>9 DEF OpenedBy
  <2> HIDE DEF K, HF
  <2> QED
    BY <1>10, <2>1, <2>2, OneWriterEach
<1>12. PICK VT \in SUBSET K :
         IsFiniteSet(VT) /\ Cardinality(VT) = Cardinality(HT) /\ Writers(tmps, VT)
  <2>1. OneOpen(tmps)
    BY <1>8 DEF OneFileOpen, OneOpen
  <2>2. OpenedBy(tmps, HT, K)
    BY <1>7, <1>9 DEF OpenedBy
  <2> HIDE DEF K, HT
  <2> QED
    BY <1>10, <2>1, <2>2, OneWriterEach
<1>13. VF \cap VT = {}
  BY <1>8, <1>11, <1>12 DEF OneFileOpen, Writers
<1>14. Hollow(files)' = F \cup HF /\ F \cap HF = {}
  BY <1>6
<1>15. Hollow(tmps)' = T \cup HT /\ T \cap HT = {}
  BY <1>7
<1>16. Cardinality(F) + Cardinality(T) <= crashes
  BY DEF HollowPaidFor
<1> HIDE DEF K, F, T, HF, HT
<1>17. Cardinality({}) = 0
  BY FS_EmptySet
<1>18. Cardinality(HF) + Cardinality(HT) <= Cardinality(K)
  <2>1. /\ IsFiniteSet(VF \cup VT)
        /\ Cardinality(VF \cup VT) = Cardinality(VF) + Cardinality(VT) - Cardinality(VF \cap VT)
    BY <1>11, <1>12, FS_Union
  <2>2. VF \cup VT \in SUBSET K
    BY <1>11, <1>12
  <2>3. Cardinality(VF \cup VT) <= Cardinality(K)
    BY <1>1, <2>2, FS_Subset
  <2>4. Cardinality(VF \cap VT) = 0
    BY <1>13, <1>17
  <2> QED
    BY <1>10, <1>11, <1>12, <2>1, <2>3, <2>4
<1>19. Cardinality(Hollow(files)') = Cardinality(F) + Cardinality(HF)
  <2>1. Cardinality(F \cup HF) = Cardinality(F) + Cardinality(HF) - Cardinality(F \cap HF)
    BY <1>3, <1>10, FS_Union
  <2>2. Cardinality(F \cap HF) = 0
    BY <1>14, <1>17
  <2> QED
    BY <1>3, <1>10, <1>14, <2>1, <2>2
<1>20. Cardinality(Hollow(tmps)') = Cardinality(T) + Cardinality(HT)
  <2>1. Cardinality(T \cup HT) = Cardinality(T) + Cardinality(HT) - Cardinality(T \cap HT)
    BY <1>3, <1>10, FS_Union
  <2>2. Cardinality(T \cap HT) = 0
    BY <1>15, <1>17
  <2> QED
    BY <1>3, <1>10, <1>15, <2>1, <2>2
<1>21. Cardinality(K) \in Nat
  BY <1>1, FS_CardinalityType
<1>22. Cardinality(Hollow(files)') + Cardinality(Hollow(tmps)') <= crashes'
  BY <1>1, <1>3, <1>10, <1>16, <1>18, <1>19, <1>20, <1>21
<1> QED
  BY <1>22 DEF HollowPaidFor

LEMMA StepHollow ==
  ASSUME Typed, Typed', OneFileOpen, HollowPaidFor, [SpoolNext]_spoolVars
  PROVE  HollowPaidFor'
<1>1. ASSUME UNCHANGED <<files, tmps, crashes>> PROVE HollowPaidFor'
  BY <1>1 DEF HollowPaidFor, Hollow
<1>2. ASSUME crashes' = crashes,
             Hollow(files)' \subseteq Hollow(files), Hollow(tmps)' \subseteq Hollow(tmps)
      PROVE  HollowPaidFor'
  BY <1>2, NoMoreHollow
<1>3. ASSUME NEW a, NEW requests, NEW budget, Start(a, requests, budget) PROVE HollowPaidFor'
  BY <1>1, <1>3, StartOfOne
<1>4. ASSUME NEW b \in Actors, FlushStep(b) PROVE HollowPaidFor'
  <2>1. CASE \E e \in Events : Append_(b, e)
    <3>1. /\ files' = Put(files, Len(log) + 1, [mtime |-> now, blank |-> FALSE, writers |-> {}])
          /\ tmps' = tmps /\ crashes' = crashes
      BY <2>1 DEF Append_
    <3>2. Hollow(files)' \subseteq Hollow(files) /\ Hollow(tmps)' = Hollow(tmps)
      BY <3>1 DEF Hollow, Put
    <3> QED
      BY <1>2, <3>1, <3>2
  <2>2. CASE \E e \in Events : IngestOK(b, e)
    BY <1>1, <2>2 DEF IngestOK, disk
  <2>3. CASE AppendFails(b) \/ ReadOldest(b) \/ BatchDone(b) \/ FlushDone(b) \/ IngestFails(b)
             \/ MarkFailedUnreadable(b)
    BY <1>1, <2>3 DEF AppendFails, ReadOldest, BatchDone, FlushDone, IngestFails, MarkFailedUnreadable, disk
  <2>4. CASE Ack(b) \/ RemoveTmp(b)
    <3>1. /\ \/ files' = Del(files, {Current(b)}) /\ tmps' = tmps
             \/ tmps' = Del(tmps, {Current(b)}) /\ files' = files
          /\ crashes' = crashes
      BY <2>4 DEF Ack, RemoveTmp
    <3>2. Hollow(files)' \subseteq Hollow(files) /\ Hollow(tmps)' \subseteq Hollow(tmps)
      BY <3>1 DEF Hollow, Del, Restrict
    <3> QED
      BY <1>2, <3>1, <3>2
  <2>5. CASE OpenTmp(b)
    <3>1. tmps' = Put(tmps, Current(b), Truncated(b, Current(b))) /\ files' = files
      BY <2>5, OpenTmpIs
    <3>2. crashes' = crashes
      BY <2>5 DEF OpenTmp
    <3>3. Hollow(files)' = Hollow(files) /\ Hollow(tmps)' \subseteq Hollow(tmps)
      BY <3>1 DEF Hollow, Put, Truncated
    <3> QED
      BY <1>2, <3>2, <3>3
  <2>6. CASE WriteTmp(b)
    <3>1. files' = Written(b, files) /\ tmps' = Written(b, tmps) /\ crashes' = crashes
      BY <2>6 DEF WriteTmp
    <3>2. Hollow(files)' \subseteq Hollow(files) /\ Hollow(tmps)' \subseteq Hollow(tmps)
      BY <3>1, WrittenDir DEF Hollow, Typed, Dir
    <3> QED
      BY <1>2, <3>1, <3>2
  <2> QED
    BY <1>4, <2>1, <2>2, <2>3, <2>4, <2>5, <2>6, RenameHollow DEF FlushStep
<1>5. CASE Cleanup
  <2>1. files' = Del(files, Expired \cup Excess) /\ tmps' = tmps /\ crashes' = crashes
    BY <1>5 DEF Cleanup
  <2>2. Hollow(files)' \subseteq Hollow(files) /\ Hollow(tmps)' = Hollow(tmps)
    BY <2>1 DEF Hollow, Del, Restrict
  <2> QED
    BY <1>2, <2>1, <2>2
<1>6. CASE ClockTicks \/ UNCHANGED spoolVars
  BY <1>1, <1>6 DEF ClockTicks, spoolVars, disk
<1> QED
  BY <1>3, <1>4, <1>5, <1>6, KillHollow DEF SpoolNext, FlushBacklog, IngestHookLocally, FlushSpoolBacklog

-------------------------------------------------------------------------------
LEMMA InitInv == SpoolInit => Inv
<1> SUFFICES ASSUME SpoolInit PROVE Inv
  OBVIOUS
<1>1. log = <<>> /\ DOMAIN log = {} /\ DOMAIN files = {} /\ DOMAIN tmps = {}
  BY DEF SpoolInit
<1>2. Typed
  <2>1. log \in Seq(Events) /\ Dir(files) /\ Dir(tmps)
    BY <1>1 DEF Dir
  <2>2. pc \in [Actors -> PCs] /\ flush \in [Actors -> Flushes]
    BY NoFlushTyped DEF SpoolInit, PCs
  <2>3. \A a \in Actors : flush[a].batch = {}
    BY NoFlushTyped DEF SpoolInit
  <2> QED
    BY <2>1, <2>2, <2>3 DEF SpoolInit, Typed
<1>3. AckedAreStored
  BY DEF SpoolInit, AckedAreStored
<1>4. FilesAreKept
  BY <1>1 DEF FilesAreKept
<1>5. OneFileOpen
  BY <1>1 DEF OneFileOpen, Opens
<1>6. HollowPaidFor
  <2>1. Hollow(files) = {} /\ Hollow(tmps) = {} /\ crashes = 0
    BY <1>1 DEF Hollow, SpoolInit
  <2> QED
    BY <2>1, FS_EmptySet DEF HollowPaidFor
<1> QED
  BY <1>2, <1>3, <1>4, <1>5, <1>6 DEF Inv

LEMMA StepInv == Inv /\ [SpoolNext]_spoolVars => Inv'
  BY StepTyped, StepAcked, StepKept, StepOpens, StepHollow DEF Inv

(* LossIsBounded: an event is lost for each flusher killed at work, at most, *)
(* whatever the flushers, files, crashes and the order of their steps.       *)
THEOREM LossBounded == SpoolSpec => []LossIsBounded
<1>1. Inv => LossIsBounded
  <2> SUFFICES ASSUME Inv PROVE LossIsBounded
    OBVIOUS
  <2>1. /\ IsFiniteSet(Hollow(files)) /\ Cardinality(Hollow(files)) \in Nat
        /\ Cardinality(Hollow(tmps)) \in Nat
    BY HollowAreFinite DEF Inv
  <2>2. Lost \subseteq Hollow(files)
    BY LostAreHollow
  <2>3. IsFiniteSet(Lost) /\ Cardinality(Lost) <= Cardinality(Hollow(files))
    BY <2>1, <2>2, FS_Subset
  <2>4. Cardinality(Lost) \in Nat
    BY <2>3, FS_CardinalityType
  <2>5. Cardinality(Hollow(files)) + Cardinality(Hollow(tmps)) <= crashes /\ crashes \in Nat
    BY DEF Inv, HollowPaidFor, Typed
  <2> QED
    BY <2>1, <2>3, <2>4, <2>5 DEF LossIsBounded
<1> QED
  BY <1>1, InitInv, StepInv, PTL DEF SpoolSpec

(* Without kills nothing is hollow.                                          *)
NoCrash == Inv /\ crashes = 0

LEMMA NothingHollow ==
  ASSUME NoCrash
  PROVE  Recoverable = DOMAIN files
<1>1. /\ IsFiniteSet(Hollow(files)) /\ Cardinality(Hollow(files)) \in Nat
      /\ Cardinality(Hollow(tmps)) \in Nat
  BY HollowAreFinite DEF NoCrash, Inv
<1>2. Cardinality(Hollow(files)) = 0
  BY <1>1 DEF NoCrash, Inv, HollowPaidFor
<1>3. Hollow(files) = {}
  BY <1>1, <1>2, FS_EmptySet
<1> QED
  BY <1>3 DEF Hollow, Recoverable

LEMMA NoCrashStep ==
  ASSUME MaxCrashes = 0
  PROVE  NoCrash /\ [SpoolNext]_spoolVars => NoCrash' /\ \A A : ~ Kill(A)
<1> SUFFICES ASSUME NoCrash, [SpoolNext]_spoolVars PROVE NoCrash' /\ \A A : ~ Kill(A)
  OBVIOUS
<1>1. \A A : ~ Kill(A)
  BY DEF NoCrash, Kill
<1>2. Inv'
  BY StepInv DEF NoCrash
<1>3. ASSUME NEW b \in Actors, FlushStep(b) PROVE crashes' = crashes
  BY <1>3 DEF FlushStep, Append_, IngestOK, AppendFails, ReadOldest, BatchDone, FlushDone, IngestFails,
         Ack, MarkFailedUnreadable, OpenTmp, WriteTmp, RenameTmp, RemoveTmp
<1>4. crashes' = crashes
  BY <1>1, <1>3 DEF SpoolNext, FlushBacklog, IngestHookLocally, FlushSpoolBacklog, Start, Cleanup, ClockTicks, spoolVars
<1> QED
  BY <1>1, <1>2, <1>4 DEF NoCrash

LEMMA NoCrashInit == SpoolInit => NoCrash
  BY InitInv DEF SpoolInit, NoCrash

(* NothingLost: without crashes no interleaving of flushers over the shared  *)
(* names loses an event.                                                     *)
THEOREM NothingIsLost ==
  ASSUME MaxCrashes = 0
  PROVE  SpoolSpec => []NothingLost
<1>1. NoCrash => NothingLost
  BY NothingHollow DEF NoCrash, Inv, FilesAreKept, NothingLost
<1>2. NoCrash /\ [SpoolNext]_spoolVars => NoCrash'
  BY NoCrashStep
<1> QED
  BY <1>1, <1>2, NoCrashInit, PTL DEF SpoolSpec

-------------------------------------------------------------------------------
(* Delivery.  While nothing is hollow the spool owes the events of its files.*)
EventsOf(dir) == {log[n] : n \in DOMAIN dir}

OwedIs == {log[n] : n \in Recoverable}

OwedInFiles == OwedIs = EventsOf(files) /\ OwedIs \subseteq Events

LEMMA OwedIsInFiles == NoCrash => OwedInFiles
<1> SUFFICES ASSUME NoCrash PROVE OwedInFiles
  OBVIOUS
<1>1. OwedIs = EventsOf(files)
  BY NothingHollow DEF OwedIs, EventsOf
<1>2. DOMAIN files \subseteq DOMAIN log /\ \A n \in DOMAIN log : log[n] \in Events
  BY DEF NoCrash, Inv, Typed, Dir
<1> QED
  BY <1>1, <1>2 DEF EventsOf, OwedInFiles

LEMMA OwedIsInFilesNext == NoCrash' => OwedInFiles'
  BY OwedIsInFiles, PTL

(* Delivery's steps, in terms of what the spool owes.                        *)
LEMMA DeliverySteps ==
  ASSUME \/ UNCHANGED <<OwedIs, stored, dropped>>
         \/ \E e \in Events : OwedIs' = OwedIs \cup {e} /\ UNCHANGED <<stored, dropped>>
         \/ \E e \in Events : stored' = stored \cup {e} /\ UNCHANGED <<OwedIs, dropped>>
         \/ \E E \in SUBSET Events :
              E \subseteq stored /\ OwedIs' = OwedIs \ E /\ UNCHANGED <<stored, dropped>>
         \/ \E E \in SUBSET Events :
              /\ E \subseteq OwedIs /\ dropped' = dropped \cup E /\ stored' = stored
              /\ OwedIs' \subseteq OwedIs /\ OwedIs \ OwedIs' \subseteq E
  PROVE  [D!Next]_<<OwedIs, stored, dropped>>
  BY DEF D!Next, D!Owe, D!Deliver, D!Release, D!GiveUp, OwedIs

LEMMA FlushStepDelivers ==
  ASSUME NoCrash, NoCrash', NEW a \in Actors, FlushStep(a)
  PROVE  [D!Next]_<<OwedIs, stored, dropped>>
<1>1. /\ OwedIs = EventsOf(files) /\ OwedIs' = EventsOf(files)'
      /\ OwedIs \subseteq Events
  BY OwedIsInFiles, OwedIsInFilesNext DEF OwedInFiles
<1>2. /\ Typed /\ DOMAIN files \subseteq DOMAIN log /\ DOMAIN tmps \subseteq DOMAIN log
      /\ \A n \in DOMAIN log : log[n] \in Events
  BY DEF NoCrash, Inv, Typed, Dir
<1>3. ASSUME UNCHANGED <<log, files, stored, dropped>>
      PROVE  [D!Next]_<<OwedIs, stored, dropped>>
  <2>1. UNCHANGED <<OwedIs, stored, dropped>>
    BY <1>1, <1>3 DEF EventsOf
  <2> QED
    BY <2>1, DeliverySteps
<1>4. ASSUME DOMAIN files' = DOMAIN files, UNCHANGED <<log, stored, dropped>>
      PROVE  [D!Next]_<<OwedIs, stored, dropped>>
  <2>1. UNCHANGED <<OwedIs, stored, dropped>>
    BY <1>1, <1>4 DEF EventsOf
  <2> QED
    BY <2>1, DeliverySteps
<1>5. CASE \E e \in Events : Append_(a, e)
  <2>1. PICK e \in Events : Append_(a, e)
    BY <1>5
  <2>2. /\ DOMAIN log' = DOMAIN log \cup {Len(log) + 1} /\ log'[Len(log) + 1] = e
        /\ \A n \in DOMAIN log : log'[n] = log[n]
    BY <1>2, <2>1, AppendGrows DEF Typed, LogGrows
  <2>3. DOMAIN files' = DOMAIN files \cup {Len(log) + 1} /\ UNCHANGED <<stored, dropped>>
    BY <2>1 DEF Append_, Put
  <2>4. EventsOf(files)' = EventsOf(files) \cup {e}
    BY <1>2, <2>2, <2>3 DEF EventsOf
  <2>5. OwedIs' = OwedIs \cup {e}
    BY <1>1, <2>4
  <2> QED
    BY <2>3, <2>5, DeliverySteps
<1>6. CASE \E e \in Events : IngestOK(a, e)
  <2>1. PICK e \in Events : IngestOK(a, e)
    BY <1>6
  <2>2. stored' = stored \cup {e} /\ UNCHANGED <<log, files, dropped>>
    BY <2>1 DEF IngestOK, disk
  <2>3. OwedIs' = OwedIs
    BY <1>1, <2>2 DEF EventsOf
  <2> QED
    BY <2>2, <2>3, DeliverySteps
<1>7. CASE AppendFails(a) \/ ReadOldest(a) \/ BatchDone(a) \/ FlushDone(a) \/ IngestFails(a)
           \/ MarkFailedUnreadable(a) \/ OpenTmp(a) \/ RemoveTmp(a)
  BY <1>3, <1>7 DEF AppendFails, ReadOldest, BatchDone, FlushDone, IngestFails, MarkFailedUnreadable,
                    OpenTmp, RemoveTmp, disk
<1>8. CASE Ack(a)
  <2> DEFINE E == OwedIs \ OwedIs'
  <2>1. /\ files' = Del(files, {Current(a)}) /\ pc[a] = "ack"
        /\ UNCHANGED <<log, stored, dropped>>
    BY <1>8 DEF Ack
  <2>2. DOMAIN files' = DOMAIN files \ {Current(a)}
    BY <2>1 DEF Del, Restrict
  <2>3. log[Current(a)] \in stored
    BY <2>1 DEF NoCrash, Inv, AckedAreStored
  <2>4. EventsOf(files)' \subseteq EventsOf(files)
    BY <2>1, <2>2 DEF EventsOf
  <2>5. EventsOf(files) \ EventsOf(files)' \subseteq {log[Current(a)]}
    BY <2>1, <2>2 DEF EventsOf
  <2>6. E \subseteq stored /\ E \in SUBSET Events /\ OwedIs' = OwedIs \ E
    BY <1>1, <2>3, <2>4, <2>5
  <2> QED
    BY <2>1, <2>6, DeliverySteps
<1>9. CASE WriteTmp(a)
  BY <1>4, <1>9 DEF WriteTmp, Written
<1>10. CASE RenameTmp(a)
  <2>1. UNCHANGED <<log, stored, dropped>>
    BY <1>10 DEF RenameTmp, disk
  <2>2. CASE Current(a) \in DOMAIN tmps
    <3>1. DOMAIN files' = DOMAIN files \cup {Current(a)}
      BY <1>10, <2>2 DEF RenameTmp, Put
    <3>2. EventsOf(files)' = EventsOf(files) \cup {log[Current(a)]}
      BY <2>1, <3>1 DEF EventsOf
    <3>3. OwedIs' = OwedIs \cup {log[Current(a)]} /\ log[Current(a)] \in Events
      BY <1>1, <1>2, <2>2, <3>2
    <3> QED
      BY <2>1, <3>3, DeliverySteps
  <2>3. CASE Current(a) \notin DOMAIN tmps
    BY <1>3, <1>10, <2>1, <2>3 DEF RenameTmp, disk
  <2> QED
    BY <2>2, <2>3
<1> QED
  BY <1>5, <1>6, <1>7, <1>8, <1>9, <1>10 DEF FlushStep

LEMMA StepDelivers ==
  ASSUME NoCrash, NoCrash', [SpoolNext]_spoolVars, \A A : ~ Kill(A)
  PROVE  [D!Next]_<<OwedIs, stored, dropped>>
<1>1. /\ OwedIs = EventsOf(files) /\ OwedIs' = EventsOf(files)'
      /\ OwedIs \subseteq Events
  BY OwedIsInFiles, OwedIsInFilesNext DEF OwedInFiles
<1>2. ASSUME UNCHANGED <<log, files, stored, dropped>>
      PROVE  [D!Next]_<<OwedIs, stored, dropped>>
  <2>1. UNCHANGED <<OwedIs, stored, dropped>>
    BY <1>1, <1>2 DEF EventsOf
  <2> QED
    BY <2>1, DeliverySteps
<1>3. ASSUME NEW a, NEW requests, NEW budget, Start(a, requests, budget)
      PROVE  [D!Next]_<<OwedIs, stored, dropped>>
  BY <1>2, <1>3, StartOfOne DEF NoCrash, Inv
<1>4. CASE Cleanup
  <2> DEFINE gone == Expired \cup Excess
             E == {log[n] : n \in gone}
  <2>1. /\ files' = Del(files, gone) /\ dropped' = dropped \cup E
        /\ UNCHANGED <<log, stored>>
    BY <1>4 DEF Cleanup
  <2>2. gone \subseteq DOMAIN files
    BY DEF Expired, Excess
  <2> HIDE DEF gone
  <2>3. DOMAIN files' = DOMAIN files \ gone
    BY <2>1 DEF Del, Restrict
  <2>4. E \subseteq EventsOf(files)
    BY <2>2 DEF EventsOf
  <2>5. EventsOf(files)' \subseteq EventsOf(files) /\ EventsOf(files) \ EventsOf(files)' \subseteq E
    BY <2>1, <2>3 DEF EventsOf
  <2>6. E \subseteq OwedIs /\ E \in SUBSET Events /\ OwedIs' \subseteq OwedIs /\ OwedIs \ OwedIs' \subseteq E
    BY <1>1, <2>4, <2>5
  <2> HIDE DEF E
  <2> QED
    BY <2>1, <2>6, DeliverySteps
<1>5. CASE ClockTicks \/ UNCHANGED spoolVars
  BY <1>2, <1>5 DEF ClockTicks, spoolVars, disk
<1> QED
  BY <1>3, <1>4, <1>5, FlushStepDelivers DEF SpoolNext, FlushBacklog, IngestHookLocally, FlushSpoolBacklog

(* DeliverySpec: without crashes every system call of every flusher is a     *)
(* step of Delivery or none - what leaves the spool was delivered or given   *)
(* up, and what is offered again was owed before.                            *)
THEOREM SpoolDelivers ==
  ASSUME MaxCrashes = 0
  PROVE  SpoolSpec => DeliverySpec
<1>1. SpoolInit => D!Init
  BY DEF SpoolInit, D!Init, Recoverable
<1>2. NoCrash /\ NoCrash' /\ [SpoolNext]_spoolVars => [D!Next]_<<{log[n] : n \in Recoverable}, stored, dropped>>
  BY NoCrashStep, StepDelivers DEF OwedIs
<1>3. NoCrash /\ [SpoolNext]_spoolVars => NoCrash'
  BY NoCrashStep
<1> QED
  BY <1>1, <1>2, <1>3, NoCrashInit, PTL DEF SpoolSpec, DeliverySpec, D!Spec

-------------------------------------------------------------------------------
(* Cleanup.  Fewer files have fewer bytes.                                   *)
Contents(S) == UNION {{n} \X (1 .. Size[log[n]]) : n \in S}

LEMMA ContentsAreFinite ==
  ASSUME log \in Seq(Events), NEW S \in SUBSET DOMAIN log
  PROVE  IsFiniteSet(Contents(S))
<1> DEFINE file(n) == {n} \X (1 .. Size[log[n]])
           inodes  == {file(n) : n \in S}
           f       == [n \in S |-> file(n)]
<1>1. IsFiniteSet(S)
  BY DirIsFinite
<1>2. IsFiniteSet(inodes)
  <2>1. f \in Surjection(S, inodes)
    BY DEF Surjection
  <2> HIDE DEF f, inodes
  <2>2. QED
    BY <1>1, <2>1, FS_Surjection
<1>3. ASSUME NEW n \in S PROVE IsFiniteSet(file(n))
  <2>1. log[n] \in Events
    BY <1>3
  <2>2. PICK k \in Nat : k = Size[log[n]]
    BY <2>1, SpoolAssumption
  <2>3. IsFiniteSet({n})
    BY FS_Singleton
  <2>4. IsFiniteSet(1 .. k)
    BY FS_Interval
  <2>5. QED
    BY <2>2, <2>3, <2>4, FS_Product
<1>4. \A F \in inodes : IsFiniteSet(F)
  BY <1>3
<1>5. IsFiniteSet(UNION inodes)
  <2> HIDE DEF inodes
  <2>1. QED
    BY <1>2, <1>4, FS_UNION
<1>6. QED
  BY <1>5 DEF Contents

LEMMA FewerIsLess ==
  ASSUME log \in Seq(Events), NEW S \in SUBSET DOMAIN log, NEW T \in SUBSET S
  PROVE  /\ Cardinality(T) <= Cardinality(S) /\ Bytes(T) <= Bytes(S)
         /\ {Cardinality(T), Cardinality(S), Bytes(T), Bytes(S)} \subseteq Nat
<1>1. IsFiniteSet(S) /\ IsFiniteSet(Contents(S)) /\ IsFiniteSet(T) /\ IsFiniteSet(Contents(T))
  BY DirIsFinite, ContentsAreFinite
<1>2. Contents(T) \subseteq Contents(S)
  BY DEF Contents
<1>3. Bytes(T) = Cardinality(Contents(T)) /\ Bytes(S) = Cardinality(Contents(S))
  BY DEF Bytes, Contents
<1>4. Cardinality(T) <= Cardinality(S)
  BY <1>1, FS_Subset
<1>5. Cardinality(Contents(T)) <= Cardinality(Contents(S))
  BY <1>1, <1>2, FS_Subset
<1>6. QED
  BY <1>1, <1>3, <1>4, <1>5, FS_CardinalityType

LEMMA FewerFit ==
  ASSUME log \in Seq(Events), NEW S \in SUBSET DOMAIN log, NEW T \in SUBSET S, WithinLimits(S)
  PROVE  WithinLimits(T)
<1>1. /\ Cardinality(T) <= Cardinality(S) /\ Bytes(T) <= Bytes(S)
      /\ Cardinality(T) \in Nat /\ Cardinality(S) \in Nat /\ Bytes(T) \in Nat /\ Bytes(S) \in Nat
  BY FewerIsLess
<1>2. MaxFiles \in Nat /\ MaxBytes \in Nat
  BY SpoolAssumption
<1>3. Cardinality(S) <= MaxFiles /\ Bytes(S) <= MaxBytes
  BY DEF WithinLimits
<1>4. Cardinality(T) <= MaxFiles /\ Bytes(T) <= MaxBytes
  BY <1>1, <1>2, <1>3
<1>5. QED
  BY <1>4 DEF WithinLimits

(* What a cleanup leaves is within the limits, and what it takes is old or   *)
(* does not fit beside the newer files.                                      *)
THEOREM CleanupIsFair == SpoolSpec => CleanupKeepsTheNewest
<1> DEFINE NewestStay ==
  Cleanup =>
       /\ WithinLimits(DOMAIN files')
       /\ \A n \in DOMAIN files \ DOMAIN files' :
            \/ now - files[n].mtime > MaxAge
            \/ /\ \A m \in DOMAIN files' : m > n
               /\ ~ WithinLimits({m \in DOMAIN files : m >= n /\ now - files[m].mtime <= MaxAge})
<1>1. ASSUME Inv, Cleanup PROVE NewestStay
  <2> DEFINE kept == DOMAIN files \ Expired
             from(n) == {m \in kept : m >= n}
             left == kept \ Excess
  <2>1. /\ log \in Seq(Events) /\ kept \in SUBSET DOMAIN log /\ DOMAIN log \subseteq Nat
        /\ DOMAIN files' = left /\ now \in Nat
        /\ \A m \in DOMAIN files : files[m].mtime \in Nat
    <3>1. log \in Seq(Events) /\ DOMAIN files \subseteq DOMAIN log /\ now \in Nat
          /\ \A m \in DOMAIN files : files[m] \in Inode
      BY <1>1 DEF Inv, Typed, Dir
    <3>2. DOMAIN files' = DOMAIN files \ (Expired \cup Excess)
      BY <1>1, DelDir DEF Cleanup
    <3>3. DOMAIN log = 1 .. Len(log) /\ Len(log) \in Nat
      BY <3>1
    <3>4. QED
      BY <3>1, <3>2, <3>3 DEF Inode
  <2>2. \A n \in kept : n \in left <=> WithinLimits(from(n))
    <3>1. SUFFICES ASSUME NEW n \in kept PROVE n \in left <=> WithinLimits(from(n))
      OBVIOUS
    <3>2. n \in Excess <=> Cardinality(from(n)) > MaxFiles \/ Bytes(from(n)) > MaxBytes
      BY DEF Excess
    <3>3. from(n) \in SUBSET DOMAIN log
      BY <2>1
    <3> HIDE DEF from
    <3>4. Cardinality(from(n)) \in Nat /\ Bytes(from(n)) \in Nat
      BY <2>1, <3>3, FewerIsLess
    <3>5. QED
      BY <3>2, <3>4, SpoolAssumption DEF WithinLimits
  <2>3. \A n, m \in kept : n \in left /\ n <= m => m \in left
    <3>1. SUFFICES ASSUME NEW n \in kept, NEW m \in kept, n \in left, n <= m PROVE m \in left
      OBVIOUS
    <3>2. from(m) \in SUBSET from(n) /\ from(n) \in SUBSET DOMAIN log
      BY <2>1, <3>1
    <3>3. WithinLimits(from(n))
      BY <2>2, <3>1
    <3> HIDE DEF from
    <3>4. WithinLimits(from(m))
      BY <2>1, <3>2, <3>3, FewerFit
    <3>5. QED
      BY <2>2, <3>4
  <2>4. WithinLimits(left)
    <3>1. left \in SUBSET kept /\ left \subseteq Nat
      BY <2>1
    <3>2. CASE left = {}
      <4>1. Bytes({}) = 0 /\ Cardinality({}) = 0
        <5>1. UNION {{n} \X (1 .. Size[log[n]]) : n \in {}} = {}
          OBVIOUS
        <5>2. QED
          BY <5>1, FS_EmptySet DEF Bytes
      <4> HIDE DEF left
      <4>2. QED
        BY <3>2, <4>1, SpoolAssumption DEF WithinLimits
    <3>3. CASE left # {}
      <4>1. PICK n \in left : \A m \in left : n <= m
        <5> HIDE DEF left
        <5>1. QED
          BY <3>1, <3>3, LeastNumber
      <4>2. left \in SUBSET from(n)
        BY <4>1
      <4>3. WithinLimits(from(n)) /\ from(n) \in SUBSET DOMAIN log
        BY <2>1, <2>2
      <4> HIDE DEF left, from
      <4>4. QED
        BY <2>1, <4>2, <4>3, FewerFit
    <3>4. QED
      BY <3>2, <3>3
  <2>5. ASSUME NEW n \in DOMAIN files \ left, ~ (now - files[n].mtime > MaxAge)
        PROVE  /\ \A m \in left : m > n
               /\ ~ WithinLimits({m \in DOMAIN files : m >= n /\ now - files[m].mtime <= MaxAge})
    <3>1. n \in kept /\ n \notin left
      BY <2>5 DEF Expired
    <3>2. \A m \in left : m > n
      <4>1. SUFFICES ASSUME NEW m \in left, ~ (m > n) PROVE FALSE
        OBVIOUS
      <4>2. m \in kept /\ m <= n
        BY <2>1, <3>1, <4>1
      <4>3. QED
        BY <2>3, <3>1, <4>1, <4>2
    <3>3. \A m \in DOMAIN files : m \in kept <=> now - files[m].mtime <= MaxAge
      <4>1. SUFFICES ASSUME NEW m \in DOMAIN files
                     PROVE  m \in kept <=> now - files[m].mtime <= MaxAge
        OBVIOUS
      <4>2. PICK k \in Nat : k = files[m].mtime
        BY <2>1
      <4>3. m \in Expired <=> now - k > MaxAge
        BY <4>2 DEF Expired
      <4>4. now - k > MaxAge <=> ~ (now - k <= MaxAge)
        BY <2>1, SpoolAssumption
      <4>5. QED
        BY <4>2, <4>3, <4>4
    <3>4. from(n) = {m \in DOMAIN files : m >= n /\ now - files[m].mtime <= MaxAge}
      BY <3>3
    <3>5. QED
      BY <2>2, <3>1, <3>2, <3>4
  <2> HIDE DEF left
  <2>6. QED
    BY <2>1, <2>4, <2>5
<1>2. Inv /\ [SpoolNext]_spoolVars => [NewestStay]_spoolVars
  BY <1>1
<1>3. QED
  BY <1>2, InitInv, StepInv, PTL DEF SpoolSpec, CleanupKeepsTheNewest

===============================================================================
