-------------------------- MODULE HookDeliveryProofs --------------------------
(***************************************************************************)
(* Theorem about the delivery of hook events, for every number of senders  *)
(* of each kind, every limit of the hook spool and every number of deaths  *)
(* of the daemon.                                                          *)
(***************************************************************************)
EXTENDS HookDelivery, TLAPS

SendersDiffer ==
  Scripts \cap Plugins = {} /\ Scripts \cap Commands = {} /\ Plugins \cap Commands = {}

-------------------------------------------------------------------------------
(* The reasons each kind of sender may lose its event for.                   *)
Excuses(s) ==
  IF s \in Scripts THEN {"half", "refused", "evicted"}
  ELSE IF s \in Plugins THEN {"refused", "unread", "full", "swept", "evicted"}
  ELSE {"refused", "failed"}

Fates == {"none", "half", "refused", "evicted", "unread", "full", "swept", "failed"}

SenderStates == {"idle", "opened", "spool", "rename", "local", "done"}
File == [by : Scripts \cup Plugins, whole : BOOLEAN, mtime : Nat]

(* The daemon never has a name in its hands whose file another gave up: it   *)
(* alone removes files, and one at a time.  Only a shell script still        *)
(* writing has half a file.                                                  *)
FilesInv ==
  /\ sender \in [Senders -> SenderStates]
  /\ requests \subseteq Plugins
  /\ spool \in [DOMAIN spool -> File]
  /\ tmps \in [DOMAIN tmps -> Plugins]
  /\ DOMAIN spool \cap DOMAIN tmps = {}
  /\ batch \cup reading \subseteq DOMAIN spool
  /\ now \in Nat
  /\ \A n \in DOMAIN spool :
       ~ spool[n].whole => spool[n].by \in Scripts /\ sender[spool[n].by] = "opened"

LEMMA ExcusesAreFates == \A s : Excuses(s) \subseteq Fates
BY DEF Excuses, Fates

(* The event is stored, or its loss has a reason.                            *)
Settled(s) == s \in stored \/ fate[s] \in Excuses(s)

(* The same after a step, of a sender named before it.                       *)
SettledNext(s) == s \in stored' \/ fate'[s] \in Excuses(s)

HasFile(s) == \E n \in DOMAIN spool : spool[n].by = s
Kept(s)    == Settled(s) \/ s \in requests \/ HasFile(s)

(* What a sender that is done, or writing, handed over is somewhere or has   *)
(* an excuse; what the daemon is about to remove it has dealt with.          *)
HookInv ==
  /\ FilesInv
  /\ fate \in [Senders -> Fates]
  /\ \A n \in reading : Settled(spool[n].by)
  /\ \A s \in Senders : sender[s] \in {"done", "opened"} => Kept(s)

(* The daemon removes a file before it takes up the next, so what it is      *)
(* about to remove is not among what it has still to read.                   *)
ReadingApart == batch \cap reading = {}

LEMMA HookInit == Init => HookInv
<1> SUFFICES ASSUME Init PROVE HookInv
  OBVIOUS
<1>1. DOMAIN spool = {} /\ DOMAIN tmps = {}
  BY DEF Init
<1>2. spool \in [DOMAIN spool -> File] /\ tmps \in [DOMAIN tmps -> Plugins]
  BY DEF Init
<1>3. FilesInv
  BY <1>1, <1>2 DEF Init, FilesInv, SenderStates
<1>4. QED
  BY <1>3 DEF Init, HookInv, Fates

(* Nothing is taken back: an event stored stays so, and an excuse is only    *)
(* replaced by another.                                                      *)
FatesGoOn == /\ fate' \in [Senders -> Fates]
             /\ stored \subseteq stored'
             /\ \A s \in Senders : fate'[s] = fate[s] \/ fate'[s] \in Excuses(s)

LEMMA SettledStays ==
  ASSUME FatesGoOn, NEW s \in Senders, Settled(s)
  PROVE  Settled(s)'
BY DEF FatesGoOn, Settled, Excuses

LEMMA FileOf ==
  ASSUME FilesInv, NEW n \in DOMAIN spool
  PROVE  spool[n] \in File /\ spool[n].by \in Scripts \cup Plugins /\ spool[n].by \in Senders
BY DEF FilesInv, File, Senders

(* A step that removes no file or request but of those it settles, and after *)
(* which whoever becomes done has handed something over.                     *)
LEMMA Hands ==
  ASSUME HookInv, FilesInv', FatesGoOn,
         reading' = {} \/ UNCHANGED <<reading, spool>>,
         \A n \in DOMAIN spool :
           SettledNext(spool[n].by) \/ (n \in DOMAIN spool' /\ spool'[n].by = spool[n].by),
         \A s \in requests : s \in requests' \/ Settled(s)',
         \A s \in Senders : sender'[s] \in {"done", "opened"} =>
                              sender[s] \in {"done", "opened"} \/ Kept(s)'
  PROVE  HookInv'
<1>1. \A n \in reading' : Settled(spool[n].by)'
  BY SettledStays, FileOf DEF HookInv, FilesInv
<1>2. ASSUME NEW s \in Senders, sender'[s] \in {"done", "opened"} PROVE Kept(s)'
  <2>1. CASE Kept(s)
    <3>1. CASE Settled(s)
      BY <3>1, SettledStays DEF Kept
    <3>2. CASE s \in requests
      BY <3>2 DEF Kept
    <3>3. CASE HasFile(s)
      BY <3>3 DEF Kept, HasFile, Settled, SettledNext
    <3>4. QED
      BY <2>1, <3>1, <3>2, <3>3 DEF Kept
  <2>2. QED
    BY <1>2, <2>1 DEF HookInv
<1>3. QED
  BY <1>1, <1>2 DEF HookInv, FatesGoOn

-------------------------------------------------------------------------------
(* The senders.                                                              *)
LEMMA GoesTo ==
  ASSUME FilesInv, NEW s \in Senders, NEW where \in SenderStates, Goes(s, where)
  PROVE  /\ sender' \in [Senders -> SenderStates]
         /\ sender'[s] = where
         /\ \A r \in Senders : r # s => sender'[r] = sender[r]
BY DEF FilesInv, Goes

LEMMA OpenKeeps ==
  ASSUME HookInv, SendersDiffer, NEW s \in Scripts, ScriptOpen(s)
  PROVE  HookInv'
<1>1. PICK n \in Names : Free(n) /\ spool' = With(spool, {n}, [by |-> s, whole |-> FALSE, mtime |-> now])
  BY DEF ScriptOpen
<1> DEFINE new == [by |-> s, whole |-> FALSE, mtime |-> now]
<1>2. new \in File /\ new.by = s
  BY DEF File, HookInv, FilesInv
<1> HIDE DEF new
<1>3. /\ DOMAIN spool' = DOMAIN spool \cup {n}
      /\ \A m \in DOMAIN spool : spool'[m] = spool[m]
      /\ spool'[n] = new
      /\ spool' \in [DOMAIN spool \cup {n} -> File]
  BY <1>1, <1>2, FileOf DEF Free, HookInv, FilesInv, new, With
<1>4. s \in Senders /\ Goes(s, "opened") /\ sender[s] = "idle"
      /\ UNCHANGED <<up, batch, reading, now, crashes, requests, tmps, stored, fate>>
  BY DEF ScriptOpen, DaemonSame, Senders
<1>5. sender' \in [Senders -> SenderStates] /\ sender'[s] = "opened"
      /\ \A r \in Senders : r # s => sender'[r] = sender[r]
  BY <1>4, GoesTo DEF HookInv, SenderStates
<1>6. ASSUME NEW m \in DOMAIN spool', ~ spool'[m].whole
      PROVE  spool'[m].by \in Scripts /\ sender'[spool'[m].by] = "opened"
  BY <1>2, <1>3, <1>5, <1>6, FileOf DEF HookInv, FilesInv
<1>7. FilesInv'
  BY <1>1, <1>3, <1>4, <1>5, <1>6 DEF HookInv, FilesInv, Free
<1>8. FatesGoOn
  BY <1>4 DEF FatesGoOn, HookInv
<1>9. Kept(s)'
  BY <1>2, <1>3 DEF Kept, HasFile
<1>10. \A m \in reading' : Settled(spool[m].by)'
  BY <1>3, <1>4 DEF HookInv, FilesInv, Settled
<1>11. ASSUME NEW r \in Senders, sender'[r] \in {"done", "opened"} PROVE Kept(r)'
  <2>1. CASE r = s
    BY <1>9, <2>1
  <2>2. CASE r # s
    <3>1. Kept(r)
      BY <1>5, <1>11, <2>2 DEF HookInv
    <3>2. HasFile(r) => HasFile(r)'
      BY <1>3 DEF HasFile
    <3>3. QED
      BY <1>4, <3>1, <3>2 DEF Kept, Settled
  <2>3. QED
    BY <2>1, <2>2
<1>12. QED
  BY <1>4, <1>7, <1>10, <1>11 DEF HookInv

(* Whoever writes to a file leaves its name and its sender.                  *)
LEMMA WriteKeeps ==
  ASSUME HookInv, SendersDiffer, NEW s \in Scripts, ScriptWrite(s)
  PROVE  HookInv'
<1> DEFINE written(n) == [spool[n] EXCEPT !.whole = TRUE, !.mtime = now]
<1>1. \A n \in DOMAIN spool : written(n) \in File /\ written(n).by = spool[n].by /\ written(n).whole
  BY FileOf DEF File, HookInv, FilesInv
<1>2. spool' = [n \in DOMAIN spool |-> IF spool[n].by = s THEN written(n) ELSE spool[n]]
  BY DEF ScriptWrite
<1> HIDE DEF written
<1>3. /\ DOMAIN spool' = DOMAIN spool
      /\ \A n \in DOMAIN spool : spool'[n] = IF spool[n].by = s THEN written(n) ELSE spool[n]
  BY <1>2
<1>4. /\ \A n \in DOMAIN spool : spool'[n] \in File /\ spool'[n].by = spool[n].by
      /\ \A n \in DOMAIN spool : ~ spool'[n].whole => spool[n].by # s /\ ~ spool[n].whole
  BY <1>1, <1>3, FileOf DEF HookInv
<1>5. s \in Senders /\ Goes(s, "done") /\ sender[s] = "opened"
      /\ UNCHANGED <<up, batch, reading, now, crashes, requests, tmps, stored, fate>>
  BY DEF ScriptWrite, DaemonSame, Senders
<1>6. sender' \in [Senders -> SenderStates] /\ sender'[s] = "done"
      /\ \A r \in Senders : r # s => sender'[r] = sender[r]
  BY <1>5, GoesTo DEF HookInv, SenderStates
<1>7. spool' \in [DOMAIN spool' -> File]
  BY <1>2, <1>3, <1>4
<1>8. \A n \in DOMAIN spool' : ~ spool'[n].whole => spool'[n].by \in Scripts /\ sender'[spool'[n].by] = "opened"
  BY <1>3, <1>4, <1>6, FileOf DEF HookInv, FilesInv
<1>9. FilesInv'
  BY <1>3, <1>5, <1>6, <1>7, <1>8 DEF HookInv, FilesInv
<1>10. ASSUME NEW r \in Senders, sender'[r] \in {"done", "opened"} PROVE Kept(r)'
  <2>1. Kept(r)
    BY <1>5, <1>6, <1>10 DEF HookInv
  <2>2. HasFile(r) => HasFile(r)'
    BY <1>3, <1>4 DEF HasFile
  <2>3. QED
    BY <1>5, <2>1, <2>2 DEF Kept, Settled
<1>11. \A n \in reading' : Settled(spool[n].by)'
  BY <1>3, <1>4, <1>5 DEF HookInv, FilesInv, Settled
<1>12. QED
  BY <1>5, <1>9, <1>10, <1>11 DEF HookInv

(* A sender that is no script moves and leaves the files alone.              *)
LEMMA MoveKeeps ==
  ASSUME HookInv, SendersDiffer, NEW s \in Senders \ Scripts, NEW where \in SenderStates,
         Goes(s, where), FatesGoOn, requests \subseteq requests', requests' \subseteq Plugins,
         DaemonSame, UNCHANGED spool,
         tmps' \in [DOMAIN tmps' -> Plugins], DOMAIN spool \cap DOMAIN tmps' = {},
         where \in {"done", "opened"} => Kept(s)'
  PROVE  HookInv'
<1>1. /\ sender' \in [Senders -> SenderStates] /\ sender'[s] = where
      /\ \A r \in Senders : r # s => sender'[r] = sender[r]
  BY GoesTo DEF HookInv
<1>2. \A n \in DOMAIN spool : ~ spool[n].whole => spool[n].by # s /\ spool[n].by \in Senders
  BY FileOf DEF HookInv, FilesInv
<1>3. FilesInv'
  BY <1>1, <1>2 DEF HookInv, FilesInv, DaemonSame
<1>4. QED
  BY <1>1, <1>3, Hands DEF DaemonSame

LEMMA FateOne ==
  ASSUME HookInv, NEW s \in Senders, NEW why \in Excuses(s), fate' = [fate EXCEPT ![s] = why],
         UNCHANGED stored
  PROVE  FatesGoOn /\ Settled(s)'
BY ExcusesAreFates DEF HookInv, FatesGoOn, Settled

LEMMA StoreOne ==
  ASSUME HookInv, NEW s \in Senders, stored' = stored \cup {s}, UNCHANGED fate
  PROVE  FatesGoOn /\ Settled(s)'
BY DEF HookInv, FatesGoOn, Settled

LEMMA NoFate ==
  ASSUME HookInv, UNCHANGED <<stored, fate>>
  PROVE  FatesGoOn
BY DEF HookInv, FatesGoOn

LEMMA PluginKeeps ==
  ASSUME HookInv, SendersDiffer, NEW s \in Plugins, PostToSocket(s) \/ SpoolToDisk(s)
  PROVE  HookInv'
<1>1. s \in Senders \ Scripts
  BY DEF SendersDiffer, Senders
<1>t. tmps \in [DOMAIN tmps -> Plugins] /\ DOMAIN spool \cap DOMAIN tmps = {} /\ requests \subseteq Plugins
  BY DEF HookInv, FilesInv
<1>2. CASE PostToSocket(s)
  <2>1. /\ DaemonSame /\ UNCHANGED <<spool, tmps, stored, fate>>
        /\ \E w \in {"done", "spool"} : Goes(s, w) /\ (w = "done" => s \in requests')
        /\ requests' \in {requests, requests \cup {s}}
    BY <1>2 DEF PostToSocket
  <2>2. PICK w \in {"done", "spool"} : Goes(s, w) /\ (w = "done" => s \in requests')
    BY <2>1
  <2>3. w \in {"done", "opened"} => Kept(s)'
    BY <2>2 DEF Kept
  <2>4. QED
    BY <1>1, <1>t, <2>1, <2>2, <2>3, NoFate, MoveKeeps DEF SenderStates
<1>3. CASE SpoolToDisk(s)
  <2>1. DaemonSame /\ UNCHANGED <<requests, spool, stored>>
    BY <1>3 DEF SpoolToDisk
  <2>2. CASE Goes(s, "done") /\ fate' = [fate EXCEPT ![s] = "full"] /\ UNCHANGED tmps
    <3>1. "full" \in Excuses(s)
      BY DEF SendersDiffer, Excuses
    <3>2. FatesGoOn /\ Settled(s)'
      BY <1>1, <2>1, <2>2, <3>1, FateOne
    <3>3. QED
      BY <1>1, <1>t, <2>1, <2>2, <3>2, MoveKeeps DEF SenderStates, Kept
  <2>3. CASE Goes(s, "rename") /\ UNCHANGED fate /\ \E n \in Names : Free(n) /\ tmps' = With(tmps, {n}, s)
    <3>1. PICK n \in Names : Free(n) /\ tmps' = With(tmps, {n}, s)
      BY <2>3
    <3>2. DOMAIN tmps' = DOMAIN tmps \cup {n} /\ tmps' \in [DOMAIN tmps \cup {n} -> Plugins]
      BY <1>t, <3>1 DEF With, Free
    <3>3. tmps' \in [DOMAIN tmps' -> Plugins] /\ DOMAIN spool \cap DOMAIN tmps' = {}
      BY <1>t, <3>1, <3>2 DEF Free
    <3>4. QED
      BY <1>1, <1>t, <2>1, <2>3, <3>3, NoFate, MoveKeeps DEF SenderStates
  <2>4. QED
    BY <1>3, <2>2, <2>3 DEF SpoolToDisk
<1>4. QED
  BY <1>2, <1>3

LEMMA RenameKeeps ==
  ASSUME HookInv, SendersDiffer, NEW s \in Plugins, RenameTmp(s)
  PROVE  HookInv'
<1> DEFINE mine == {n \in DOMAIN tmps : tmps[n] = s}
           new  == [by |-> s, whole |-> TRUE, mtime |-> now]
<1>1. s \in Senders \ Scripts /\ new \in File /\ new.by = s /\ new.whole
  BY DEF SendersDiffer, Senders, File, HookInv, FilesInv
<1>2. /\ Goes(s, "done") /\ DaemonSame /\ UNCHANGED <<requests, stored>>
      /\ spool' = With(spool, mine, new)
      /\ tmps' = Without(tmps, mine)
      /\ fate' = IF mine = {} THEN [fate EXCEPT ![s] = "swept"] ELSE fate
  BY DEF RenameTmp
<1> HIDE DEF new
<1>3. mine \cap DOMAIN spool = {} /\ mine \subseteq DOMAIN tmps
  BY DEF HookInv, FilesInv
<1> HIDE DEF mine
<1>4. /\ DOMAIN spool' = mine \cup DOMAIN spool
      /\ \A n \in mine : spool'[n] = new
      /\ \A n \in DOMAIN spool : spool'[n] = spool[n]
      /\ spool' \in [mine \cup DOMAIN spool -> File]
  BY <1>1, <1>2, <1>3, FileOf DEF HookInv, FilesInv, With
<1>5. DOMAIN tmps' = DOMAIN tmps \ mine /\ tmps' \in [DOMAIN tmps \ mine -> Plugins]
  BY <1>2 DEF Without, Restrict, HookInv, FilesInv
<1>6. /\ sender' \in [Senders -> SenderStates] /\ sender'[s] = "done"
      /\ \A r \in Senders : r # s => sender'[r] = sender[r]
  BY <1>1, <1>2, GoesTo DEF HookInv, SenderStates
<1>7. \A n \in DOMAIN spool : ~ spool[n].whole => spool[n].by # s /\ spool[n].by \in Senders
  BY <1>1, FileOf DEF HookInv, FilesInv
<1>8. \A n \in DOMAIN spool' : ~ spool'[n].whole => spool'[n].by \in Scripts /\ sender'[spool'[n].by] = "opened"
  BY <1>1, <1>4, <1>6, <1>7 DEF HookInv, FilesInv
<1>9. FilesInv'
  BY <1>2, <1>3, <1>4, <1>5, <1>6, <1>8 DEF HookInv, FilesInv, DaemonSame
<1>10. FatesGoOn /\ Kept(s)'
  <2>1. CASE mine = {}
    <3>1. "swept" \in Excuses(s)
      BY DEF SendersDiffer, Excuses
    <3>2. QED
      BY <1>1, <1>2, <2>1, <3>1, FateOne DEF Kept
  <2>2. CASE mine # {}
    <3>1. HasFile(s)'
      BY <1>1, <1>4, <2>2 DEF HasFile
    <3>2. QED
      BY <1>2, <2>2, <3>1, NoFate DEF Kept
  <2>3. QED
    BY <2>1, <2>2
<1>11. \A n \in reading' : Settled(spool[n].by)'
  BY <1>2, <1>4, <1>10, SettledStays, FileOf DEF HookInv, FilesInv, DaemonSame
<1>12. ASSUME NEW r \in Senders, sender'[r] \in {"done", "opened"} PROVE Kept(r)'
  <2>1. CASE r # s
    <3>1. Kept(r)
      BY <1>6, <1>12, <2>1 DEF HookInv
    <3>2. HasFile(r) => HasFile(r)'
      BY <1>4 DEF HasFile
    <3>3. QED
      BY <1>2, <1>10, <3>1, <3>2, SettledStays DEF Kept
  <2>2. QED
    BY <1>10, <2>1
<1>13. QED
  BY <1>9, <1>10, <1>11, <1>12 DEF HookInv, FatesGoOn

LEMMA CommandKeeps ==
  ASSUME HookInv, SendersDiffer, NEW s \in Commands, IngestHook(s) \/ IngestHookLocally(s)
  PROVE  HookInv'
<1>1. s \in Senders \ Scripts /\ "refused" \in Excuses(s) /\ "failed" \in Excuses(s)
  BY DEF SendersDiffer, Senders, Excuses
<1>2. DaemonSame /\ UNCHANGED <<requests, spool, tmps>>
  BY DEF IngestHook, IngestHookLocally
<1>3. \/ (Goes(s, "done") \/ Goes(s, "local")) /\ stored' = stored \cup {s} /\ UNCHANGED fate
      \/ Goes(s, "done") /\ UNCHANGED stored /\ \E why \in {"refused", "failed"} : fate' = [fate EXCEPT ![s] = why]
      \/ Goes(s, "local") /\ UNCHANGED <<stored, fate>>
  BY DEF IngestHook, IngestHookLocally
<1>4. FatesGoOn /\ (Settled(s)' \/ Goes(s, "local"))
  BY <1>1, <1>3, StoreOne, FateOne, NoFate
<1>5. PICK w \in {"done", "local"} : Goes(s, w) /\ (w = "done" => Settled(s)')
  <2>1. CASE Goes(s, "local")
    BY <2>1
  <2>2. CASE ~ Goes(s, "local")
    BY <1>3, <1>4, <2>2
  <2>3. QED
    BY <2>1, <2>2
<1>6. w \in {"done", "opened"} => Kept(s)'
  BY <1>5 DEF Kept
<1>t. tmps' \in [DOMAIN tmps' -> Plugins] /\ DOMAIN spool \cap DOMAIN tmps' = {} /\ requests \subseteq Plugins
  BY <1>2 DEF HookInv, FilesInv
<1>7. QED
  BY <1>1, <1>2, <1>4, <1>5, <1>6, <1>t, MoveKeeps DEF SenderStates

-------------------------------------------------------------------------------
(* The daemon.                                                               *)
LEMMA HandleKeeps ==
  ASSUME HookInv, SendersDiffer, NEW s \in Plugins, HandleHook(s)
  PROVE  HookInv'
<1>1. s \in Senders /\ "refused" \in Excuses(s)
  BY DEF SendersDiffer, Senders, Excuses
<1>2. FatesGoOn /\ Settled(s)'
  BY <1>1, StoreOne, FateOne DEF HandleHook
<1>3. requests' = requests \ {s} /\ UNCHANGED <<sender, spool, tmps, up, batch, reading, now, crashes>>
  BY DEF HandleHook
<1>4. FilesInv'
  BY <1>3 DEF HookInv, FilesInv
<1>5. QED
  BY <1>2, <1>3, <1>4, Hands

LEMMA GivenUpSettles ==
  ASSUME HookInv, SendersDiffer, NEW N \in SUBSET DOMAIN spool, NEW why,
         \A n \in N : why \in Excuses(spool[n].by), why \in Fates,
         GivenUp(N, why), stored \subseteq stored'
  PROVE  FatesGoOn /\ \A n \in N : SettledNext(spool[n].by)
<1>1. fate' = [s \in Senders |-> IF \E n \in N : spool[n].by = s THEN why ELSE fate[s]]
  BY DEF GivenUp
<1>2. FatesGoOn
  BY <1>1 DEF FatesGoOn, HookInv
<1>3. ASSUME NEW n \in N PROVE SettledNext(spool[n].by)
  <2>1. spool[n].by \in Senders
    BY FileOf DEF HookInv
  <2>2. fate'[spool[n].by] = why
    BY <1>1, <2>1
  <2>3. QED
    BY <2>2 DEF SettledNext
<1>4. QED
  BY <1>2, <1>3

LEMMA ListKeeps ==
  ASSUME HookInv, ListHookSpool
  PROVE  HookInv'
<1>1. batch' \subseteq DOMAIN spool
      /\ UNCHANGED <<sender, requests, spool, tmps, stored, up, reading, fate, now, crashes>>
  BY DEF ListHookSpool, Oldest
<1>2. FilesInv'
  BY <1>1 DEF HookInv, FilesInv
<1>3. QED
  BY <1>1, <1>2 DEF HookInv, Settled, Kept, HasFile

LEMMA IngestFileKeeps ==
  ASSUME HookInv, SendersDiffer, NEW n, IngestFile(n)
  PROVE  HookInv'
<1>1. /\ n \in batch /\ n \in DOMAIN spool /\ batch' = batch \ {n} /\ reading' = {n}
      /\ UNCHANGED <<sender, requests, spool, tmps, up, now, crashes>>
  BY DEF IngestFile, HookInv, FilesInv
<1>2. spool[n].by \in Senders /\ "refused" \in Excuses(spool[n].by)
      /\ (~ spool[n].whole => "half" \in Excuses(spool[n].by))
  BY <1>1, FileOf DEF HookInv, FilesInv, Excuses
<1>3. \/ stored' = stored \cup {spool[n].by} /\ UNCHANGED fate
      \/ UNCHANGED stored /\ \E why \in {"half", "refused"} :
           why \in Excuses(spool[n].by) /\ GivenUp({n}, why)
  BY <1>1, <1>2 DEF IngestFile
<1>4. FatesGoOn /\ SettledNext(spool[n].by)
  <2>1. CASE stored' = stored \cup {spool[n].by} /\ UNCHANGED fate
    BY <1>2, <2>1 DEF HookInv, FatesGoOn, SettledNext
  <2>2. ASSUME UNCHANGED stored, NEW why \in {"half", "refused"},
               why \in Excuses(spool[n].by), GivenUp({n}, why)
        PROVE  FatesGoOn /\ SettledNext(spool[n].by)
    <3>1. {n} \in SUBSET DOMAIN spool /\ why \in Fates /\ \A m \in {n} : why \in Excuses(spool[m].by)
      BY <1>1, <2>2 DEF Fates
    <3>2. FatesGoOn /\ \A m \in {n} : SettledNext(spool[m].by)
      BY <2>2, <3>1, GivenUpSettles
    <3>3. QED
      BY <3>2
  <2>3. QED
    BY <1>3, <2>1, <2>2
<1>5. FilesInv'
  BY <1>1 DEF HookInv, FilesInv
<1>6. \A m \in reading' : Settled(spool[m].by)'
  BY <1>1, <1>4 DEF Settled, SettledNext
<1>7. ASSUME NEW s \in Senders, sender'[s] \in {"done", "opened"} PROVE Kept(s)'
  BY <1>1, <1>4, <1>7, SettledStays DEF HookInv, Kept, HasFile
<1>8. QED
  BY <1>4, <1>5, <1>6, <1>7 DEF HookInv, FatesGoOn

(* What leaves the directory has been dealt with.                            *)
LEMMA FilesGo ==
  ASSUME HookInv, FatesGoOn, NEW gone \in SUBSET DOMAIN spool, spool' = Without(spool, gone),
         \A n \in gone : SettledNext(spool[n].by),
         reading' = {}, batch' \subseteq batch \ gone, UNCHANGED <<sender, requests, now>>,
         tmps' \in [DOMAIN tmps' -> Plugins], DOMAIN tmps' \subseteq DOMAIN tmps
  PROVE  HookInv'
<1>1. /\ DOMAIN spool' = DOMAIN spool \ gone
      /\ \A n \in DOMAIN spool \ gone : spool'[n] = spool[n]
      /\ spool' \in [DOMAIN spool \ gone -> File]
  BY FileOf DEF Without, Restrict, HookInv, FilesInv
<1>2. FilesInv'
  BY <1>1 DEF HookInv, FilesInv
<1>3. \A n \in DOMAIN spool : SettledNext(spool[n].by) \/ (n \in DOMAIN spool' /\ spool'[n].by = spool[n].by)
  BY <1>1
<1>4. QED
  BY <1>2, <1>3, Hands

LEMMA RemoveKeeps ==
  ASSUME HookInv, RemoveFile, ReadingApart
  PROVE  HookInv'
<1>1. /\ reading' = {} /\ spool' = Without(spool, reading)
      /\ UNCHANGED <<sender, requests, tmps, stored, up, batch, fate, now, crashes>>
  BY DEF RemoveFile
<1>2. FatesGoOn
  BY <1>1, NoFate
<1>3. \A n \in reading : SettledNext(spool[n].by)
  BY <1>1 DEF HookInv, Settled, SettledNext
<1>4. reading \in SUBSET DOMAIN spool /\ tmps' \in [DOMAIN tmps' -> Plugins] /\ DOMAIN tmps' \subseteq DOMAIN tmps
  BY <1>1 DEF HookInv, FilesInv
<1>5. QED
  BY <1>1, <1>2, <1>3, <1>4, FilesGo DEF ReadingApart

LEMMA CleanupKeeps ==
  ASSUME HookInv, SendersDiffer, CleanupHookSpool
  PROVE  HookInv'
<1> DEFINE old  == {n \in DOMAIN spool : now - spool[n].mtime > MaxAge}
           kept == DOMAIN spool \ old
           gone == old \cup Oldest(kept, Cardinality(kept) - MaxFiles)
<1>1. /\ spool' = Without(spool, gone) /\ tmps' = <<>> /\ GivenUp(gone, "evicted")
      /\ batch = {} /\ reading = {}
      /\ UNCHANGED <<sender, requests, stored, up, batch, reading, now, crashes>>
  BY DEF CleanupHookSpool, Idle
<1>2. gone \in SUBSET DOMAIN spool
  BY DEF Oldest
<1> HIDE DEF gone
<1>3. \A n \in gone : "evicted" \in Excuses(spool[n].by)
  BY <1>2, FileOf DEF HookInv, Excuses
<1>4. FatesGoOn /\ \A n \in gone : SettledNext(spool[n].by)
  BY <1>1, <1>2, <1>3, GivenUpSettles DEF Fates
<1>5. tmps' \in [DOMAIN tmps' -> Plugins] /\ DOMAIN tmps' \subseteq DOMAIN tmps
  BY <1>1
<1>6. QED
  BY <1>1, <1>2, <1>4, <1>5, FilesGo

LEMMA CrashKeeps ==
  ASSUME HookInv, SendersDiffer, Crash
  PROVE  HookInv'
<1>1. /\ batch' = {} /\ reading' = {} /\ requests' = {}
      /\ fate' = [s \in Senders |-> IF s \in requests THEN "unread" ELSE fate[s]]
      /\ UNCHANGED <<sender, spool, tmps, stored, now>>
  BY DEF Crash
<1>2. \A s \in requests : s \in Senders /\ "unread" \in Excuses(s)
  BY DEF HookInv, FilesInv, SendersDiffer, Senders, Excuses
<1>3. FatesGoOn /\ \A s \in requests : Settled(s)'
  <2>1. FatesGoOn
    BY <1>1, <1>2 DEF HookInv, FatesGoOn, Fates
  <2>2. ASSUME NEW s \in requests PROVE Settled(s)'
    BY <1>1, <1>2 DEF Settled, Excuses
  <2>3. QED
    BY <2>1, <2>2
<1>4. FilesInv'
  BY <1>1 DEF HookInv, FilesInv
<1>5. QED
  BY <1>1, <1>3, <1>4, Hands

-------------------------------------------------------------------------------
LEMMA ReadingInit == Init => ReadingApart
BY DEF Init, ReadingApart

LEMMA ReadingNext == ReadingApart /\ [Next]_hookVars => ReadingApart'
<1> SUFFICES ASSUME ReadingApart, [Next]_hookVars PROVE ReadingApart'
  OBVIOUS
<1> USE DEF ReadingApart
<1>1. CASE SenderStep
  BY <1>1 DEF SenderStep, ScriptOpen, ScriptWrite, PostToSocket, SpoolToDisk, RenameTmp,
              IngestHook, IngestHookLocally, DaemonSame
<1>2. CASE ProcessHookSpool
  BY <1>2 DEF ProcessHookSpool, ListHookSpool, Idle, RemoveFile, IngestFile
<1>3. CASE ~ SenderStep /\ ~ ProcessHookSpool
  BY <1>3 DEF Next, hookVars, CleanupHookSpool, HandleHook, Tick, Crash, Restart
<1>4. QED
  BY <1>1, <1>2, <1>3

LEMMA HookNext ==
  ASSUME HookInv, SendersDiffer, ReadingApart, [Next]_hookVars
  PROVE  HookInv'
<1>1. CASE SenderStep
  BY <1>1, OpenKeeps, WriteKeeps, PluginKeeps, RenameKeeps, CommandKeeps DEF SenderStep
<1>2. CASE ProcessHookSpool
  BY <1>2, ListKeeps, RemoveKeeps, IngestFileKeeps DEF ProcessHookSpool
<1>3. CASE CleanupHookSpool \/ Crash \/ \E s \in Plugins : HandleHook(s)
  BY <1>3, CleanupKeeps, CrashKeeps, HandleKeeps
<1>4. CASE Tick \/ Restart \/ UNCHANGED hookVars
  <2>1. UNCHANGED <<sender, requests, spool, tmps, stored, batch, reading, fate>> /\ now' \in Nat
    BY <1>4 DEF Tick, Restart, hookVars, HookInv, FilesInv
  <2>2. QED
    BY <2>1 DEF HookInv, FilesInv, Settled, Kept, HasFile
<1>5. QED
  BY <1>1, <1>2, <1>3, <1>4 DEF Next

(* However many scripts, plugins and commands report events, the hook spool  *)
(* overflows, files come in any order of names and the daemon dies: an event *)
(* whose sender is done is stored, on its way, or lost for one of the        *)
(* reasons of its kind of sender (daemon/server_spool.go, server_http.go,    *)
(* hook_ingest.go and the scripts' templates).                               *)
THEOREM HookLossesExplained ==
  ASSUME SendersDiffer
  PROVE  Spec => []LossIsExplained
<1>1. HookInv => LossIsExplained
  <2> SUFFICES ASSUME HookInv PROVE LossIsExplained
    OBVIOUS
  <2>1. ASSUME NEW s \in Senders PROVE Delivered(s) \/ fate[s] \in Excuses(s)
    <3>1. CASE sender[s] = "done" /\ HasFile(s)
      <4>1. PICK n \in DOMAIN spool : spool[n].by = s
        BY <3>1 DEF HasFile
      <4>2. spool[n].whole
        BY <3>1, <4>1 DEF HookInv, FilesInv
      <4>3. QED
        BY <4>1, <4>2 DEF Delivered, InFile
    <3>2. CASE sender[s] # "done" \/ ~ HasFile(s)
      BY <3>2 DEF HookInv, Kept, Settled, Delivered
    <3>3. QED
      BY <3>1, <3>2
  <2>2. /\ \A s \in Scripts : Excuses(s) = {"half", "refused", "evicted"}
        /\ \A s \in Plugins : Excuses(s) = {"refused", "unread", "full", "swept", "evicted"}
        /\ \A s \in Commands : Excuses(s) = {"refused", "failed"}
    BY DEF SendersDiffer, Excuses
  <2>3. QED
    BY <2>1, <2>2 DEF LossIsExplained, Senders
<1>2. HookInv /\ ReadingApart /\ [Next]_hookVars => HookInv'
  BY HookNext
<1>3. QED
  BY <1>1, <1>2, HookInit, ReadingInit, ReadingNext, PTL DEF Spec

===============================================================================
