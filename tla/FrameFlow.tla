------------------------------- MODULE FrameFlow -------------------------------
(***************************************************************************)
(* How data reaches the terminal dashboard.  The broadcaster reads the     *)
(* daemon's read model every few seconds and sends a frame when it looks   *)
(* different from the last one; a refresh, asked for by the user, a timer  *)
(* or a new time window, polls and reads in a goroutine of its own.  The   *)
(* dispatcher numbers frames: a refresh when it starts, a broadcast frame  *)
(* after its read.  Each sender blocks until Update takes its message.     *)
(* Data is a version.  Version 0 is the templates of accounts without any  *)
(* data, and None no snapshot at all.                                      *)
(***************************************************************************)
EXTENDS Integers, FiniteSets

CONSTANTS
  Windows,     (* time windows                                               *)
  MaxData,     (* bound: the last version                                    *)
  Looks,       (* Looks[v]: what snapshotFingerprint sees of version v       *)
  WarmUps,     (* warmUp's further attempts (8)                              *)
  MaxInFlight, (* bound: refreshes under way when the timer starts one       *)
  MaxActs      (* bound: what the user does, and the daemon's going away     *)

None == -1

ASSUME FrameAssumption ==
  /\ Windows # {} /\ MaxData \in Nat \ {0} /\ WarmUps \in Nat
  /\ Looks \in [0 .. MaxData -> Int]

VARIABLES
  data,        (* the newest version                                         *)
  served,      (* served[w]: what the daemon's cache answers for w           *)
  up,          (* the daemon answers                                         *)
  client,      (* ViewRuntime.client is set                                  *)
  throttled,   (* lastEnsureAttempt was less than 1.2 s ago                  *)
  lastGood,    (* ViewRuntime.lastGoodSnapshots                              *)
  bc,          (* the broadcaster: [stage, win, v, id, seen, warm]; its      *)
               (* window, version and number while it has a read under way   *)
  requests,    (* refreshes: [id, win, stage, v]                             *)
  window,      (* Model.timeWindow, and ViewRuntime.timeWindow               *)
  spinning,    (* Model.refreshing                                           *)
  pending,     (* Model.pendingRefreshRequestID; 0 is none                   *)
  lastID,      (* Model.lastSnapshotRequestID                                *)
  shown,       (* Model.snapshots: [win, v]                                  *)
  gotData,     (* Model.hasData                                              *)
  acts

daemonVars == <<data, served, up>>
runtimeVars == <<client, throttled, lastGood>>
modelVars == <<window, spinning, pending, lastID, shown, gotData>>
frameVars == <<daemonVars, runtimeVars, modelVars, bc, requests, acts>>

Ready(v) == v > 0

Acts == acts < MaxActs /\ acts' = acts + 1

FrameInit ==
  /\ data = 1 /\ up = TRUE
  /\ client = FALSE /\ throttled = FALSE /\ lastGood = [w \in Windows |-> None]
  /\ window = CHOOSE w \in Windows : TRUE
  /\ served = [w \in Windows |-> IF w = window THEN 0 ELSE 1]
  /\ bc = [stage |-> "idle", win |-> None, v |-> None, id |-> 0, seen |-> None, warm |-> WarmUps]
  /\ requests = {} /\ spinning = FALSE /\ pending = 0 /\ lastID = 0
  /\ shown = [win |-> window, v |-> None] /\ gotData = FALSE /\ acts = 0

-------------------------------------------------------------------------------
(* The daemon.                                                               *)
DataChanges ==
  /\ data < MaxData /\ data' = data + 1
  /\ UNCHANGED <<served, up, runtimeVars, modelVars, bc, requests, acts>>
CacheRefreshed(w) ==
  /\ served[w] # data /\ served' = [served EXCEPT ![w] = data]
  /\ UNCHANGED <<data, up, runtimeVars, modelVars, bc, requests, acts>>
GoesAway ==
  /\ up /\ Acts /\ up' = FALSE
  /\ UNCHANGED <<data, served, runtimeVars, modelVars, bc, requests>>
ComesBack ==
  /\ ~ up /\ up' = TRUE
  /\ UNCHANGED <<data, served, runtimeVars, modelVars, bc, requests, acts>>

-------------------------------------------------------------------------------
(* ViewRuntime.  EnsureClient gives up at once when the last attempt is      *)
(* recent; a read that fails drops the client and tries once more.           *)
Ensured == client \/ (up /\ ~ throttled)

(* readFrame: the answer when it has usable data, else the last good one of  *)
(* the window, else the answer, which may be None.                           *)
ReadFrame(w, refresh) ==
  LET answer == IF ~ up \/ ~ Ensured THEN None ELSE IF refresh THEN data ELSE served[w]
  IN IF ~ Ready(answer) /\ lastGood[w] # None THEN lastGood[w] ELSE answer

ReadDone(w, refresh) ==
  /\ client' = (up /\ Ensured)
  /\ throttled' = (throttled \/ ~ up)
  /\ lastGood' = IF up /\ Ensured /\ Ready(ReadFrame(w, refresh))
                   THEN [lastGood EXCEPT ![w] = ReadFrame(w, refresh)] ELSE lastGood

ThrottlePasses ==
  /\ throttled /\ throttled' = FALSE
  /\ UNCHANGED <<daemonVars, client, lastGood, modelVars, bc, requests, acts>>

-------------------------------------------------------------------------------
(* The dispatcher's numbers.  Only their order matters, so the live ones are *)
(* renumbered from 1 before the next is handed out.                          *)
Live == ({lastID, pending, bc.id} \cup {r.id : r \in requests}) \ {0}
Rank(id) == IF id = 0 THEN 0 ELSE Cardinality({i \in Live : i <= id})
NextID == Cardinality(Live) + 1
Renumbered == {[r EXCEPT !.id = Rank(@)] : r \in requests}

-------------------------------------------------------------------------------
(* The broadcaster: it takes the window, reads, and during the warm-up sends *)
(* any frame, afterwards one that looks new.                                 *)
BroadcastReads ==
  /\ bc.stage = "idle" /\ bc' = [bc EXCEPT !.stage = "reading", !.win = window]
  /\ UNCHANGED <<daemonVars, runtimeVars, modelVars, requests, acts>>

Warming == bc.warm >= 0

BroadcastGot ==
  LET v == ReadFrame(bc.win, FALSE)
      warm == IF ~ Warming \/ Ready(v) THEN -1 ELSE bc.warm - 1
      look == IF v = None THEN None ELSE Looks[v]
      send == v # None /\ (Warming \/ look # bc.seen)
  IN /\ bc.stage = "reading" /\ ReadDone(bc.win, FALSE)
     /\ bc' = [stage |-> IF send THEN "read" ELSE "idle", win |-> IF send THEN bc.win ELSE None,
               v |-> IF send THEN v ELSE None, id |-> 0, warm |-> warm,
               seen |-> IF Warming \/ ~ send THEN bc.seen ELSE look]
     /\ UNCHANGED <<daemonVars, modelVars, requests, acts>>

Dispatch ==
  /\ bc.stage = "read"
  /\ bc' = [bc EXCEPT !.stage = "sending", !.id = NextID]
  /\ requests' = Renumbered /\ pending' = Rank(pending) /\ lastID' = Rank(lastID)
  /\ UNCHANGED <<daemonVars, runtimeVars, window, spinning, shown, gotData, acts>>

StartRefreshOfOldWindow(w) ==   \* mutant: asks for the window that is left
  /\ requests' = Renumbered \cup {[id |-> NextID, win |-> window, stage |-> "working", v |-> None]}
  /\ bc' = [bc EXCEPT !.id = Rank(@)] /\ lastID' = Rank(lastID)

(* A refresh: numbered when it starts, it polls and reads past the cache.    *)
StartRefresh(w) ==
  /\ requests' = Renumbered \cup {[id |-> NextID, win |-> w, stage |-> "working", v |-> None]}
  /\ bc' = [bc EXCEPT !.id = Rank(@)] /\ lastID' = Rank(lastID)

RefreshGot(r) ==
  /\ r \in requests /\ r.stage = "working"
  /\ requests' = (requests \ {r}) \cup {[r EXCEPT !.stage = "sending", !.v = ReadFrame(r.win, TRUE)]}
  /\ ReadDone(r.win, TRUE)
  /\ UNCHANGED <<daemonVars, modelVars, bc, acts>>

-------------------------------------------------------------------------------
(* The dashboard.  The user refreshes, changes the window or saves a key,    *)
(* which turns the spinner on and asks for nothing; the timer refreshes      *)
(* unless one is awaited.                                                    *)
UserRefreshes ==
  /\ Acts /\ StartRefresh(window) /\ spinning' = TRUE /\ pending' = NextID
  /\ UNCHANGED <<daemonVars, runtimeVars, window, shown, gotData>>
WindowChanges(w) ==
  /\ w # window /\ Acts /\ StartRefresh(w)
  /\ window' = w /\ spinning' = TRUE /\ pending' = NextID
  /\ UNCHANGED <<daemonVars, runtimeVars, shown, gotData>>
KeySaved ==
  /\ Acts /\ spinning' = TRUE
  /\ UNCHANGED <<daemonVars, runtimeVars, window, pending, lastID, shown, gotData, bc, requests>>
AutoRefresh ==
  /\ ~ spinning /\ Cardinality(requests) < MaxInFlight
  /\ StartRefresh(window) /\ pending' = Rank(pending)
  /\ UNCHANGED <<daemonVars, runtimeVars, window, spinning, shown, gotData, acts>>

(* handleSnapshotsMsg, one disjunct per return.                              *)
Awaited == spinning /\ pending > 0
Answers(id) == Awaited /\ id = pending
Show(win, v) == shown' = [win |-> win, v |-> v]
Seen(id) == lastID' = IF id > lastID THEN id ELSE lastID

DroppedIfOlder(win, id) == win # window \/ id < lastID   \* mutant: an awaited answer, too

Dropped(win, id) == win # window \/ (id < lastID /\ ~ Answers(id))

MeanwhileFrame(win, v, id) ==
  /\ Awaited /\ ~ Answers(id)
  /\ IF Ready(v) THEN Show(win, v) /\ Seen(id) ELSE UNCHANGED <<shown, lastID>>
  /\ UNCHANGED <<window, spinning, pending, gotData>>
Answer(win, v, id) ==
  /\ Answers(id)
  /\ IF Ready(v) THEN Show(win, v) ELSE UNCHANGED shown
  /\ spinning' = FALSE /\ pending' = 0 /\ Seen(id)
  /\ gotData' = (gotData \/ shown'.v # None)
  /\ UNCHANGED window
Unready(v) == spinning /\ ~ Awaited /\ gotData /\ ~ Ready(v) /\ UNCHANGED modelVars
PlainFrame(win, v, id) ==
  /\ ~ Awaited /\ ~ (spinning /\ gotData /\ ~ Ready(v))
  /\ Show(win, v) /\ Seen(id) /\ spinning' = FALSE /\ pending' = 0
  /\ gotData' = (gotData \/ v # None)
  /\ UNCHANGED window

HandleSnapshots(win, v, id) ==
  \/ Dropped(win, id) /\ UNCHANGED modelVars
  \/ /\ ~ Dropped(win, id)
     /\ \/ MeanwhileFrame(win, v, id) \/ Answer(win, v, id)
        \/ Unready(v) \/ PlainFrame(win, v, id)

TakeBroadcast ==
  /\ bc.stage = "sending" /\ HandleSnapshots(bc.win, bc.v, bc.id)
  /\ bc' = [bc EXCEPT !.stage = "idle", !.win = None, !.v = None, !.id = 0]
  /\ UNCHANGED <<daemonVars, runtimeVars, requests, acts>>
TakeRefresh(r) ==
  /\ r \in requests /\ r.stage = "sending" /\ HandleSnapshots(r.win, r.v, r.id)
  /\ requests' = requests \ {r}
  /\ UNCHANGED <<daemonVars, runtimeVars, bc, acts>>

Broadcast == BroadcastReads \/ BroadcastGot \/ Dispatch \/ TakeBroadcast
RefreshStep == \E r \in requests : RefreshGot(r) \/ TakeRefresh(r)

FrameNext ==
  \/ DataChanges \/ GoesAway \/ ComesBack \/ ThrottlePasses
  \/ Broadcast \/ RefreshStep \/ UserRefreshes \/ KeySaved \/ AutoRefresh
  \/ \E w \in Windows : CacheRefreshed(w) \/ WindowChanges(w)

CacheLoop == \E w \in Windows : CacheRefreshed(w)

(* Goroutines run, messages are taken, time passes and the read-model cache  *)
(* of the daemon follows the data.                                           *)
FrameFairness ==
  /\ WF_frameVars(Broadcast) /\ WF_frameVars(RefreshStep)
  /\ WF_frameVars(AutoRefresh) /\ WF_frameVars(ThrottlePasses)
  /\ WF_frameVars(CacheLoop)

FrameSpec == FrameInit /\ [][FrameNext]_frameVars
FrameFairSpec == FrameSpec /\ FrameFairness

-------------------------------------------------------------------------------
(* While the daemon answers, the dashboard ends up with the newest data of   *)
(* the window it stands on, whatever was dropped, overtaken or looked the    *)
(* same on the way -- unless a saved key has left the spinner on without a   *)
(* request, which also stops the timer (model_input.go:472).                 *)
Current == shown = [win |-> window, v |-> data]
DisplayCatchesUp == <>[]up => <>[](Current \/ (spinning /\ pending = 0))

(* The spinner never waits for a request that is lost: what is awaited is    *)
(* under way, for the window the dashboard stands on, whatever frames and    *)
(* answers were dropped, overtaken or taken instead (model_input.go:360).    *)
AwaitedIsUnderWay ==
  pending > 0 => spinning /\ \E r \in requests : r.id = pending /\ r.win = window
================================================================================
