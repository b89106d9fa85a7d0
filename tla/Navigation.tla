------------------------------ MODULE Navigation -------------------------------
(***************************************************************************)
(* Moving about the terminal dashboard: which tiles there are, which one   *)
(* the cursor is on and which screen shows it, while keys, the mouse and   *)
(* frames of the daemon arrive in any order.  The update loop takes one    *)
(* message at a time, so a step is a whole message.                        *)
(* The cursor is an index (from 0, as in the code) into the ids that pass  *)
(* the filter; frames and settings change those ids under it.  Of what is  *)
(* in a snapshot only the texts that find it are kept, by its provider or  *)
(* its status; scroll offsets and sizes are left out, and the experimental *)
(* analytics screen is off, its default.  PageStep, the wheel's steps and  *)
(* where a click lands depend on the size of the terminal and are open.    *)
(***************************************************************************)
EXTENDS Integers, FiniteSets, SequencesExt

CONSTANTS
  Ids,       (* the accounts, ordered by their names: numbers                *)
  Known,     (* those in the configuration, shown in this order              *)
  Texts,     (* non-empty filter texts                                       *)
  Named,     (* Texts -> the accounts a text finds by their names            *)
  Contents,  (* Ids -> the snapshots they may have: of each, the texts that  *)
             (* find its provider or its status                              *)
  Views,     (* the layouts besides "split", the one that differs            *)
  Steps      (* the cursor's possible steps of a page or the wheel           *)

ASSUME NavAssumption ==
  /\ Ids \in SUBSET (Nat \ {0}) /\ IsFiniteSet(Ids)
  /\ Known \in Seq(Ids) /\ Steps \in SUBSET Nat

VARIABLES
  order, enabled,       (* providerOrder, providerEnabled                    *)
  snapshots,            (* the accounts that have one -> one of their        *)
                        (* Contents                                          *)
  sortedIDs,            (* the ids of the tiles                              *)
  cursor, text, typing, (* m.cursor, m.filter.text, m.filter.active          *)
  view, mode,           (* the layout; "list" or "detail"                    *)
  over,                 (* what is over the dashboard: "help", "settings"    *)
  hasData, refreshing

navVars == <<order, enabled, snapshots, sortedIDs, cursor, text, typing, view,
             mode, over, hasData, refreshing>>

NoText == "no text"

NavInit ==
  /\ order = Known /\ enabled \in [Ids -> BOOLEAN]
  /\ snapshots = <<>> /\ sortedIDs = <<>> /\ cursor = 0
  /\ text = NoText /\ typing = FALSE
  /\ view \in Views \cup {"split"} /\ mode = "list" /\ over = "none"
  /\ hasData = FALSE /\ refreshing = FALSE

-------------------------------------------------------------------------------
(* The numbers of a set in order; what a list has of a set, in its order.    *)
Nth(S, n)    == CHOOSE x \in S : Cardinality({y \in S : y <= x}) = n
Ascending(S) == [n \in 1 .. Cardinality(S) |-> Nth(S, n)]
Among(s, S)  == LET places == Ascending({i \in DOMAIN s : s[i] \in S})
                IN  [n \in DOMAIN places |-> s[places[n]]]

(* A missing snapshot has neither provider nor status.                       *)
Passes(id) == \/ text = NoText
              \/ id \in Named[text]
              \/ id \in DOMAIN snapshots /\ text \in snapshots[id]

FilteredIDs == Among(sortedIDs, {id \in Ids : Passes(id)})
Tiles == Len(FilteredIDs)

(* With no tiles the upper limit is -1, and so is the result.                *)
Clamp(val, lo, hi) == IF val < lo THEN lo ELSE IF val > hi THEN hi ELSE val

KnownOrderNewFirst(S) == Ascending(S \ ToSet(order)) \o order   \* mutant

(* ensureSnapshotProvidersKnown                                              *)
KnownOrder(S) == order \o Ascending(S \ ToSet(order))

(* rebuildSortedIDs: the tiles in the order of the providers, and a cursor   *)
(* past the last tile on the last.                                           *)
Listed(o, e, S) ==
  Among(o, {id \in S : e[id]}) \o Ascending({id \in S \ ToSet(o) : e[id]})

CursorAsItIs(n) == cursor   \* mutant: the cursor does not follow a shorter list

CursorIn(n) == IF cursor >= n THEN (IF n = 0 THEN 0 ELSE n - 1) ELSE cursor

RebuildSortedIDs(o, e, shots) ==
  LET ids == Listed(o, e, DOMAIN shots) IN
    /\ order' = o /\ enabled' = e /\ snapshots' = shots /\ sortedIDs' = ids
    /\ cursor' = CursorIn(Len(ids))

TilesSame == UNCHANGED <<order, enabled, snapshots, sortedIDs>>
FilterSame == UNCHANGED <<text, typing>>

-------------------------------------------------------------------------------
(* handleSnapshotsMsg: a frame that is taken replaces the snapshots; the     *)
(* answer to a refresh that found nothing ends it and leaves them.           *)
Frame(shots) ==
  /\ LET R == IF DOMAIN shots = {} /\ refreshing THEN snapshots ELSE shots IN
       RebuildSortedIDs(KnownOrder(DOMAIN R), enabled, R)
  /\ hasData' = (hasData \/ DOMAIN shots # {})
  /\ refreshing' = FALSE
  /\ FilterSame /\ UNCHANGED <<view, mode, over>>

(* Another frame while a refresh is pending: the snapshots change, the list  *)
(* of tiles does not, though the filter may now pass others.                 *)
FrameBeforeAnswer(shots) ==
  /\ refreshing /\ DOMAIN shots # {} /\ snapshots' = shots
  /\ FilterSame
  /\ UNCHANGED <<order, enabled, sortedIDs, cursor, view, mode, over, hasData, refreshing>>

(* Keys reach the dashboard when nothing is over it.                         *)
OnDashboard == hasData /\ over = "none"
InList      == OnDashboard /\ ~ typing /\ mode = "list"

CursorMoves(c) ==
  /\ cursor' = c
  /\ TilesSame /\ FilterSame /\ UNCHANGED <<view, mode, over, hasData, refreshing>>

Up   == InList /\ cursor > 0 /\ CursorMoves(cursor - 1)
Down == InList /\ cursor < Tiles - 1 /\ CursorMoves(cursor + 1)

(* shift+down, shift+up in every layout, and the wheel, look for tiles       *)
(* first; pgdown and pgup in the layouts other than split do not.            *)
Jump(d) == /\ InList /\ Tiles > 0
           /\ \/ CursorMoves(Clamp(cursor + d, 0, Tiles - 1))
              \/ CursorMoves(Clamp(cursor - d, 0, Tiles - 1))
Page(d) == /\ InList /\ view # "split"
           /\ \/ CursorMoves(Clamp(cursor + d, 0, Tiles - 1))
              \/ CursorMoves(Clamp(cursor - d, 0, Tiles - 1))
Home == InList /\ view # "split" /\ CursorMoves(0)
End  == InList /\ view # "split" /\ Tiles > 0 /\ CursorMoves(Tiles - 1)

(* The mode changes and nothing else: Enter, or right but in bento; a click  *)
(* on the tile of the cursor; Esc, and a click on the header.                *)
SetMode(md) ==
  /\ mode' = md
  /\ TilesSame /\ FilterSame /\ UNCHANGED <<cursor, view, over, hasData, refreshing>>
EnterDetail == InList /\ SetMode("detail")
ExitDetail  == OnDashboard /\ ~ typing /\ mode = "detail" /\ SetMode("list")

Click(i) ==
  /\ InList /\ i \in 0 .. Tiles - 1
  /\ IF view # "split" /\ i = cursor THEN SetMode("detail") ELSE CursorMoves(i)

(* v, V, tab: the next or the last layout, which leaves the detail view.     *)
SetDashboardView(w) ==
  /\ OnDashboard /\ ~ typing
  /\ view' = w /\ mode' = "list"
  /\ TilesSame /\ FilterSame /\ UNCHANGED <<cursor, over, hasData, refreshing>>

(* "/" drops the text, whose tiles were the cursor's, and not the cursor;    *)
(* Esc and Enter put the cursor on the first tile.                           *)
StartFilter ==
  /\ InList /\ typing' = TRUE /\ text' = NoText
  /\ TilesSame /\ UNCHANGED <<cursor, view, mode, over, hasData, refreshing>>
TypeFilter(t) ==
  /\ OnDashboard /\ typing /\ text' = t
  /\ TilesSame /\ UNCHANGED <<cursor, typing, view, mode, over, hasData, refreshing>>
EndFilter(t) ==
  /\ OnDashboard /\ (typing \/ (InList /\ text # NoText))
  /\ t \in {text, NoText} /\ (t = text => typing)
  /\ typing' = FALSE /\ text' = t /\ cursor' = 0
  /\ TilesSame /\ UNCHANGED <<view, mode, over, hasData, refreshing>>

(* r, R, w and what in the settings asks for new data.                       *)
RequestRefresh ==
  /\ hasData /\ ~ refreshing /\ refreshing' = TRUE
  /\ TilesSame /\ FilterSame /\ UNCHANGED <<cursor, view, mode, over, hasData>>

(* Help and settings open over the dashboard; any key closes help.           *)
Open(what) ==
  /\ over = "none" /\ ~ typing /\ (hasData \/ what = "settings") /\ over' = what
  /\ TilesSame /\ FilterSame /\ UNCHANGED <<cursor, view, mode, hasData, refreshing>>
Close ==
  /\ over # "none" /\ over' = "none"
  /\ TilesSame /\ FilterSame /\ UNCHANGED <<cursor, view, mode, hasData, refreshing>>

(* Settings: show or hide an account, move it up or down.                    *)
SettingsSame == FilterSame /\ UNCHANGED <<view, mode, over, hasData, refreshing>>
ToggleProvider(i) ==
  /\ over = "settings" /\ i \in DOMAIN order
  /\ RebuildSortedIDs(order, [enabled EXCEPT ![order[i]] = ~ @], snapshots)
  /\ SettingsSame
MoveSelectedProvider(i) ==
  /\ over = "settings" /\ i \in DOMAIN order /\ i + 1 \in DOMAIN order
  /\ RebuildSortedIDs([order EXCEPT ![i] = order[i + 1], ![i + 1] = order[i]], enabled, snapshots)
  /\ SettingsSame

Frames == {shots \in UNION {[S -> SUBSET Texts] : S \in SUBSET Ids} :
             \A id \in DOMAIN shots : shots[id] \in Contents[id]}

SomeFrame == \E shots \in Frames : Frame(shots) \/ FrameBeforeAnswer(shots)

NavNext ==
  \/ SomeFrame
  \/ Up \/ Down \/ Home \/ End \/ \E d \in Steps : Jump(d) \/ Page(d)
  \/ EnterDetail \/ ExitDetail \/ \E i \in 0 .. Cardinality(Ids) - 1 : Click(i)
  \/ \E w \in Views \cup {"split"} : SetDashboardView(w)
  \/ StartFilter \/ \E t \in Texts \cup {NoText} : TypeFilter(t) \/ EndFilter(t)
  \/ RequestRefresh \/ Close \/ \E what \in {"help", "settings"} : Open(what)
  \/ \E i \in 1 .. Cardinality(Ids) : ToggleProvider(i) \/ MoveSelectedProvider(i)

NavSpec == NavInit /\ [][NavNext]_navVars

-------------------------------------------------------------------------------
Selected == IF cursor \in 0 .. Tiles - 1 THEN FilteredIDs[cursor + 1] ELSE 0

(* The cursor never runs past the tiles there would be without the filter,   *)
(* however the list shrinks under it: by frames, by hiding accounts.         *)
CursorWithinTiles == cursor < Len(sortedIDs) \/ cursor <= 0

(* The accounts listed from the first to the one under the cursor.           *)
UpToSelected ==
  {sortedIDs[i] : i \in {k \in DOMAIN sortedIDs :
                          \E j \in DOMAIN sortedIDs : k <= j /\ sortedIDs[j] = Selected}}

(* What a frame may do without moving the selection: every tile was listed   *)
(* before or is of a new account, and the filter tells the accounts up to    *)
(* the selected one apart as it did (a status that changes may put one of    *)
(* them into it or take it out, model.go:1121, and does move the selection). *)
WithoutLosses ==
  /\ ToSet(sortedIDs) \subseteq ToSet(sortedIDs') \cap ToSet(order)
  /\ ToSet(sortedIDs') \cap ToSet(order) \subseteq ToSet(sortedIDs)
  /\ \A id \in UpToSelected : Passes(id) <=> Passes(id)'

(* The tile a user looks at changes only at his own hands: a frame without   *)
(* losses leaves the cursor, an index, on the same account, whatever else it *)
(* adds or changes, and through the clamp and the filter.  Not so while a    *)
(* tile is of an account without a place in the order yet: a frame that came *)
(* while a refresh was pending brought it, and the settings listed it        *)
(* (behind the others, model.go:1099); with the next frame it gets its       *)
(* place, behind other new accounts of smaller names.                        *)
FramesKeepSelection ==
  [][Selected # 0 /\ WithoutLosses /\ SomeFrame => Selected' = Selected]_navVars

(* Whatever is drawn with the tile of the cursor has one.  The split layout  *)
(* and the detail view index the tiles with the cursor after comparing it    *)
(* with their number only; pgup and pgdown without tiles set it to -1.       *)
(* e2e_live_test.go:117 calls such a cursor "out of bounds".                 *)
CursorNotNegative ==
  OnDashboard /\ Tiles > 0 /\ (mode = "detail" \/ view = "split") => cursor >= 0

================================================================================
