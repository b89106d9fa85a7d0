--------------------------- MODULE DashboardProofs ----------------------------
(***************************************************************************)
(* Theorems about the terminal dashboard.  Entering credentials: for every *)
(* set of accounts, keys and answers of providers, with any number of      *)
(* commands under way at once.  Frames: for any windows, versions of the   *)
(* data and looks of them, any number of refreshes under way.  The cursor: *)
(* for any accounts, filters and frames.  Settings: for any accounts,      *)
(* themes and processes, and any number of saves.                          *)
(***************************************************************************)
EXTENDS KeyEntry, FrameFlow, Navigation, Settings, FiniteSetTheorems, SequenceTheorems, TLAPS

-------------------------------------------------------------------------------
(* What the argument needs of a state.  A validation whose editor has not    *)
(* changed since is of what the editor holds, or the editor was emptied by   *)
(* an answer meanwhile, and an empty key is not saved; a save of an editor   *)
(* that has not changed is of a key its provider accepted.                   *)
Kinds == {"validate", "validateNew", "save", "saveNew", "delete", "browsers"}

AnyCommand == [do : Kinds, id : Accounts \cup {NoOne}, key : Keys \cup {NoKey}, moved : BOOLEAN]

EditorShape ==
  [on : BOOLEAN, id : Accounts \cup {NoOne}, input : Keys \cup {NoKey}, validating : BOOLEAN]

AddShape ==
  [on : BOOLEAN, id : Accounts \cup {NoOne}, key : Keys \cup {NoKey}, env : BOOLEAN,
   validating : BOOLEAN]

CommandOwed(c, input, accepted) ==
  ~ c.moved =>
    /\ c.do = "validate" => input \in {c.key, NoKey}
    /\ c.do = "save" => c.key = NoKey \/ <<c.id, c.key>> \in accepted

Explained(k, pairs) == \A a \in Accounts : k[a] # NoKey => <<a, k[a]>> \in pairs

Shapes ==
  /\ editor \in EditorShape
  /\ add \in AddShape
  /\ running \subseteq AnyCommand
  /\ keys \in [Accounts -> Keys \cup {NoKey}]

EntryInv ==
  /\ Shapes
  /\ \A c \in running : CommandOwed(c, editor.input, validated)
  /\ Explained(keys, validated \cup excused)

LEMMA EntryInit == Init => EntryInv
BY DEF Init, EntryInv, Shapes, EditorShape, AddShape, NoEditor, NoAdd, Explained, AnyCommand

LEMMA EditorType ==
  ASSUME EntryInv
  PROVE  /\ editor.input \in Keys \cup {NoKey} /\ editor.id \in Accounts \cup {NoOne}
         /\ \A b \in BOOLEAN : /\ [editor EXCEPT !.validating = b] \in EditorShape
                                /\ [editor EXCEPT !.validating = b].input = editor.input
         /\ \A k \in Keys \cup {NoKey} :
               [editor EXCEPT !.input = k, !.validating = FALSE] \in EditorShape
         /\ [NoEditor EXCEPT !.id = editor.id] \in EditorShape
         /\ [NoEditor EXCEPT !.id = editor.id].input = NoKey
         /\ \A a \in KeyAccounts : [NoEditor EXCEPT !.on = TRUE, !.id = a] \in EditorShape
BY DEF EntryInv, Shapes, EditorShape, NoEditor, Accounts

LEMMA AddType ==
  ASSUME EntryInv
  PROVE  /\ NoAdd \in AddShape /\ add \in AddShape
         /\ add.id \in Accounts \cup {NoOne} /\ add.key \in Keys \cup {NoKey}
         /\ [add EXCEPT !.validating = FALSE] \in AddShape
         /\ [add EXCEPT !.validating = TRUE] \in AddShape
BY DEF EntryInv, Shapes, AddShape, NoAdd

(* A command that starts, or what an answer leads to, is a command.          *)
LEMMA CommandType ==
  ASSUME NEW do \in Kinds, NEW id \in Accounts \cup {NoOne}, NEW key \in Keys \cup {NoKey}
  PROVE  /\ Command(do, id, key) \in AnyCommand
         /\ Command(do, id, key).do = do
         /\ Command(do, id, key).id = id
         /\ Command(do, id, key).key = key
         /\ ~ Command(do, id, key).moved
BY DEF Command, AnyCommand

LEMMA MovedType ==
  ASSUME NEW c \in AnyCommand, NEW m \in BOOLEAN
  PROVE  /\ [c EXCEPT !.moved = m] \in AnyCommand
         /\ [c EXCEPT !.moved = m].do = c.do
         /\ [c EXCEPT !.moved = m].id = c.id
         /\ [c EXCEPT !.moved = m].key = c.key
         /\ [c EXCEPT !.moved = m].moved = m
BY DEF AnyCommand

(* The save of what the editor holds, as the answer to a validation.         *)
LEMMA SaveType ==
  ASSUME NEW id \in Accounts \cup {NoOne}, NEW key \in Keys \cup {NoKey}, NEW m \in BOOLEAN
  PROVE  LET save == [Command("save", id, key) EXCEPT !.moved = m] IN
           save \in AnyCommand /\ save.do = "save" /\ save.id = id /\ save.key = key /\ save.moved = m
BY DEF Command, AnyCommand, Kinds

(* A command that is no save owes nothing but the input it validates.        *)
LEMMA NewOwes ==
  ASSUME NEW do \in Kinds \ {"save"}, NEW id \in Accounts \cup {NoOne},
         NEW key \in Keys \cup {NoKey}, NEW input, NEW accepted,
         do = "validate" => key = input
  PROVE  CommandOwed(Command(do, id, key), input, accepted)
BY CommandType DEF CommandOwed

(* Once the editor has changed no validation is of it, whatever it holds.    *)
LEMMA MovedOwes ==
  ASSUME EntryInv, NEW input
  PROVE  /\ Moved \subseteq AnyCommand
         /\ \A c \in Moved : CommandOwed(c, input, validated)
<1>1. ASSUME NEW c \in running PROVE [c EXCEPT !.moved = TRUE] \in AnyCommand /\ [c EXCEPT !.moved = TRUE].moved
  BY DEF EntryInv, Shapes, AnyCommand
<1>2. Moved \subseteq AnyCommand
  BY <1>1 DEF Moved, EntryInv, Shapes
<1>3. ASSUME NEW c \in Moved PROVE CommandOwed(c, input, validated)
  <2>1. PICK b \in running : c = IF b.do = "validate" THEN [b EXCEPT !.moved = TRUE] ELSE b
    BY <1>3 DEF Moved
  <2>2. CASE b.do = "validate"
    BY <1>1, <2>1, <2>2 DEF CommandOwed
  <2>3. CASE b.do # "validate"
    BY <2>1, <2>3 DEF CommandOwed, EntryInv
  <2>4. QED
    BY <2>2, <2>3
<1>4. QED
  BY <1>2, <1>3

(* What accepting or excusing more pairs cannot disturb.                     *)
LEMMA MoreAccepted ==
  ASSUME EntryInv, NEW more, validated \subseteq more
  PROVE  /\ \A c \in running : CommandOwed(c, editor.input, more)
         /\ Explained(keys, more \cup excused)
BY DEF EntryInv, CommandOwed, Explained

(* A step that touches neither the keys nor what is said of them, and after  *)
(* which every command keeps its debt.                                       *)
LEMMA StoreStays ==
  ASSUME EntryInv, StoreSame, Shapes',
         \A c \in running' : CommandOwed(c, editor'.input, validated)
  PROVE  EntryInv'
BY DEF EntryInv, StoreSame, Explained

-------------------------------------------------------------------------------
(* The user's actions.                                                       *)
LEMMA EditorChanges ==
  ASSUME EntryInv, StoreSame, running' = Moved, add' \in {add, NoAdd},
         \/ editor' = [NoEditor EXCEPT !.id = editor.id]
         \/ \E a \in KeyAccounts : editor' = [NoEditor EXCEPT !.on = TRUE, !.id = a]
         \/ \E k \in Keys \cup {NoKey} : editor' = [editor EXCEPT !.input = k, !.validating = FALSE]
  PROVE  EntryInv'
<1>1. editor' \in EditorShape
  BY EditorType
<1>2. add' \in AddShape
  BY AddType
<1>3. Shapes'
  BY <1>1, <1>2, MovedOwes DEF EntryInv, Shapes, StoreSame
<1>4. QED
  BY <1>3, MovedOwes, StoreStays

(* The editor keeps its input, and whatever starts pays what it owes.        *)
LEMMA InputStays ==
  ASSUME EntryInv, StoreSame,
         editor' = editor \/ \E b \in BOOLEAN : editor' = [editor EXCEPT !.validating = b],
         add' \in AddShape,
         NEW more \in SUBSET AnyCommand, running' \subseteq running \cup more,
         \A c \in more : CommandOwed(c, editor.input, validated)
  PROVE  EntryInv'
<1>1. editor'.input = editor.input /\ editor' \in EditorShape
  BY EditorType DEF EntryInv, Shapes
<1>2. Shapes'
  BY <1>1 DEF EntryInv, Shapes, StoreSame
<1>3. \A c \in running' : CommandOwed(c, editor'.input, validated)
  BY <1>1 DEF EntryInv
<1>4. QED
  BY <1>2, <1>3, StoreStays

(* The same when no command starts, and when one does.                       *)
LEMMA NothingStarts ==
  ASSUME EntryInv, StoreSame,
         editor' = editor \/ \E b \in BOOLEAN : editor' = [editor EXCEPT !.validating = b],
         add' \in AddShape, running' \subseteq running
  PROVE  EntryInv'
<1>1. {} \in SUBSET AnyCommand /\ running' \subseteq running \cup {}
  OBVIOUS
<1>2. \A c \in {} : CommandOwed(c, editor.input, validated)
  OBVIOUS
<1>3. QED
  BY <1>1, <1>2, InputStays

LEMMA OneStarts ==
  ASSUME EntryInv, StoreSame,
         editor' = editor \/ \E b \in BOOLEAN : editor' = [editor EXCEPT !.validating = b],
         add' \in AddShape,
         NEW do \in Kinds \ {"save"}, NEW id \in Accounts \cup {NoOne}, NEW key \in Keys \cup {NoKey},
         do = "validate" => key = editor.input,
         Start(Command(do, id, key))
  PROVE  EntryInv'
<1>1. {Command(do, id, key)} \in SUBSET AnyCommand
  BY CommandType
<1>2. \A c \in {Command(do, id, key)} : CommandOwed(c, editor.input, validated)
  BY NewOwes
<1>3. running' \subseteq running \cup {Command(do, id, key)}
  BY DEF Start
<1>4. QED
  BY <1>1, <1>2, <1>3, InputStays

LEMMA UserKeeps ==
  ASSUME EntryInv, User
  PROVE  EntryInv'
<1>a. add \in AddShape /\ NoAdd \in AddShape
  BY AddType
<1>1. CASE OpenSettings
  BY <1>1, EditorChanges DEF OpenSettings
<1>2. CASE CloseSettings
  BY <1>2, <1>a, NothingStarts, EditorChanges DEF CloseSettings
<1>3. CASE CancelEdit
  BY <1>3, EditorChanges DEF CancelEdit, AddSame
<1>4. CASE SubmitKey
  <2>1. StoreSame /\ add' = add /\ editor' = [editor EXCEPT !.validating = TRUE]
        /\ Start(Command("validate", editor.id, editor.input))
    BY <1>4 DEF SubmitKey, AddSame
  <2>2. QED
    BY <1>a, <2>1, EditorType, OneStarts DEF Kinds
<1>5. CASE LeavePicker
  BY <1>5, <1>a, NothingStarts DEF LeavePicker, AddSame
<1>6. CASE AddSwitchMode
  <2>1. add' \in AddShape
    BY <1>6, <1>a DEF AddSwitchMode, AddShape
  <2>2. QED
    BY <1>6, <2>1, NothingStarts DEF AddSwitchMode, AddStep
<1>7. CASE CancelAdd
  BY <1>7, <1>a, NothingStarts DEF CancelAdd
<1>8. CASE SubmitAddAccount
  <2>1. StoreSame /\ editor' = editor /\ add' \in AddShape
    BY <1>8, AddType DEF SubmitAddAccount
  <2>2. \E do \in {"browsers", "validateNew", "saveNew"}, key \in {NoKey, add.key} :
          Start(Command(do, add.id, key))
    BY <1>8 DEF SubmitAddAccount
  <2>3. PICK do \in {"browsers", "validateNew", "saveNew"}, key \in {NoKey, add.key} :
          Start(Command(do, add.id, key))
    BY <2>2
  <2>4. do \in Kinds \ {"save"} /\ do # "validate" /\ key \in Keys \cup {NoKey}
        /\ add.id \in Accounts \cup {NoOne}
    BY AddType DEF Kinds
  <2>5. QED
    BY <2>1, <2>3, <2>4, OneStarts
<1>9. ASSUME NEW a \in Accounts, OpenEditor(a) PROVE EntryInv'
  BY <1>9, EditorChanges DEF OpenEditor, AddSame
<1>10. ASSUME NEW a \in Accounts, DeleteCredential(a) PROVE EntryInv'
  <2>1. StoreSame /\ add' = add /\ editor' = [editor EXCEPT !.validating = FALSE]
        /\ Start(Command("delete", a, NoKey))
    BY <1>10 DEF DeleteCredential, AddSame
  <2>2. QED
    BY <1>a, <2>1, OneStarts DEF Kinds, Accounts
<1>11. ASSUME NEW a \in Accounts, OpenPicker(a) PROVE EntryInv'
  <2>1. StoreSame /\ add' = add /\ editor' = editor /\ Start(Command("browsers", a, NoKey))
    BY <1>11 DEF OpenPicker, AddSame
  <2>2. QED
    BY <1>a, <2>1, OneStarts DEF Kinds, Accounts
<1>12. ASSUME NEW a \in Accounts, OpenAddAccount(a) PROVE EntryInv'
  <2>1. add' \in AddShape
    BY <1>12 DEF OpenAddAccount, NoAdd, AddShape
  <2>2. QED
    BY <1>12, NothingStarts, <2>1 DEF OpenAddAccount
<1>13. ASSUME NEW a \in Accounts, AddChoose(a) PROVE EntryInv'
  <2>1. add' \in AddShape
    BY <1>13, <1>a DEF AddChoose, NoAdd, AddShape
  <2>2. QED
    BY <1>13, NothingStarts, <2>1 DEF AddChoose, AddStep
<1>14. ASSUME NEW k \in Keys \cup {NoKey}, TypeKey(k) PROVE EntryInv'
  BY <1>14, EditorChanges DEF TypeKey, AddSame
<1>15. ASSUME NEW k \in Keys \cup {NoKey}, AddTypeKey(k) PROVE EntryInv'
  <2>1. add' \in AddShape
    BY <1>15, <1>a DEF AddTypeKey, AddShape
  <2>2. QED
    BY <1>15, NothingStarts, <2>1 DEF AddTypeKey, AddStep
<1>16. QED
  BY <1>1, <1>2, <1>3, <1>4, <1>5, <1>6, <1>7, <1>8, <1>9, <1>10, <1>11, <1>12,
     <1>13, <1>14, <1>15 DEF User

-------------------------------------------------------------------------------
(* The answers.  A key reaches the file only by a save, which owes it to the *)
(* provider or to a change, or from the modal, which is an excuse.           *)
LEMMA StoresExplained ==
  ASSUME EntryInv, NEW c \in AnyCommand, Stored(c), UNCHANGED validated,
         c.moved \/ <<c.id, c.key>> \in validated
  PROVE  /\ keys' \in [Accounts -> Keys \cup {NoKey}]
         /\ Explained(keys', validated' \cup excused')
BY DEF EntryInv, Shapes, Stored, Explained, AnyCommand

LEMMA AnswersKeep ==
  ASSUME EntryInv, NEW c \in running, Answered(c)
  PROVE  EntryInv'
<1>a. add \in AddShape /\ NoAdd \in AddShape /\ [add EXCEPT !.validating = FALSE] \in AddShape
  BY AddType
<1>c. c \in AnyCommand /\ c.id \in Accounts \cup {NoOne} /\ c.key \in Keys \cup {NoKey}
      /\ c.moved \in BOOLEAN /\ CommandOwed(c, editor.input, validated)
  BY DEF EntryInv, Shapes, AnyCommand
<1>1. CASE ValidateKeyResult(c)
  <2> DEFINE save == [Command("save", c.id, editor.input) EXCEPT !.moved = c.moved]
  <2>1. CASE <<c.id, c.key>> \in Accepted /\ running' = (running \ {c}) \cup {save}
             /\ validated' = validated \cup {<<c.id, c.key>>}
    <3>0. c.id \in Accounts \cup {NoOne} /\ editor.input \in Keys \cup {NoKey} /\ c.moved \in BOOLEAN
      BY <1>c, EditorType
    <3>1. save \in AnyCommand /\ save.do = "save" /\ save.id = c.id
          /\ save.key = editor.input /\ save.moved = c.moved
      BY <3>0, SaveType
    <3>2. CommandOwed(save, editor.input, validated')
      BY <1>1, <1>c, <2>1, <3>1 DEF CommandOwed, ValidateKeyResult
    <3>3. editor' \in EditorShape /\ editor'.input = editor.input /\ add' = add /\ keys' = keys /\ excused' = excused
      BY <1>1, EditorType DEF ValidateKeyResult, AddSame
    <3>4. validated \subseteq validated'
      BY <2>1
    <3>5. Shapes'
      BY <2>1, <3>1, <3>3 DEF EntryInv, Shapes
    <3>6. \A b \in running' : CommandOwed(b, editor'.input, validated')
      BY <2>1, <3>2, <3>3, <3>4, MoreAccepted
    <3>7. Explained(keys', validated' \cup excused')
      BY <3>3, <3>4, MoreAccepted
    <3>8. QED
      BY <3>5, <3>6, <3>7 DEF EntryInv
  <2>2. CASE running' = running \ {c} /\ UNCHANGED validated
    BY <1>1, <1>a, NothingStarts, <2>2 DEF ValidateKeyResult, StoreSame, AddSame
  <2>3. QED
    BY <1>1, <2>1, <2>2 DEF ValidateKeyResult
<1>2. CASE CredentialSaved(c)
  <2>1. CASE c.key # NoKey /\ Stored(c) /\ editor' = [NoEditor EXCEPT !.id = editor.id]
    <3>1. keys' \in [Accounts -> Keys \cup {NoKey}] /\ Explained(keys', validated' \cup excused')
      BY <1>2, <1>c, <2>1, StoresExplained DEF CredentialSaved, CommandOwed
    <3>2. Shapes'
      BY <1>2, EditorType, <2>1, <3>1 DEF CredentialSaved, AddSame, EntryInv, Shapes
    <3>3. \A b \in running' : CommandOwed(b, editor'.input, validated')
      BY <1>2, EditorType, <2>1 DEF CredentialSaved, EntryInv, CommandOwed
    <3>4. QED
      BY <3>1, <3>2, <3>3 DEF EntryInv
  <2>2. CASE editor' = [editor EXCEPT !.validating = FALSE] /\ UNCHANGED <<keys, excused>>
    BY <1>2, <1>a, NothingStarts, <2>2 DEF CredentialSaved, StoreSame, AddSame
  <2>3. QED
    BY <1>2, <2>1, <2>2 DEF CredentialSaved
<1>3. CASE CredentialDeleted(c)
  <2>1. Shapes'
    BY <1>3 DEF CredentialDeleted, AddSame, EntryInv, Shapes
  <2>2. \A b \in running' : CommandOwed(b, editor'.input, validated')
    BY <1>3 DEF CredentialDeleted, EntryInv
  <2>3. Explained(keys', validated' \cup excused')
    BY <1>3 DEF CredentialDeleted, EntryInv, Shapes, Explained
  <2>4. QED
    BY <2>1, <2>2, <2>3 DEF EntryInv
<1>4. CASE AvailableBrowsersLoaded(c)
  BY <1>4, <1>a, NothingStarts DEF AvailableBrowsersLoaded, AddSame
<1>5. CASE ValidateNewResult(c)
  <2> DEFINE save == Command("save", c.id, c.key)
             new  == Command("saveNew", c.id, NoKey)
  <2>1. CASE running' = (running \ {c}) \cup {save, new}
             /\ validated' = validated \cup {<<c.id, c.key>>} /\ add' = NoAdd
    <3>a. save \in AnyCommand /\ save.do = "save" /\ save.id = c.id /\ save.key = c.key
      BY <1>c, CommandType DEF Kinds
    <3>b. new \in AnyCommand /\ CommandOwed(new, editor.input, validated')
      BY <1>c, CommandType, NewOwes DEF Kinds
    <3>1. /\ save \in AnyCommand /\ new \in AnyCommand
          /\ CommandOwed(save, editor.input, validated') /\ CommandOwed(new, editor.input, validated')
      BY <2>1, <3>a, <3>b DEF CommandOwed
    <3>2. validated \subseteq validated'
      BY <2>1
    <3>3. editor' = editor /\ keys' = keys /\ excused' = excused
      BY <1>5 DEF ValidateNewResult
    <3>4. Shapes'
      BY <1>a, <2>1, <3>1, <3>3 DEF EntryInv, Shapes
    <3>5. \A b \in running' : CommandOwed(b, editor'.input, validated')
      BY <2>1, <3>1, <3>2, <3>3, MoreAccepted
    <3>6. Explained(keys', validated' \cup excused')
      BY <3>2, <3>3, MoreAccepted
    <3>7. QED
      BY <3>4, <3>5, <3>6 DEF EntryInv
  <2>2. CASE running' = running \ {c} /\ UNCHANGED validated /\ add' = [add EXCEPT !.validating = FALSE]
    BY <1>5, <1>a, NothingStarts, <2>2 DEF ValidateNewResult, StoreSame
  <2>3. QED
    BY <1>5, <2>1, <2>2 DEF ValidateNewResult
<1>6. CASE AccountSaved(c)
  <2> DEFINE moved == [c EXCEPT !.moved = TRUE]
  <2>1. moved \in AnyCommand /\ moved.moved
    BY <1>c, MovedType
  <2>2. CASE Stored(moved) /\ add' \in {add, NoAdd}
    <3>1. keys' \in [Accounts -> Keys \cup {NoKey}] /\ Explained(keys', validated' \cup excused')
      BY <1>6, <2>1, <2>2, StoresExplained DEF AccountSaved
    <3>2. Shapes'
      BY <1>6, <1>a, <2>2, <3>1 DEF AccountSaved, EntryInv, Shapes
    <3>3. \A b \in running' : CommandOwed(b, editor'.input, validated')
      BY <1>6 DEF AccountSaved, EntryInv
    <3>4. QED
      BY <3>1, <3>2, <3>3 DEF EntryInv
  <2>3. CASE UNCHANGED <<keys, excused>> /\ add' \in {add, NoAdd}
    BY <1>6, <1>a, NothingStarts, <2>3 DEF AccountSaved, StoreSame
  <2>4. QED
    BY <1>6, <2>2, <2>3 DEF AccountSaved
<1>7. QED
  BY <1>1, <1>2, <1>3, <1>4, <1>5, <1>6 DEF Answered

-------------------------------------------------------------------------------
(* Every key in credentials.json was accepted by its provider, or its save   *)
(* is excused by a change of the editor during the validation or a change of *)
(* modes in the modal - in every order of key presses and answers, with any  *)
(* number of them under way (handleValidateKeyResultMsg,                     *)
(* handleCredentialSavedMsg, submitAddAccount).                              *)
THEOREM SavedKeysExplained == Spec => []SavedKeysAreExplained
<1>1. EntryInv => SavedKeysAreExplained
  BY DEF EntryInv, Explained, SavedKeysAreExplained
<1>2. EntryInv /\ [Next]_entryVars => EntryInv'
  <2> SUFFICES ASSUME EntryInv, [Next]_entryVars PROVE EntryInv'
    OBVIOUS
  <2>1. CASE User
    BY <2>1, UserKeeps
  <2>2. ASSUME NEW c \in running, Answered(c) PROVE EntryInv'
    BY <2>2, AnswersKeep
  <2>3. CASE UNCHANGED entryVars
    BY <2>3 DEF entryVars, EntryInv, Shapes, Explained
  <2>4. QED
    BY <2>1, <2>2, <2>3 DEF Next
<1>3. QED
  BY <1>1, <1>2, EntryInit, PTL DEF Spec

-------------------------------------------------------------------------------
(* Frames.                                                                   *)
Versions == {None} \cup 0 .. MaxData
Request  == [id : Nat, win : Windows, stage : {"working", "sending"}, v : Versions]
Caster   == [stage : {"idle", "reading", "read", "sending"}, win : Windows \cup {None}, v : Versions,
             id : Nat, seen : Int, warm : Int]

FrameTyped ==
  /\ data \in 1 .. MaxData
  /\ served \in [Windows -> 0 .. MaxData] /\ lastGood \in [Windows -> Versions]
  /\ bc \in Caster /\ (bc.stage # "idle" => bc.win \in Windows)
  /\ requests \in SUBSET Request /\ IsFiniteSet(requests)
  /\ window \in Windows /\ pending \in Nat /\ lastID \in Nat

FrameInv == FrameTyped /\ AwaitedIsUnderWay

LEMMA FrameStarts ==
  ASSUME FrameInit
  PROVE  FrameInv
<1>1. window \in Windows
  BY FrameAssumption DEF FrameInit
<1>2. bc \in Caster
  BY FrameAssumption DEF FrameInit, Caster, Versions, None
<1>3. IsFiniteSet({})
  BY FS_EmptySet
<1>4. QED
  BY <1>1, <1>2, <1>3, FrameAssumption
  DEF FrameInit, FrameInv, FrameTyped, AwaitedIsUnderWay, Versions, None, Request

(* What a read returns is a version or nothing, and the last good ones stay  *)
(* versions.                                                                 *)
LEMMA ReadIsTyped ==
  ASSUME FrameTyped, NEW w \in Windows, NEW refresh \in BOOLEAN
  PROVE  /\ ReadFrame(w, refresh) \in Versions
         /\ ReadDone(w, refresh) => lastGood' \in [Windows -> Versions]
<1> DEFINE answer == IF ~ up \/ ~ Ensured THEN None ELSE IF refresh THEN data ELSE served[w]
<1>1. data \in Versions /\ served[w] \in Versions /\ lastGood[w] \in Versions
  BY FrameAssumption DEF FrameTyped, Versions
<1>2. answer \in Versions
  BY <1>1 DEF Versions
<1> HIDE DEF answer
<1>3. ReadFrame(w, refresh) \in Versions
  BY <1>1, <1>2 DEF ReadFrame, answer
<1>4. QED
  BY <1>3 DEF ReadDone, FrameTyped

LEMMA ImageIsFinite ==
  ASSUME NEW S, IsFiniteSet(S), NEW T, NEW f \in [S -> T], T = {f[x] : x \in S}
  PROVE  IsFiniteSet(T)
<1>1. f \in Surjection(S, T)
  BY DEF Surjection
<1>2. QED
  BY <1>1, FS_Surjection

(* The numbers.  Renumbering keeps the awaited request the awaited one.      *)
LEMMA NumbersAreFinite ==
  ASSUME FrameTyped
  PROVE  /\ IsFiniteSet(Live) /\ NextID \in Nat /\ NextID > 0
         /\ \A id : Rank(id) \in Nat
<1>1. IsFiniteSet({r.id : r \in requests})
  <2> DEFINE T == {r.id : r \in requests}
             f == [r \in requests |-> r.id]
  <2>1. f \in [requests -> T] /\ T = {f[x] : x \in requests}
    OBVIOUS
  <2>2. QED
    BY <2>1, ImageIsFinite, Zenon DEF FrameTyped
<1>2. IsFiniteSet({lastID, pending, bc.id})
  <2>1. IsFiniteSet({} \cup {lastID} \cup {pending} \cup {bc.id})
    BY FS_EmptySet, FS_AddElement
  <2>2. {} \cup {lastID} \cup {pending} \cup {bc.id} = {lastID, pending, bc.id}
    OBVIOUS
  <2>3. QED
    BY <2>1, <2>2
<1>3. IsFiniteSet({lastID, pending, bc.id} \cup {r.id : r \in requests})
  BY <1>1, <1>2, FS_Union
<1>4. IsFiniteSet(Live)
  BY <1>3, FS_Subset DEF Live
<1>5. ASSUME NEW id PROVE Rank(id) \in Nat
  <2>1. IsFiniteSet({i \in Live : i <= id})
    BY <1>4, FS_Subset
  <2>2. QED
    BY <2>1, FS_CardinalityType DEF Rank
<1>6. NextID \in Nat /\ NextID > 0
  BY <1>4, FS_CardinalityType DEF NextID
<1>7. QED
  BY <1>4, <1>5, <1>6

LEMMA Renumbers ==
  ASSUME FrameTyped
  PROVE  /\ Renumbered \in SUBSET Request /\ IsFiniteSet(Renumbered)
         /\ \A r \in requests : \E s \in Renumbered : s.id = Rank(r.id) /\ s.win = r.win
<1>1. IsFiniteSet(Renumbered)
  <2> DEFINE f == [r \in requests |-> [r EXCEPT !.id = Rank(@)]]
  <2>1. f \in [requests -> Renumbered] /\ Renumbered = {f[x] : x \in requests}
    BY DEF Renumbered
  <2>2. QED
    BY <2>1, ImageIsFinite, Zenon DEF FrameTyped
<1>2. ASSUME NEW r \in requests
      PROVE  LET s == [r EXCEPT !.id = Rank(@)] IN s \in Request /\ s.id = Rank(r.id) /\ s.win = r.win
  BY NumbersAreFinite DEF FrameTyped, Request
<1>3. QED
  BY <1>1, <1>2 DEF Renumbered

(* A refresh that starts is numbered last, and stays under way.              *)
LEMMA StartKeeps ==
  ASSUME FrameTyped, NEW w \in Windows, StartRefresh(w)
  PROVE  /\ requests' \in SUBSET Request /\ IsFiniteSet(requests')
         /\ \E r \in requests' : r.id = NextID /\ r.win = w
         /\ bc' \in Caster /\ bc'.stage = bc.stage /\ bc'.win = bc.win /\ lastID' \in Nat
<1> DEFINE n == [id |-> NextID, win |-> w, stage |-> "working", v |-> None]
<1>1. n \in Request /\ n.id = NextID /\ n.win = w
  BY NumbersAreFinite DEF Request, Versions
<1>2. requests' = Renumbered \cup {n}
  BY DEF StartRefresh
<1> HIDE DEF n
<1>3. requests' \in SUBSET Request /\ IsFiniteSet(requests')
  BY <1>1, <1>2, Renumbers, FS_AddElement
<1>4. bc' \in Caster /\ bc'.stage = bc.stage /\ bc'.win = bc.win /\ lastID' \in Nat
  <2>1. bc \in Caster /\ Rank(bc.id) \in Nat /\ Rank(lastID) \in Nat
    BY NumbersAreFinite DEF FrameTyped
  <2>2. QED
    BY <2>1 DEF StartRefresh, Caster
<1>5. QED
  BY <1>1, <1>2, <1>3, <1>4

(* What the dashboard does with a message: it goes on waiting unless the     *)
(* message is the awaited one.                                               *)
LEMMA HandleKeeps ==
  ASSUME FrameTyped, pending > 0 => spinning, NEW win \in Windows, NEW v, NEW id \in Nat,
         HandleSnapshots(win, v, id)
  PROVE  /\ UNCHANGED window /\ lastID' \in Nat
         /\ \/ pending' = 0
            \/ UNCHANGED <<pending, spinning>> /\ (pending > 0 => id # pending \/ win # window)
BY DEF HandleSnapshots, Dropped, MeanwhileFrame, Answer, Unready, PlainFrame, Answers, Awaited,
       Seen, FrameTyped, modelVars, Show

-------------------------------------------------------------------------------
LEMMA DashboardKeeps ==
  ASSUME FrameInv,
         \/ UserRefreshes \/ KeySaved \/ AutoRefresh \/ \E w \in Windows : WindowChanges(w)
  PROVE  FrameInv'
<1>1. FrameTyped /\ (pending > 0 => spinning) /\ NextID \in Nat /\ Rank(0) = 0 /\ pending \in Nat
  BY NumbersAreFinite DEF FrameInv, AwaitedIsUnderWay, Rank, FrameTyped
<1>2. CASE UserRefreshes
  <2>1. window \in Windows
    BY <1>1 DEF FrameTyped
  <2>2. QED
    BY <1>1, <1>2, <2>1, StartKeeps
    DEF UserRefreshes, FrameInv, FrameTyped, AwaitedIsUnderWay, daemonVars, runtimeVars
<1>3. CASE KeySaved
  BY <1>1, <1>3 DEF KeySaved, FrameInv, FrameTyped, AwaitedIsUnderWay, daemonVars, runtimeVars
<1>4. CASE AutoRefresh
  <2>1. window \in Windows /\ pending = 0 /\ pending' = 0
    BY <1>1, <1>4 DEF FrameTyped, AutoRefresh
  <2>2. QED
    BY <1>1, <1>4, <2>1, StartKeeps
    DEF AutoRefresh, FrameInv, FrameTyped, AwaitedIsUnderWay, daemonVars, runtimeVars
<1>5. ASSUME NEW w \in Windows, WindowChanges(w) PROVE FrameInv'
  BY <1>1, <1>5, StartKeeps
  DEF WindowChanges, FrameInv, FrameTyped, AwaitedIsUnderWay, daemonVars, runtimeVars
<1>6. QED
  BY <1>2, <1>3, <1>4, <1>5

LEMMA BroadcastKeeps ==
  ASSUME FrameInv, Broadcast
  PROVE  FrameInv'
<1>1. /\ FrameTyped /\ (pending > 0 => spinning) /\ pending \in Nat /\ window \in Windows
      /\ bc \in Caster /\ (bc.stage # "idle" => bc.win \in Windows)
  BY DEF FrameInv, AwaitedIsUnderWay, FrameTyped
<1>2. CASE BroadcastReads
  <2>1. bc' \in Caster /\ bc'.win \in Windows
    BY <1>1, <1>2 DEF BroadcastReads, Caster
  <2>2. QED
    BY <1>1, <1>2, <2>1
    DEF BroadcastReads, FrameInv, FrameTyped, AwaitedIsUnderWay, daemonVars, runtimeVars, modelVars
<1>3. CASE BroadcastGot
  <2>1. bc.win \in Windows
    BY <1>1, <1>3 DEF BroadcastGot
  <2>2. ReadFrame(bc.win, FALSE) \in Versions /\ lastGood' \in [Windows -> Versions]
    BY <1>1, <1>3, <2>1, ReadIsTyped DEF BroadcastGot
  <2>3. bc' \in Caster /\ (bc'.stage # "idle" => bc'.win \in Windows)
    <3> DEFINE v == ReadFrame(bc.win, FALSE)
               warm == IF ~ Warming \/ Ready(v) THEN -1 ELSE bc.warm - 1
               look == IF v = None THEN None ELSE Looks[v]
               send == v # None /\ (Warming \/ look # bc.seen)
    <3>1. bc.warm \in Int /\ bc.seen \in Int /\ v \in Versions /\ None \in Versions
      BY <1>1, <2>2 DEF Caster, Versions
    <3>2. bc' = [stage |-> IF send THEN "read" ELSE "idle", win |-> IF send THEN bc.win ELSE None,
                 v |-> IF send THEN v ELSE None, id |-> 0, warm |-> warm,
                 seen |-> IF Warming \/ ~ send THEN bc.seen ELSE look]
      BY <1>3 DEF BroadcastGot
    <3> HIDE DEF v
    <3>3. warm \in Int
      BY <3>1 DEF Warming, Ready
    <3>4. look \in Int
      BY <3>1, FrameAssumption DEF Versions, None
    <3> HIDE DEF warm, look, send
    <3>5. QED
      BY <2>1, <3>1, <3>2, <3>3, <3>4 DEF Caster
  <2>4. QED
    BY <1>1, <1>3, <2>2, <2>3
    DEF BroadcastGot, FrameInv, FrameTyped, AwaitedIsUnderWay, daemonVars, modelVars
<1>4. CASE Dispatch
  <2>1. bc' \in Caster /\ bc'.win = bc.win /\ bc.win \in Windows
    BY <1>1, <1>4, NumbersAreFinite DEF Dispatch, Caster
  <2>2. /\ requests' \in SUBSET Request /\ IsFiniteSet(requests')
        /\ \A r \in requests : \E s \in requests' : s.id = Rank(r.id) /\ s.win = r.win
    BY <1>1, <1>4, Renumbers DEF Dispatch
  <2>3. pending' \in Nat /\ lastID' \in Nat /\ (pending' > 0 => pending > 0)
    BY <1>1, <1>4, NumbersAreFinite DEF Dispatch, Rank
  <2>4. AwaitedIsUnderWay'
    <3>1. SUFFICES ASSUME pending' > 0
                   PROVE  spinning' /\ \E s \in requests' : s.id = pending' /\ s.win = window'
      BY DEF AwaitedIsUnderWay
    <3>2. PICK r \in requests : r.id = pending /\ r.win = window
      BY <2>3, <3>1 DEF FrameInv, AwaitedIsUnderWay
    <3>3. QED
      BY <1>1, <1>4, <2>2, <2>3, <3>1, <3>2 DEF Dispatch
  <2>5. QED
    BY <1>1, <1>4, <2>1, <2>2, <2>3, <2>4 DEF Dispatch, FrameInv, FrameTyped, daemonVars, runtimeVars
<1>5. CASE TakeBroadcast
  <2>1. bc.win \in Windows /\ bc.id \in Nat
    BY <1>1, <1>5 DEF TakeBroadcast, Caster
  <2>2. HandleSnapshots(bc.win, bc.v, bc.id)
    BY <1>5 DEF TakeBroadcast
  <2>3. /\ UNCHANGED window /\ lastID' \in Nat
        /\ pending' = 0 \/ UNCHANGED <<pending, spinning>>
    BY <1>1, <2>1, <2>2, HandleKeeps
  <2>4. bc' \in Caster /\ bc'.stage = "idle"
    BY <1>1, <1>5 DEF TakeBroadcast, Caster, Versions
  <2>5. QED
    BY <1>1, <1>5, <2>3, <2>4
    DEF TakeBroadcast, FrameInv, FrameTyped, AwaitedIsUnderWay, daemonVars, runtimeVars
<1>6. QED
  BY <1>2, <1>3, <1>4, <1>5 DEF Broadcast

LEMMA RefreshKeeps ==
  ASSUME FrameInv, RefreshStep
  PROVE  FrameInv'
<1>1. /\ FrameTyped /\ (pending > 0 => spinning) /\ pending \in Nat /\ window \in Windows
      /\ requests \in SUBSET Request /\ IsFiniteSet(requests)
  BY DEF FrameInv, AwaitedIsUnderWay, FrameTyped
<1>2. ASSUME NEW r \in requests, RefreshGot(r) PROVE FrameInv'
  <2> DEFINE s == [r EXCEPT !.stage = "sending", !.v = ReadFrame(r.win, TRUE)]
  <2>1. r \in Request /\ r.win \in Windows
    BY <1>1 DEF Request
  <2>2. ReadFrame(r.win, TRUE) \in Versions /\ lastGood' \in [Windows -> Versions]
    BY <1>1, <1>2, <2>1, ReadIsTyped DEF RefreshGot
  <2>3. s \in Request /\ s.id = r.id /\ s.win = r.win
    BY <2>1, <2>2 DEF Request
  <2>4. requests' = (requests \ {r}) \cup {s}
    BY <1>2 DEF RefreshGot
  <2> HIDE DEF s
  <2>5. requests' \in SUBSET Request /\ IsFiniteSet(requests')
    BY <1>1, <2>3, <2>4, FS_AddElement, FS_RemoveElement
  <2>6. AwaitedIsUnderWay'
    BY <1>2, <2>3, <2>4 DEF RefreshGot, modelVars, FrameInv, AwaitedIsUnderWay
  <2>7. QED
    BY <1>1, <1>2, <2>2, <2>5, <2>6 DEF RefreshGot, FrameInv, FrameTyped, daemonVars, modelVars
<1>3. ASSUME NEW r \in requests, TakeRefresh(r) PROVE FrameInv'
  <2>1. r \in Request /\ r.win \in Windows /\ r.id \in Nat
    BY <1>1 DEF Request
  <2>2. HandleSnapshots(r.win, r.v, r.id) /\ requests' = requests \ {r}
    BY <1>3 DEF TakeRefresh
  <2>3. /\ UNCHANGED window /\ lastID' \in Nat
        /\ \/ pending' = 0
           \/ UNCHANGED <<pending, spinning>> /\ (pending > 0 => r.id # pending \/ r.win # window)
    BY <1>1, <2>1, <2>2, HandleKeeps
  <2>4. AwaitedIsUnderWay' /\ pending' \in Nat
    BY <1>1, <2>2, <2>3 DEF FrameInv, AwaitedIsUnderWay
  <2>5. requests' \in SUBSET Request /\ IsFiniteSet(requests')
    BY <1>1, <2>2, FS_RemoveElement
  <2>6. QED
    BY <1>1, <1>3, <2>3, <2>4, <2>5 DEF TakeRefresh, FrameInv, FrameTyped, daemonVars, runtimeVars
<1>4. QED
  BY <1>2, <1>3 DEF RefreshStep

LEMMA DaemonKeeps ==
  ASSUME FrameInv,
         \/ DataChanges \/ GoesAway \/ ComesBack \/ ThrottlePasses
         \/ \E w \in Windows : CacheRefreshed(w)
  PROVE  FrameInv'
<1>1. ASSUME NEW w \in Windows, CacheRefreshed(w) PROVE FrameInv'
  BY <1>1, FrameAssumption
  DEF CacheRefreshed, FrameInv, FrameTyped, AwaitedIsUnderWay, runtimeVars, modelVars
<1>2. CASE DataChanges
  BY <1>2, FrameAssumption
  DEF DataChanges, FrameInv, FrameTyped, AwaitedIsUnderWay, runtimeVars, modelVars
<1>3. CASE GoesAway \/ ComesBack \/ ThrottlePasses
  BY <1>3
  DEF GoesAway, ComesBack, ThrottlePasses, FrameInv, FrameTyped, AwaitedIsUnderWay,
      daemonVars, runtimeVars, modelVars
<1>4. QED
  BY <1>1, <1>2, <1>3

LEMMA FrameSteps ==
  ASSUME FrameInv, [FrameNext]_frameVars
  PROVE  FrameInv'
<1>1. CASE UNCHANGED frameVars
  BY <1>1
  DEF frameVars, daemonVars, runtimeVars, modelVars, FrameInv, FrameTyped, AwaitedIsUnderWay
<1>2. QED
  BY <1>1, DaemonKeeps, BroadcastKeeps, RefreshKeeps, DashboardKeeps DEF FrameNext

(* For any time windows and data: the spinner never waits for a request that *)
(* is lost, or that is of another window (model_input.go:360).               *)
THEOREM SpinnerIsAnswered == FrameSpec => []AwaitedIsUnderWay
<1>1. FrameInit => FrameInv
  BY FrameStarts
<1>2. FrameInv /\ [FrameNext]_frameVars => FrameInv'
  BY FrameSteps
<1>3. FrameInv => AwaitedIsUnderWay
  BY DEF FrameInv
<1>4. QED
  BY <1>1, <1>2, <1>3, PTL DEF FrameSpec

-------------------------------------------------------------------------------
(* The tiles.  Of a finite set of numbers as many have a place as there are, *)
(* each its own.                                                             *)
UpTo(S, x) == {y \in S : y <= x}

LEMMA UpToIsFinite ==
  ASSUME NEW S \in SUBSET Nat, IsFiniteSet(S), NEW x \in S
  PROVE  IsFiniteSet(UpTo(S, x)) /\ Cardinality(UpTo(S, x)) \in 1 .. Cardinality(S)
<1>1. UpTo(S, x) \in SUBSET S /\ x \in UpTo(S, x)
  BY DEF UpTo
<1>2. IsFiniteSet(UpTo(S, x)) /\ Cardinality(UpTo(S, x)) <= Cardinality(S)
  BY <1>1, FS_Subset
<1>3. Cardinality(UpTo(S, x)) \in Nat /\ Cardinality(S) \in Nat
  BY <1>2, FS_CardinalityType
<1>4. Cardinality(UpTo(S, x)) # 0
  BY <1>1, <1>2, FS_EmptySet
<1>5. QED
  BY <1>2, <1>3, <1>4

LEMMA PlacesDiffer ==
  ASSUME NEW S \in SUBSET Nat, IsFiniteSet(S), NEW x \in S, NEW y \in S,
         Cardinality(UpTo(S, x)) = Cardinality(UpTo(S, y))
  PROVE  x = y
<1>1. ASSUME NEW a \in S, NEW b \in S, a < b, Cardinality(UpTo(S, a)) = Cardinality(UpTo(S, b))
      PROVE  FALSE
  <2>1. UpTo(S, a) \in SUBSET UpTo(S, b) /\ b \in UpTo(S, b) /\ b \notin UpTo(S, a)
    <3>1. a \in Nat /\ b \in Nat /\ \A z \in S : z \in Nat
      OBVIOUS
    <3>2. b \in UpTo(S, b) /\ b \notin UpTo(S, a)
      BY <1>1, <3>1 DEF UpTo
    <3>3. \A z \in UpTo(S, a) : z \in UpTo(S, b)
      BY <1>1, <3>1 DEF UpTo
    <3>4. QED
      BY <3>2, <3>3
  <2>2. IsFiniteSet(UpTo(S, b))
    BY UpToIsFinite
  <2>3. UpTo(S, b) = UpTo(S, a)
    <3>1. Cardinality(UpTo(S, b)) = Cardinality(UpTo(S, a)) => UpTo(S, b) = UpTo(S, a)
      BY <2>1, <2>2, FS_Subset, Zenon
    <3>2. QED
      BY <1>1, <3>1
  <2>4. QED
    BY <2>1, <2>3
<1>2. x \in Nat /\ y \in Nat
  OBVIOUS
<1>3. QED
  BY <1>1, <1>2

LEMMA EveryPlaceIsTaken ==
  ASSUME NEW S \in SUBSET Nat, IsFiniteSet(S), NEW n \in 1 .. Cardinality(S)
  PROVE  Nth(S, n) \in S /\ Cardinality(UpTo(S, Nth(S, n))) = n
<1> DEFINE place == [x \in S |-> Cardinality(UpTo(S, x))]
           Places == 1 .. Cardinality(S)
<1>1. place \in [S -> Places]
  BY UpToIsFinite
<1>2. place \in Injection(S, Places)
  <2>1. \A x, y \in S : place[x] = place[y] => x = y
    BY PlacesDiffer
  <2>2. QED
    BY <1>1, <2>1 DEF Injection, IsInjective
<1>3. Cardinality(S) \in Nat
  BY FS_CardinalityType
<1>4. IsFiniteSet(Places) /\ Cardinality(Places) = Cardinality(S)
  BY <1>3, FS_Interval
<1>5. place \in Surjection(S, Places)
  <2> HIDE DEF place, Places
  <2>1. QED
    BY <1>2, <1>4, FS_Injection
<1>6. \E x \in S : Cardinality(UpTo(S, x)) = n
  BY <1>5 DEF Surjection
<1>7. QED
  BY <1>6 DEF Nth, UpTo

LEMMA EachHasItsPlace ==
  ASSUME NEW S \in SUBSET Nat, IsFiniteSet(S), NEW x \in S
  PROVE  Nth(S, Cardinality(UpTo(S, x))) = x
<1>1. PICK y : y = Nth(S, Cardinality(UpTo(S, x)))
  OBVIOUS
<1>2. Cardinality(UpTo(S, x)) \in 1 .. Cardinality(S)
  BY UpToIsFinite
<1>3. y \in S /\ Cardinality(UpTo(S, y)) = Cardinality(UpTo(S, x))
  BY <1>1, <1>2, EveryPlaceIsTaken
<1>4. y = x
  BY <1>3, PlacesDiffer, Zenon
<1>5. QED
  BY <1>1, <1>4

LEMMA AscendingLists ==
  ASSUME NEW S \in SUBSET Nat, IsFiniteSet(S)
  PROVE  /\ Ascending(S) \in Seq(S) /\ Len(Ascending(S)) = Cardinality(S)
         /\ ToSet(Ascending(S)) = S
<1>1. Cardinality(S) \in Nat
  BY FS_CardinalityType
<1>2. \A n \in 1 .. Cardinality(S) : Nth(S, n) \in S
  BY EveryPlaceIsTaken
<1>3. Ascending(S) \in Seq(S) /\ Len(Ascending(S)) = Cardinality(S)
  BY <1>1, <1>2, IsASeq DEF Ascending
<1>4. ASSUME NEW x \in S PROVE x \in ToSet(Ascending(S))
  <2>1. Cardinality(UpTo(S, x)) \in 1 .. Cardinality(S)
    BY UpToIsFinite
  <2>2. Ascending(S)[Cardinality(UpTo(S, x))] = x
    BY <2>1, EachHasItsPlace DEF Ascending
  <2>3. QED
    BY <2>1, <2>2 DEF ToSet, Ascending
<1>5. \A x \in ToSet(Ascending(S)) : x \in S
  BY <1>2 DEF ToSet, Ascending
<1>6. QED
  BY <1>3, <1>4, <1>5

(* What a list has of a set.                                                 *)
PlacesOf(s, X) == {i \in DOMAIN s : s[i] \in X}

LEMMA PlacesAreFinite ==
  ASSUME NEW T, NEW s \in Seq(T), NEW X
  PROVE  /\ PlacesOf(s, X) \in SUBSET Nat /\ PlacesOf(s, X) \in SUBSET (1 .. Len(s))
         /\ IsFiniteSet(PlacesOf(s, X)) /\ Cardinality(PlacesOf(s, X)) <= Len(s)
<1>1. Len(s) \in Nat /\ DOMAIN s = 1 .. Len(s)
  BY LenProperties
<1>2. PlacesOf(s, X) \in SUBSET (1 .. Len(s))
  BY <1>1 DEF PlacesOf
<1>3. IsFiniteSet(1 .. Len(s)) /\ Cardinality(1 .. Len(s)) = Len(s)
  BY <1>1, FS_Interval
<1>4. QED
  BY <1>2, <1>3, FS_Subset

LEMMA AmongLists ==
  ASSUME NEW T, NEW s \in Seq(T), NEW X
  PROVE  /\ Among(s, X) \in Seq(T)
         /\ Len(Among(s, X)) = Cardinality(PlacesOf(s, X)) /\ Len(Among(s, X)) <= Len(s)
         /\ \A n \in 1 .. Len(Among(s, X)) : Among(s, X)[n] = s[Nth(PlacesOf(s, X), n)]
         /\ ToSet(Among(s, X)) = X \cap ToSet(s)
<1> DEFINE P == PlacesOf(s, X)
           places == Ascending(P)
<1>1. P \in SUBSET Nat /\ IsFiniteSet(P) /\ Cardinality(P) <= Len(s) /\ P \subseteq DOMAIN s
  BY PlacesAreFinite DEF PlacesOf
<1>2. Cardinality(P) \in Nat
  BY <1>1, FS_CardinalityType
<1>3. places \in Seq(P) /\ ToSet(places) = P
  BY <1>1, AscendingLists
<1>4. Among(s, X) = [n \in 1 .. Cardinality(P) |-> s[places[n]]]
  BY DEF Among, PlacesOf, Ascending
<1>5. \A n \in 1 .. Cardinality(P) : places[n] = Nth(P, n) /\ places[n] \in P
  BY <1>1, EveryPlaceIsTaken DEF Ascending
<1>6. \A n \in 1 .. Cardinality(P) : s[places[n]] \in T /\ s[places[n]] \in X
  BY <1>1, <1>5, ElementOfSeq, LenProperties DEF PlacesOf
<1>7. Among(s, X) \in Seq(T) /\ Len(Among(s, X)) = Cardinality(P)
  <2> HIDE DEF places, P
  <2>1. QED
    BY <1>2, <1>4, <1>6, IsASeq
<1>8. ToSet(Among(s, X)) = X \cap ToSet(s)
  <2>1. DOMAIN places = 1 .. Cardinality(P)
    BY DEF Ascending
  <2>2. ASSUME NEW x \in X \cap ToSet(s) PROVE x \in ToSet(Among(s, X))
    <3>1. PICK i \in P : s[i] = x
      BY DEF ToSet, PlacesOf
    <3>2. PICK n \in 1 .. Cardinality(P) : places[n] = i
      BY <1>3, <2>1, <3>1 DEF ToSet
    <3> HIDE DEF places, P
    <3>3. QED
      BY <1>4, <3>1, <3>2 DEF ToSet
  <2>3. ASSUME NEW x \in ToSet(Among(s, X)) PROVE x \in X \cap ToSet(s)
    <3>1. PICK n \in 1 .. Cardinality(P) : x = s[places[n]]
      <4> HIDE DEF places, P
      <4>1. QED
        BY <1>4, <2>3 DEF ToSet
    <3>2. places[n] \in DOMAIN s
      BY <1>1, <1>5
    <3>3. QED
      BY <1>6, <3>1, <3>2 DEF ToSet
  <2>4. QED
    BY <2>2, <2>3
<1>9. QED
  BY <1>1, <1>4, <1>5, <1>7, <1>8

(* The same of a list, whatever else the set has.                            *)
LEMMA AmongSame ==
  ASSUME NEW s, NEW X, NEW Y, X \cap ToSet(s) = Y \cap ToSet(s)
  PROVE  Among(s, X) = Among(s, Y)
<1>1. \A i \in DOMAIN s : s[i] \in X <=> s[i] \in Y
  BY DEF ToSet
<1>2. {i \in DOMAIN s : s[i] \in X} = {i \in DOMAIN s : s[i] \in Y}
  BY <1>1
<1>3. QED
  BY <1>2 DEF Among

(* A list that another starts with has the start of what that one has.       *)
Starts(s, t) == Len(s) <= Len(t) /\ \A i \in 1 .. Len(s) : t[i] = s[i]

LEMMA FirstPlaces ==
  ASSUME NEW I \in SUBSET Nat, IsFiniteSet(I), NEW m \in Nat, NEW J, J = {i \in I : i <= m},
         NEW n \in 1 .. Cardinality(J)
  PROVE  /\ Cardinality(J) <= Cardinality(I)
         /\ Nth(I, n) = Nth(J, n)
<1>1. J \in SUBSET I /\ J \in SUBSET Nat
  OBVIOUS
<1>2. IsFiniteSet(J) /\ Cardinality(J) <= Cardinality(I)
  BY <1>1, FS_Subset
<1>3. PICK x : x = Nth(J, n)
  OBVIOUS
<1>4. x \in J /\ Cardinality(UpTo(J, x)) = n
  BY <1>1, <1>2, <1>3, EveryPlaceIsTaken
<1>5. UpTo(J, x) = UpTo(I, x)
  <2>1. x \in Nat /\ x <= m /\ \A z \in I : z \in Nat
    BY <1>4
  <2>2. \A z \in I : z <= x => z <= m
    BY <2>1
  <2>3. \A z : z \in {y \in J : y <= x} <=> z \in {y \in I : y <= x}
    BY <2>2
  <2>4. QED
    BY <2>3 DEF UpTo
<1>6. Nth(I, Cardinality(UpTo(I, x))) = x
  BY <1>4, EachHasItsPlace
<1>7. QED
  BY <1>2, <1>3, <1>4, <1>5, <1>6

LEMMA AmongStarts ==
  ASSUME NEW T, NEW s \in Seq(T), NEW t \in Seq(T), Starts(s, t), NEW X
  PROVE  Starts(Among(s, X), Among(t, X))
<1> DEFINE I == PlacesOf(t, X)
           J == PlacesOf(s, X)
<1>1. Len(s) \in Nat /\ Len(t) \in Nat /\ DOMAIN s = 1 .. Len(s) /\ DOMAIN t = 1 .. Len(t)
  BY LenProperties
<1>2. J = {i \in I : i <= Len(s)}
  BY <1>1 DEF PlacesOf, Starts
<1>3. I \in SUBSET Nat /\ IsFiniteSet(I) /\ J \in SUBSET Nat /\ IsFiniteSet(J)
  BY PlacesAreFinite
<1>4. /\ Len(Among(s, X)) = Cardinality(J) /\ Len(Among(t, X)) = Cardinality(I)
      /\ \A n \in 1 .. Cardinality(J) : Among(s, X)[n] = s[Nth(J, n)]
      /\ \A n \in 1 .. Cardinality(I) : Among(t, X)[n] = t[Nth(I, n)]
  BY AmongLists
<1>5. Cardinality(J) \in Nat /\ Cardinality(I) \in Nat
  BY <1>3, FS_CardinalityType
<1>6. Cardinality(J) <= Cardinality(I)
  <2>1. J \in SUBSET I
    BY <1>2
  <2>2. QED
    BY <1>3, <2>1, FS_Subset
<1>7. ASSUME NEW n \in 1 .. Cardinality(J)
      PROVE  Among(t, X)[n] = Among(s, X)[n]
  <2>1. Nth(I, n) = Nth(J, n)
    <3> HIDE DEF I, J
    <3>1. QED
      BY <1>1, <1>2, <1>3, FirstPlaces
  <2>2. Nth(J, n) \in J
    BY <1>3, EveryPlaceIsTaken
  <2>3. Nth(J, n) \in 1 .. Len(s)
    BY <1>1, <2>2 DEF PlacesOf
  <2>4. t[Nth(J, n)] = s[Nth(J, n)]
    BY <2>3 DEF Starts
  <2>5. n \in 1 .. Cardinality(I)
    BY <1>5, <1>6
  <2> HIDE DEF I, J
  <2>6. QED
    BY <1>4, <2>1, <2>4, <2>5
<1>8. QED
  BY <1>4, <1>5, <1>6, <1>7 DEF Starts

-------------------------------------------------------------------------------
NavTyped ==
  /\ order \in Seq(Ids) /\ enabled \in [Ids -> BOOLEAN] /\ DOMAIN snapshots \in SUBSET Ids
  /\ sortedIDs \in Seq(Ids) /\ cursor \in Int

(* The tiles stand in the order of their accounts, as long as all have one.  *)
TilesInOrder ==
  ToSet(sortedIDs) \subseteq ToSet(order) => sortedIDs = Among(order, ToSet(sortedIDs))

NavInv == NavTyped /\ TilesInOrder /\ CursorWithinTiles

LEMMA SomeIds ==
  ASSUME NEW S \in SUBSET Ids
  PROVE  /\ S \in SUBSET Nat /\ IsFiniteSet(S)
         /\ Ascending(S) \in Seq(Ids) /\ ToSet(Ascending(S)) = S
<1>1. S \in SUBSET Nat /\ IsFiniteSet(S)
  BY NavAssumption, FS_Subset
<1>2. Ascending(S) \in Seq(S) /\ ToSet(Ascending(S)) = S
  BY <1>1, AscendingLists
<1>3. QED
  BY <1>1, <1>2, SeqMonotonic

LEMMA ConcatLists ==
  ASSUME NEW s \in Seq(Ids), NEW t \in Seq(Ids)
  PROVE  /\ s \o t \in Seq(Ids) /\ ToSet(s \o t) = ToSet(s) \cup ToSet(t)
         /\ Starts(s, s \o t)
<1>1. /\ s \o t \in Seq(Ids) /\ Len(s \o t) = Len(s) + Len(t)
      /\ \A i \in 1 .. Len(s) + Len(t) : (s \o t)[i] = IF i <= Len(s) THEN s[i] ELSE t[i - Len(s)]
  BY ConcatProperties
<1>2. Len(s) \in Nat /\ Len(t) \in Nat /\ DOMAIN s = 1 .. Len(s) /\ DOMAIN t = 1 .. Len(t)
      /\ DOMAIN (s \o t) = 1 .. Len(s) + Len(t)
  BY <1>1, LenProperties
<1>3. \A x \in ToSet(s) : x \in ToSet(s \o t)
  BY <1>1, <1>2 DEF ToSet
<1>4. ASSUME NEW x \in ToSet(t) PROVE x \in ToSet(s \o t)
  <2>1. PICK i \in 1 .. Len(t) : x = t[i]
    BY <1>2 DEF ToSet
  <2>2. i + Len(s) \in 1 .. Len(s) + Len(t) /\ ~ (i + Len(s) <= Len(s)) /\ (i + Len(s)) - Len(s) = i
    BY <1>2
  <2>3. (s \o t)[i + Len(s)] = x
    BY <1>1, <2>1, <2>2
  <2>4. QED
    BY <1>2, <2>2, <2>3 DEF ToSet
<1>5. ASSUME NEW x \in ToSet(s \o t) PROVE x \in ToSet(s) \cup ToSet(t)
  <2>1. PICK i \in 1 .. Len(s) + Len(t) : x = (s \o t)[i]
    BY <1>2 DEF ToSet
  <2>2. CASE i <= Len(s)
    BY <1>1, <1>2, <2>1, <2>2 DEF ToSet
  <2>3. CASE ~ (i <= Len(s))
    <3>1. i - Len(s) \in 1 .. Len(t)
      BY <1>2, <2>3
    <3>2. QED
      BY <1>1, <1>2, <2>1, <2>3, <3>1 DEF ToSet
  <2>4. QED
    BY <2>2, <2>3
<1>6. Starts(s, s \o t)
  BY <1>1, <1>2 DEF Starts
<1>7. QED
  BY <1>1, <1>3, <1>4, <1>5, <1>6

(* A rebuild lists the shown accounts that have a snapshot.                  *)
LEMMA ListedLists ==
  ASSUME NEW o \in Seq(Ids), NEW e, NEW S \in SUBSET Ids
  PROVE  /\ Listed(o, e, S) \in Seq(Ids)
         /\ ToSet(Listed(o, e, S)) = {id \in S : e[id]}
         /\ {id \in S : e[id]} \subseteq ToSet(o) => Listed(o, e, S) = Among(o, {id \in S : e[id]})
<1> DEFINE on == {id \in S : e[id]}
           new == {id \in S \ ToSet(o) : e[id]}
<1>1. Among(o, on) \in Seq(Ids) /\ ToSet(Among(o, on)) = on \cap ToSet(o)
  BY AmongLists
<1>2. Ascending(new) \in Seq(Ids) /\ ToSet(Ascending(new)) = new
  BY SomeIds
<1>3. on = (on \cap ToSet(o)) \cup new
  OBVIOUS
<1>4. Listed(o, e, S) = Among(o, on) \o Ascending(new)
  BY DEF Listed
<1>5. ASSUME on \subseteq ToSet(o) PROVE Listed(o, e, S) = Among(o, on)
  <2>1. new = {}
    BY <1>5
  <2>2. Ascending(new) = << >>
    <3>1. Cardinality(new) = 0
      BY <2>1, FS_EmptySet
    <3>2. Len(Ascending(new)) = 0
      <4>1. new \in SUBSET Nat /\ IsFiniteSet(new)
        BY SomeIds
      <4>2. QED
        BY <3>1, <4>1, AscendingLists
    <3> HIDE DEF new
    <3>3. QED
      BY <1>2, <3>2, EmptySeq
  <2> HIDE DEF on, new
  <2>3. QED
    BY <1>1, <1>4, <2>2, ConcatEmptySeq
<1> HIDE DEF on, new
<1>6. Listed(o, e, S) \in Seq(Ids) /\ ToSet(Listed(o, e, S)) = on
  BY <1>1, <1>2, <1>3, <1>4, ConcatLists
<1>7. QED
  BY <1>5, <1>6 DEF on

LEMMA RebuildKeeps ==
  ASSUME NavTyped, NEW o \in Seq(Ids), NEW e \in [Ids -> BOOLEAN], NEW shots,
         DOMAIN shots \in SUBSET Ids, RebuildSortedIDs(o, e, shots)
  PROVE  NavInv'
<1> DEFINE S == DOMAIN shots
<1>1. /\ order' = o /\ enabled' = e /\ snapshots' = shots /\ sortedIDs' = Listed(o, e, S)
      /\ cursor' = CursorIn(Len(Listed(o, e, S)))
  BY DEF RebuildSortedIDs
<1>2. S \in SUBSET Ids
  OBVIOUS
<1> HIDE DEF S
<1>3. /\ Listed(o, e, S) \in Seq(Ids) /\ ToSet(Listed(o, e, S)) = {id \in S : e[id]}
      /\ {id \in S : e[id]} \subseteq ToSet(o) => Listed(o, e, S) = Among(o, {id \in S : e[id]})
  BY <1>2, ListedLists
<1>4. TilesInOrder'
  BY <1>1, <1>3 DEF TilesInOrder
<1>5. Len(Listed(o, e, S)) \in Nat
  BY <1>3, LenProperties
<1>6. cursor' \in Int /\ (cursor' < Len(Listed(o, e, S)) \/ cursor' <= 0)
  BY <1>1, <1>5 DEF CursorIn, NavTyped
<1>7. QED
  BY <1>1, <1>3, <1>4, <1>6 DEF NavInv, NavTyped, CursorWithinTiles

LEMMA NavStarts == NavInit => NavInv
<1>1. Known \in Seq(Ids)
  BY NavAssumption
<1>2. << >> \in Seq(Ids) /\ ToSet(<< >>) = {}
  BY DEF ToSet
<1>3. Among(Known, {}) = << >>
  <2>1. PlacesOf(Known, {}) = {}
    BY DEF PlacesOf
  <2>2. Among(Known, {}) \in Seq(Ids) /\ Len(Among(Known, {})) = Cardinality(PlacesOf(Known, {}))
    BY <1>1, AmongLists
  <2>3. Len(Among(Known, {})) = 0
    BY <2>1, <2>2, FS_EmptySet
  <2>4. QED
    BY <2>2, <2>3, EmptySeq
<1>4. ASSUME NavInit PROVE TilesInOrder
  <2>1. order = Known /\ ToSet(sortedIDs) = {} /\ sortedIDs = << >>
    BY <1>2, <1>4 DEF NavInit
  <2>2. QED
    BY <1>3, <2>1 DEF TilesInOrder
<1>5. NavInit => NavTyped /\ CursorWithinTiles
  BY <1>1, <1>2 DEF NavInit, NavTyped, CursorWithinTiles
<1>6. QED
  BY <1>4, <1>5 DEF NavInv

LEMMA FilteredLists ==
  ASSUME NavTyped
  PROVE  FilteredIDs \in Seq(Ids) /\ Tiles \in Nat /\ Tiles <= Len(sortedIDs) /\ Len(sortedIDs) \in Nat
<1>1. sortedIDs \in Seq(Ids) /\ Len(sortedIDs) \in Nat
  BY LenProperties DEF NavTyped
<1> DEFINE X == {id \in Ids : Passes(id)}
<1> HIDE DEF X
<1>2. Among(sortedIDs, X) \in Seq(Ids) /\ Len(Among(sortedIDs, X)) <= Len(sortedIDs)
  BY <1>1, AmongLists
<1>3. Len(Among(sortedIDs, X)) \in Nat
  BY <1>2, LenProperties
<1>4. QED
  BY <1>1, <1>2, <1>3 DEF FilteredIDs, Tiles, X

LEMMA FrameDomain ==
  ASSUME NEW shots \in Frames
  PROVE  DOMAIN shots \in SUBSET Ids
BY DEF Frames

(* The accounts of a frame find a place behind those known.                  *)
LEMMA KnownOrderLists ==
  ASSUME NavTyped, NEW S \in SUBSET Ids
  PROVE  /\ KnownOrder(S) \in Seq(Ids) /\ Starts(order, KnownOrder(S))
         /\ ToSet(KnownOrder(S)) = ToSet(order) \cup S
<1>1. /\ Ascending(S \ ToSet(order)) \in Seq(Ids)
      /\ ToSet(Ascending(S \ ToSet(order))) = S \ ToSet(order)
  BY SomeIds
<1>2. order \in Seq(Ids)
  BY DEF NavTyped
<1>3. /\ KnownOrder(S) \in Seq(Ids) /\ Starts(order, KnownOrder(S))
      /\ ToSet(KnownOrder(S)) = ToSet(order) \cup (S \ ToSet(order))
  BY <1>1, <1>2, ConcatLists DEF KnownOrder
<1>4. QED
  BY <1>3

LEMMA NavSteps ==
  ASSUME NavInv, [NavNext]_navVars
  PROVE  NavInv'
<1>1. ASSUME TilesSame, cursor' \in Int, cursor' < Len(sortedIDs) \/ cursor' <= 0
      PROVE  NavInv'
  BY <1>1 DEF NavInv, NavTyped, TilesInOrder, CursorWithinTiles, TilesSame
<1>2. ASSUME TilesSame, UNCHANGED cursor
      PROVE  NavInv'
  BY <1>2 DEF NavInv, NavTyped, TilesInOrder, CursorWithinTiles, TilesSame
<1>3. Tiles \in Nat /\ Tiles <= Len(sortedIDs) /\ Len(sortedIDs) \in Nat /\ cursor \in Int
  BY FilteredLists DEF NavInv, NavTyped
<1>4. ASSUME NEW val \in Int PROVE LET c == Clamp(val, 0, Tiles - 1)
                                   IN c \in Int /\ (c < Len(sortedIDs) \/ c <= 0)
  BY <1>3 DEF Clamp
<1>5. ASSUME NEW shots \in Frames, Frame(shots) PROVE NavInv'
  <2>1. DOMAIN snapshots \in SUBSET Ids /\ enabled \in [Ids -> BOOLEAN]
    BY DEF NavInv, NavTyped
  <2>2. PICK R : DOMAIN R \in SUBSET Ids /\ RebuildSortedIDs(KnownOrder(DOMAIN R), enabled, R)
    BY <1>5, <2>1, FrameDomain DEF Frame
  <2>3. KnownOrder(DOMAIN R) \in Seq(Ids)
    BY <2>2, KnownOrderLists DEF NavInv
  <2>4. QED
    BY <2>1, <2>2, <2>3, RebuildKeeps DEF NavInv
<1>6. ASSUME NEW shots \in Frames, FrameBeforeAnswer(shots) PROVE NavInv'
  BY <1>6, FrameDomain DEF FrameBeforeAnswer, NavInv, NavTyped, TilesInOrder, CursorWithinTiles
<1>7. CASE Up \/ Down \/ Home \/ End
  BY <1>1, <1>3, <1>7 DEF Up, Down, Home, End, CursorMoves, NavInv, CursorWithinTiles
<1>8. ASSUME NEW d \in Steps, Jump(d) \/ Page(d) PROVE NavInv'
  <2>1. cursor + d \in Int /\ cursor - d \in Int
    BY <1>3, NavAssumption
  <2>2. TilesSame /\ \E val \in Int : cursor' = Clamp(val, 0, Tiles - 1)
    BY <1>8, <2>1 DEF Jump, Page, CursorMoves
  <2>3. QED
    BY <1>1, <1>4, <2>2
<1>9. ASSUME NEW i, Click(i) PROVE NavInv'
  <2>1. i \in 0 .. Tiles - 1 /\ TilesSame /\ (cursor' = i \/ UNCHANGED cursor)
    BY <1>9 DEF Click, SetMode, CursorMoves
  <2>2. QED
    BY <1>1, <1>2, <1>3, <2>1
<1>10. CASE EnterDetail \/ ExitDetail \/ RequestRefresh \/ Close \/ StartFilter
  BY <1>2, <1>10 DEF EnterDetail, ExitDetail, SetMode, RequestRefresh, Close, StartFilter
<1>11. ASSUME NEW w, SetDashboardView(w) \/ TypeFilter(w) \/ Open(w) PROVE NavInv'
  BY <1>2, <1>11 DEF SetDashboardView, TypeFilter, Open
<1>12. ASSUME NEW t, EndFilter(t) PROVE NavInv'
  BY <1>1, <1>12 DEF EndFilter
<1>13. ASSUME NEW i, ToggleProvider(i) \/ MoveSelectedProvider(i) PROVE NavInv'
  <2>1. order \in Seq(Ids) /\ enabled \in [Ids -> BOOLEAN] /\ DOMAIN snapshots \in SUBSET Ids
    BY DEF NavInv, NavTyped
  <2>2. DOMAIN order = 1 .. Len(order) /\ \A j \in DOMAIN order : order[j] \in Ids
    BY <2>1, LenProperties, ElementOfSeq
  <2>3. CASE ToggleProvider(i)
    <3> DEFINE e == [enabled EXCEPT ![order[i]] = ~ @]
    <3>1. e \in [Ids -> BOOLEAN] /\ RebuildSortedIDs(order, e, snapshots)
      BY <2>1, <2>2, <2>3 DEF ToggleProvider
    <3> HIDE DEF e
    <3>2. QED
      BY <2>1, <3>1, RebuildKeeps DEF NavInv
  <2>4. CASE MoveSelectedProvider(i)
    <3> DEFINE o == [order EXCEPT ![i] = order[i + 1], ![i + 1] = order[i]]
    <3>1. i \in DOMAIN order /\ i + 1 \in DOMAIN order /\ RebuildSortedIDs(o, enabled, snapshots)
      BY <2>4 DEF MoveSelectedProvider
    <3>2. o \in Seq(Ids)
      <4>1. [order EXCEPT ![i] = order[i + 1]] \in Seq(Ids)
            /\ DOMAIN [order EXCEPT ![i] = order[i + 1]] = DOMAIN order
        BY <2>1, <2>2, <3>1, ExceptSeq
      <4>2. QED
        BY <2>2, <3>1, <4>1, ExceptSeq, LenProperties
    <3> HIDE DEF o
    <3>3. QED
      BY <2>1, <3>1, <3>2, RebuildKeeps DEF NavInv
  <2>5. QED
    BY <1>13, <2>3, <2>4
<1>14. CASE UNCHANGED navVars
  BY <1>2, <1>14 DEF navVars, TilesSame
<1>15. QED
  BY <1>5, <1>6, <1>7, <1>8, <1>9, <1>10, <1>11, <1>12, <1>13, <1>14 DEF NavNext, SomeFrame

(* The cursor never runs past the tiles, however the list shrinks.           *)
THEOREM CursorStaysWithin == NavSpec => []CursorWithinTiles
<1>1. NavInv => CursorWithinTiles
  BY DEF NavInv
<1>2. QED
  BY <1>1, NavStarts, NavSteps, PTL DEF NavSpec

(* A frame without losses leaves the tiles there were, with more behind.     *)
LEMMA FrameAppends ==
  ASSUME NavInv, NEW shots \in Frames, Frame(shots),
         ToSet(sortedIDs) \subseteq ToSet(sortedIDs') \cap ToSet(order),
         ToSet(sortedIDs') \cap ToSet(order) \subseteq ToSet(sortedIDs)
  PROVE  sortedIDs' \in Seq(Ids) /\ Starts(sortedIDs, sortedIDs')
<1>1. DOMAIN snapshots \in SUBSET Ids /\ order \in Seq(Ids)
  BY DEF NavInv, NavTyped
<1>2. PICK new : DOMAIN new \in SUBSET Ids /\ RebuildSortedIDs(KnownOrder(DOMAIN new), enabled, new)
  BY <1>1, FrameDomain DEF Frame
<1> DEFINE R == DOMAIN new
           on == {id \in R : enabled[id]}
<1>3. /\ KnownOrder(R) \in Seq(Ids) /\ Starts(order, KnownOrder(R))
      /\ ToSet(KnownOrder(R)) = ToSet(order) \cup R
  BY <1>2, KnownOrderLists DEF NavInv
<1>4. sortedIDs' = Listed(KnownOrder(R), enabled, R) /\ R \in SUBSET Ids
  BY <1>2 DEF RebuildSortedIDs
<1> HIDE DEF R
<1>5. /\ sortedIDs' \in Seq(Ids) /\ ToSet(sortedIDs') = on
      /\ on \subseteq ToSet(KnownOrder(R)) => sortedIDs' = Among(KnownOrder(R), on)
  BY <1>3, <1>4, ListedLists
<1>6. sortedIDs' = Among(KnownOrder(R), on)
  BY <1>3, <1>5
<1>7. sortedIDs = Among(order, ToSet(sortedIDs))
  BY DEF NavInv, TilesInOrder
<1>8. Among(order, ToSet(sortedIDs)) = Among(order, on)
  <2>1. ToSet(sortedIDs) \cap ToSet(order) = on \cap ToSet(order)
    BY <1>5
  <2> HIDE DEF on
  <2>2. QED
    BY <2>1, AmongSame
<1> HIDE DEF on
<1>9. Starts(Among(order, on), Among(KnownOrder(R), on))
  BY <1>1, <1>3, AmongStarts
<1>10. QED
  BY <1>5, <1>6, <1>7, <1>8, <1>9

(* Where the account under the cursor stands in the list: as many before it  *)
(* pass the filter as the cursor says.                                       *)
LEMMA SelectedStands ==
  ASSUME NavTyped, Selected # 0
  PROVE  /\ cursor \in Nat /\ cursor < Tiles
         /\ \E k \in 1 .. Len(sortedIDs) :
              /\ sortedIDs[k] = Selected
              /\ Among(SubSeq(sortedIDs, 1, k), {id \in Ids : Passes(id)}) \in Seq(Ids)
              /\ Len(Among(SubSeq(sortedIDs, 1, k), {id \in Ids : Passes(id)})) = cursor + 1
<1> DEFINE X == {id \in Ids : Passes(id)}
           P == PlacesOf(sortedIDs, X)
           n == cursor + 1
           k == Nth(P, n)
           u == SubSeq(sortedIDs, 1, k)
<1>1. /\ sortedIDs \in Seq(Ids) /\ FilteredIDs = Among(sortedIDs, X) /\ Tiles \in Nat
      /\ cursor \in Nat /\ cursor < Tiles /\ Selected = FilteredIDs[n] /\ n \in 1 .. Tiles
  BY FilteredLists DEF NavTyped, Selected, FilteredIDs, Tiles
<1> HIDE DEF X
<1>2. P \in SUBSET Nat /\ IsFiniteSet(P) /\ P \subseteq DOMAIN sortedIDs
  BY <1>1, PlacesAreFinite DEF PlacesOf
<1>3. Tiles = Cardinality(P) /\ Selected = sortedIDs[k]
  BY <1>1, AmongLists DEF Tiles
<1>4. k \in P /\ Cardinality(UpTo(P, k)) = n
  <2> HIDE DEF P, n
  <2>1. QED
    BY <1>1, <1>2, <1>3, EveryPlaceIsTaken
<1>5. k \in 1 .. Len(sortedIDs) /\ Len(sortedIDs) \in Nat
  BY <1>1, <1>2, <1>4, LenProperties
<1> HIDE DEF k, n
<1>6. u \in Seq(Ids) /\ Len(u) = k /\ \A i \in 1 .. k : u[i] = sortedIDs[i]
  BY <1>1, <1>5, SubSeqProperties
<1>7. PlacesOf(u, X) = UpTo(P, k)
  <2> HIDE DEF u
  <2>1. DOMAIN u = 1 .. k /\ DOMAIN sortedIDs = 1 .. Len(sortedIDs)
    BY <1>1, <1>6, LenProperties
  <2>2. QED
    BY <1>5, <1>6, <2>1 DEF PlacesOf, UpTo
<1>8. Among(u, X) \in Seq(Ids) /\ Len(Among(u, X)) = n
  <2> HIDE DEF u, P
  <2>1. QED
    BY <1>4, <1>6, <1>7, AmongLists
<1>9. QED
  BY <1>1, <1>3, <1>5, <1>8 DEF X, n

(* So it stands there after the frame: in front of it the tiles are the same *)
(* and the filter passes the same.                                           *)
LEMMA FilterKeepsStart ==
  ASSUME NavTyped, Selected # 0, sortedIDs' \in Seq(Ids), Starts(sortedIDs, sortedIDs'),
         \A id \in UpToSelected : Passes(id) <=> Passes(id)'
  PROVE  /\ cursor + 1 \in 1 .. Len(FilteredIDs')
         /\ FilteredIDs'[cursor + 1] = Selected
<1> DEFINE X == {id \in Ids : Passes(id)}
           Y == {id \in Ids : Passes(id)'}
<1>1. /\ sortedIDs \in Seq(Ids) /\ cursor \in Nat /\ cursor < Tiles
      /\ Len(sortedIDs) \in Nat /\ Len(sortedIDs') \in Nat
  BY SelectedStands, LenProperties DEF NavTyped
<1>2. PICK k \in 1 .. Len(sortedIDs) :
        /\ sortedIDs[k] = Selected
        /\ Among(SubSeq(sortedIDs, 1, k), X) \in Seq(Ids)
        /\ Len(Among(SubSeq(sortedIDs, 1, k), X)) = cursor + 1
  BY SelectedStands
<1>3. PICK u : u = SubSeq(sortedIDs, 1, k)
  OBVIOUS
<1>4. u \in Seq(Ids) /\ Len(u) = k /\ \A i \in 1 .. k : u[i] = sortedIDs[i]
  BY <1>1, <1>3, SubSeqProperties
<1>5. Starts(u, sortedIDs) /\ Starts(u, sortedIDs')
  BY <1>1, <1>4 DEF Starts
<1>6. X \cap ToSet(u) = Y \cap ToSet(u)
  <2>1. ToSet(u) \subseteq UpToSelected
    <3>1. DOMAIN u = 1 .. k /\ DOMAIN sortedIDs = 1 .. Len(sortedIDs)
      BY <1>1, <1>4, LenProperties
    <3>2. QED
      BY <1>2, <1>4, <3>1 DEF ToSet, UpToSelected
  <2>2. QED
    BY <2>1
<1>7. FilteredIDs = Among(sortedIDs, X) /\ FilteredIDs' = Among(sortedIDs', Y)
  BY DEF FilteredIDs
<1> HIDE DEF X, Y
<1>8. Among(u, X) = Among(u, Y)
  BY <1>6, AmongSame
<1>9. Starts(Among(u, X), FilteredIDs) /\ Starts(Among(u, Y), FilteredIDs')
  BY <1>1, <1>4, <1>5, <1>7, AmongStarts
<1>10. Len(FilteredIDs') \in Nat
  BY <1>7, AmongLists, LenProperties
<1>11. cursor + 1 \in 1 .. Len(Among(u, X)) /\ Len(Among(u, X)) = cursor + 1
  BY <1>1, <1>2, <1>3
<1>12. FilteredIDs'[cursor + 1] = FilteredIDs[cursor + 1] /\ cursor + 1 <= Len(FilteredIDs')
  BY <1>8, <1>9, <1>11 DEF Starts
<1>13. Selected = FilteredIDs[cursor + 1]
  BY DEF Selected
<1>14. QED
  BY <1>1, <1>10, <1>12, <1>13

LEMMA FrameKeepsSelection ==
  ASSUME NavInv, SomeFrame, WithoutLosses, Selected # 0
  PROVE  Selected' = Selected
<1>1. PICK shots \in Frames : Frame(shots) \/ FrameBeforeAnswer(shots)
  BY DEF SomeFrame
<1>2. sortedIDs \in Seq(Ids) /\ Len(sortedIDs) \in Nat
  BY LenProperties DEF NavInv, NavTyped
<1>3. sortedIDs' \in Seq(Ids) /\ Starts(sortedIDs, sortedIDs') /\ Len(sortedIDs') \in Nat
  <2>1. CASE Frame(shots)
    BY <2>1, FrameAppends, LenProperties DEF WithoutLosses
  <2>2. CASE FrameBeforeAnswer(shots)
    BY <1>2, <2>2 DEF FrameBeforeAnswer, Starts
  <2>3. QED
    BY <1>1, <2>1, <2>2
<1>4. /\ cursor \in Nat /\ cursor < Tiles /\ Tiles \in Nat /\ Tiles <= Len(sortedIDs)
      /\ Len(sortedIDs) <= Len(sortedIDs')
  BY <1>3, SelectedStands, FilteredLists DEF NavInv, Starts
<1>5. cursor' = cursor
  <2>1. CASE Frame(shots)
    <3>1. cursor' = CursorIn(Len(sortedIDs'))
      BY <2>1 DEF Frame, RebuildSortedIDs
    <3>2. QED
      BY <1>2, <1>3, <1>4, <3>1 DEF CursorIn
  <2>2. CASE FrameBeforeAnswer(shots)
    BY <2>2 DEF FrameBeforeAnswer
  <2>3. QED
    BY <1>1, <2>1, <2>2
<1>6. cursor + 1 \in 1 .. Tiles' /\ FilteredIDs'[cursor + 1] = Selected
  BY <1>3, FilterKeepsStart DEF NavInv, WithoutLosses, Tiles
<1>7. PICK n : n = Tiles'
  OBVIOUS
<1>8. cursor \in 0 .. n - 1
  <2>1. n \in Nat
    <3>1. NavInv'
      BY <1>1, NavSteps DEF NavNext, SomeFrame
    <3>2. (Tiles \in Nat)'
      BY <3>1, FilteredLists, PTL DEF NavInv
    <3>3. QED
      BY <1>7, <3>2
  <2>2. cursor + 1 \in 1 .. n
    BY <1>6, <1>7, Zenon
  <2>3. QED
    BY <1>4, <2>1, <2>2
<1>9. QED
  BY <1>5, <1>6, <1>7, <1>8 DEF Selected

(* The cursor stays on the account that a user has put it on, through every  *)
(* frame without losses, for any accounts, filter texts and contents of      *)
(* snapshots (model.go:1084-1123).                                           *)
THEOREM SelectionStays == NavSpec => FramesKeepSelection
<1>1. ASSUME NavInv, [NavNext]_navVars
      PROVE  [Selected # 0 /\ WithoutLosses /\ SomeFrame => Selected' = Selected]_navVars
  BY <1>1, FrameKeepsSelection
<1>2. QED
  BY <1>1, NavStarts, NavSteps, PTL DEF NavSpec, FramesKeepSelection

-------------------------------------------------------------------------------
(* Settings.  The mutex of a process lets one save at a time hold a config,  *)
(* and that config is what it makes of the file, unless it is marked.  A     *)
(* repair holds the file as long as the tail is there.                       *)
EntryShape == [on : BOOLEAN, hide : BOOLEAN]
Entries    == UNION {[D -> EntryShape] : D \in SUBSET SavedAccounts}
Configs    == [theme : Themes, providers : Entries, detected : SUBSET SavedAccounts]
Arguments  == Themes \cup Entries \cup SavedAccounts \cup (SavedAccounts \X BOOLEAN)
                \cup (SUBSET SavedAccounts) \cup Configs
Operations == {"theme", "providers", "hide", "account", "detected", "visible", "all", "repair"}

SaveJob ==
  [proc : Servers \cup {Dash}, op : Operations, arg : Arguments, stage : {"waiting", "holding"},
   cfg : Configs, clean : BOOLEAN, no : Nat]

ArgFits(op, arg) ==
  /\ op = "theme" => arg \in Themes
  /\ op = "providers" => arg \in Entries
  /\ op = "hide" => arg \in SavedAccounts \X BOOLEAN
  /\ op = "account" => arg \in SavedAccounts
  /\ op = "detected" => arg \in SUBSET SavedAccounts
  /\ op \in {"visible", "all", "repair"} => arg \in Configs

SettingsTyped ==
  /\ file \in Configs /\ webCfg \in Configs
  /\ tail \in {"none", "there", "gone"}
  /\ dashEnabled \in [SavedAccounts -> BOOLEAN]
  /\ saves \in Nat
  /\ jobs \in SUBSET SaveJob
  /\ \A j \in jobs : ArgFits(j.op, j.arg)

Held(j, f) == j.stage = "holding" /\ j.clean => j.cfg = Apply(j.op, j.arg, f)
Salvaged(j, f, t) ==
  j.op = "repair" => /\ t # "none"
                     /\ (t = "there" \/ (j.stage = "holding" /\ j.clean)) => j.arg = f

SaveInv ==
  /\ \A j \in jobs : Held(j, file) /\ Salvaged(j, file, tail)
  /\ \A i, j \in jobs : i.stage = "holding" /\ j.stage = "holding" /\ i.proc = j.proc => i = j

LEMMA PutType ==
  ASSUME NEW p \in Entries, NEW a \in SavedAccounts, NEW e \in EntryShape
  PROVE  /\ Put(p, a, e) \in Entries
         /\ \A x \in DOMAIN p : x # a => Put(p, a, e)[x] = p[x]
         /\ Put(p, a, e)[a] = e
<1>1. PICK D \in SUBSET SavedAccounts : p \in [D -> EntryShape]
  BY DEF Entries
<1>2. D \cup {a} \in SUBSET SavedAccounts /\ DOMAIN p = D
  BY <1>1
<1>3. Put(p, a, e) \in [D \cup {a} -> EntryShape]
  BY <1>1, <1>2 DEF Put
<1>4. QED
  BY <1>2, <1>3 DEF Entries, Put

LEMMA EntryType ==
  ASSUME NEW p \in Entries, NEW a \in DOMAIN p
  PROVE  p[a] \in EntryShape /\ p[a].on \in BOOLEAN /\ p[a].hide \in BOOLEAN
BY DEF Entries, EntryShape

(* What each save writes over a config.                                      *)
LEMMA AppliedTo ==
  ASSUME NEW arg, NEW cfg \in Configs
  PROVE  /\ Apply("theme", arg, cfg) = [cfg EXCEPT !.theme = arg]
         /\ Apply("providers", arg, cfg) = [cfg EXCEPT !.providers = arg]
         /\ Apply("hide", arg, cfg) = [cfg EXCEPT !.providers = HideOne(cfg.providers, arg[1], arg[2])]
         /\ Apply("account", arg, cfg) = [cfg EXCEPT !.providers = EnsureEntry(cfg.providers, arg)]
         /\ Apply("detected", arg, cfg) = [cfg EXCEPT !.detected = arg]
         /\ Apply("visible", arg, cfg) = [cfg EXCEPT !.providers = arg.providers]
         /\ Apply("all", arg, cfg) = arg
         /\ Apply("repair", arg, cfg) = arg
BY DEF Apply, Configs

LEMMA HideOneType ==
  ASSUME NEW p \in Entries, NEW a \in SavedAccounts, NEW h \in BOOLEAN
  PROVE  /\ HideOne(p, a, h) \in Entries
         /\ \A x \in DOMAIN p : HideOne(p, a, h)[x].on = p[x].on
         /\ \A x \in DOMAIN p : x # a => HideOne(p, a, h)[x] = p[x]
<1> DEFINE e == Entry(a \in DOMAIN p => p[a].on, h)
<1>1. e \in EntryShape /\ (a \in DOMAIN p => e.on = p[a].on)
  BY EntryType DEF EntryShape, Entry
<1> HIDE DEF e
<1>2. /\ Put(p, a, e) \in Entries
      /\ \A x \in DOMAIN p : x # a => Put(p, a, e)[x] = p[x]
      /\ Put(p, a, e)[a] = e
  BY <1>1, PutType
<1>3. HideOne(p, a, h) = Put(p, a, e)
  BY DEF HideOne, e
<1>4. QED
  BY <1>1, <1>2, <1>3

LEMMA EnsureEntryType ==
  ASSUME NEW p \in Entries, NEW a \in SavedAccounts
  PROVE  /\ EnsureEntry(p, a) \in Entries
         /\ \A x \in DOMAIN p : EnsureEntry(p, a)[x] = p[x]
<1>1. Entry(TRUE, FALSE) \in EntryShape
  BY DEF Entry, EntryShape
<1>2. QED
  BY <1>1, PutType DEF EnsureEntry

LEMMA ApplyType ==
  ASSUME NEW op \in Operations, NEW arg, ArgFits(op, arg), NEW cfg \in Configs
  PROVE  Apply(op, arg, cfg) \in Configs
<1> DEFINE new == Apply(op, arg, cfg)
<1>1. cfg.providers \in Entries
  BY DEF Configs
<1>2. CASE op = "hide"
  <2>1. HideOne(cfg.providers, arg[1], arg[2]) \in Entries
    BY <1>1, <1>2, HideOneType DEF ArgFits
  <2>2. QED
    BY <1>2, <2>1, AppliedTo DEF Configs
<1>3. CASE op = "account"
  <2>1. EnsureEntry(cfg.providers, arg) \in Entries
    BY <1>1, <1>3, EnsureEntryType DEF ArgFits
  <2>2. QED
    BY <1>3, <2>1, AppliedTo DEF Configs
<1>4. CASE op \in {"all", "repair"}
  BY <1>4, AppliedTo DEF ArgFits
<1>5. CASE op = "theme"
  BY <1>5, AppliedTo DEF ArgFits, Configs
<1>6. CASE op = "providers"
  BY <1>6, AppliedTo DEF ArgFits, Configs
<1>7. CASE op = "detected"
  BY <1>7, AppliedTo DEF ArgFits, Configs
<1>8. CASE op = "visible"
  BY <1>8, AppliedTo DEF ArgFits, Configs
<1>9. QED
  BY <1>2, <1>3, <1>4, <1>5, <1>6, <1>7, <1>8 DEF Operations

LEMMA SettingsTypedInit == SettingsInit => SettingsTyped /\ SaveInv
<1>1. ASSUME SettingsInit PROVE file \in Configs
  <2>1. <<>> \in Entries
    BY DEF Entries
  <2>2. file.theme \in Themes
    BY <1>1, SettingsAssumption DEF SettingsInit
  <2>3. QED
    BY <1>1, <2>1, <2>2 DEF SettingsInit, Configs
<1>2. QED
  BY <1>1 DEF SettingsInit, SettingsTyped, SaveInv

(* A save that starts waits, and a repair starts with the file as it is.     *)
LEMMA SaveStarts ==
  ASSUME SettingsTyped, SaveInv, NEW proc \in Servers \cup {Dash}, NEW op \in Operations,
         NEW arg \in Arguments, ArgFits(op, arg), op = "repair" => tail = "there" /\ arg = file,
         StartSave(proc, op, arg), UNCHANGED <<file, tail, webCfg>>,
         dashEnabled' \in [SavedAccounts -> BOOLEAN]
  PROVE  SettingsTyped' /\ SaveInv'
<1> DEFINE j == [proc |-> proc, op |-> op, arg |-> arg, stage |-> "waiting",
                 cfg |-> file, clean |-> TRUE, no |-> saves]
<1>1. /\ j \in SaveJob /\ ArgFits(j.op, j.arg) /\ j.stage = "waiting"
      /\ Held(j, file) /\ Salvaged(j, file, tail)
  BY DEF SettingsTyped, SaveJob, Held, Salvaged
<1>2. jobs' = jobs \cup {j} /\ saves' \in Nat
  BY DEF StartSave, SettingsTyped
<1> HIDE DEF j
<1>3. SettingsTyped'
  BY <1>1, <1>2 DEF SettingsTyped
<1>4. SaveInv'
  BY <1>1, <1>2 DEF SaveInv
<1>5. QED
  BY <1>3, <1>4

(* A job replaced by itself with the config it holds.                        *)
LEMMA SaveLocks ==
  ASSUME SettingsTyped, SaveInv, NEW j, Lock(j)
  PROVE  SettingsTyped' /\ SaveInv'
<1> DEFINE h == [j EXCEPT !.stage = "holding", !.clean = TRUE, !.cfg = Apply(j.op, j.arg, file)]
<1>1. j \in SaveJob /\ ArgFits(j.op, j.arg) /\ Salvaged(j, file, tail) /\ j \in jobs
  BY DEF Lock, SettingsTyped, SaveInv
<1>2. UNCHANGED <<file, tail, dashEnabled, webCfg, saves>>
  BY DEF Lock
<1>3. CASE jobs' = jobs \ {j}
  BY <1>2, <1>3 DEF SettingsTyped, SaveInv
<1>4. CASE /\ jobs' = (jobs \ {j}) \cup {h}
           /\ j.op = "repair" => tail = "there"
  <2>1. Apply(j.op, j.arg, file) \in Configs
    BY <1>1, ApplyType DEF SettingsTyped, SaveJob
  <2> DEFINE c == Apply(j.op, j.arg, file)
  <2>2. c = Apply(j.op, j.arg, file)
    OBVIOUS
  <2> HIDE DEF c
  <2>3. h = [j EXCEPT !.stage = "holding", !.clean = TRUE, !.cfg = c]
    BY <2>2
  <2> HIDE DEF h
  <2>4. /\ h \in SaveJob /\ h.op = j.op /\ h.arg = j.arg /\ h.proc = j.proc
        /\ h.cfg = c /\ h.stage = "holding"
    BY <1>1, <2>1, <2>2, <2>3 DEF SaveJob
  <2>5. Held(h, file) /\ Salvaged(h, file, tail)
    BY <1>1, <1>4, <2>2, <2>4 DEF Held, Salvaged
  <2>6. \A i \in jobs : i.stage = "holding" => i.proc # h.proc
    BY <2>4 DEF Lock, Locked
  <2>7. SettingsTyped'
    BY <1>1, <1>2, <1>4, <2>4 DEF SettingsTyped
  <2>8. SaveInv'
    BY <1>2, <1>4, <2>5, <2>6 DEF SaveInv
  <2>9. QED
    BY <2>7, <2>8
<1>5. QED
  BY <1>3, <1>4 DEF Lock

(* Jobs that are marked hold nothing certain any more.                       *)
Marked(i) == [i EXCEPT !.clean = FALSE]

LEMMA MarkedIs ==
  ASSUME NEW i \in SaveJob
  PROVE  /\ Marked(i) \in SaveJob /\ ~ Marked(i).clean
         /\ Marked(i).op = i.op /\ Marked(i).arg = i.arg
         /\ Marked(i).stage = i.stage /\ Marked(i).proc = i.proc
BY DEF Marked, SaveJob

LEMMA SaveRenames ==
  ASSUME SettingsTyped, SaveInv, NEW j, Rename(j)
  PROVE  SettingsTyped' /\ SaveInv'
<1>1. j \in SaveJob /\ j \in jobs /\ j.stage = "holding" /\ ArgFits(j.op, j.arg)
  BY DEF Rename, SettingsTyped
<1>2. /\ file' = j.cfg /\ UNCHANGED <<dashEnabled, saves>>
      /\ tail' \in {"none", "there", "gone"} /\ tail' # "there"
      /\ tail # "none" => tail' # "none"
  BY DEF Rename, SettingsTyped
<1>3. j.cfg \in Configs
  BY <1>1 DEF SaveJob
<1>4. webCfg' \in Configs
  <2>1. CASE j.proc # "web"
    BY <2>1 DEF Rename, SettingsTyped
  <2>2. CASE j.op \in {"visible", "all"}
    BY <1>1, <2>2 DEF Rename, Remembered, SettingsTyped, ArgFits
  <2>3. CASE j.op = "theme"
    <3>1. j.arg \in Themes
      BY <1>1, <2>3 DEF ArgFits
    <3>2. [webCfg EXCEPT !.theme = j.arg] \in Configs
      BY <3>1 DEF SettingsTyped, Configs
    <3>3. Remembered(j) = [webCfg EXCEPT !.theme = j.arg]
      BY <2>3 DEF Remembered
    <3>4. QED
      BY <3>2, <3>3 DEF Rename, SettingsTyped
  <2>4. CASE j.op \notin {"visible", "all", "theme"}
    BY <2>4 DEF Rename, Remembered, SettingsTyped
  <2>5. QED
    BY <2>1, <2>2, <2>3, <2>4
<1>5. jobs' = {IF i.proc = j.proc THEN i ELSE Marked(i) : i \in jobs \ {j}}
  BY DEF Rename, Marked
<1>6. ASSUME NEW n \in jobs'
      PROVE  \E i \in jobs \ {j} :
               /\ n \in SaveJob /\ n.op = i.op /\ n.arg = i.arg /\ n.stage = i.stage
               /\ n.proc = i.proc /\ (n = i \/ ~ n.clean)
               /\ (n.proc = j.proc => n = i /\ n.stage # "holding")
               /\ (n.proc # j.proc => n = Marked(i))
  <2>1. PICK i \in jobs \ {j} : n = IF i.proc = j.proc THEN i ELSE Marked(i)
    BY <1>5
  <2>2. i \in SaveJob
    BY DEF SettingsTyped
  <2>3. i.proc = j.proc => i.stage # "holding"
    BY <1>1 DEF SaveInv
  <2>4. QED
    BY <2>1, <2>2, <2>3, MarkedIs
<1>7. SettingsTyped'
  <2>1. ASSUME NEW n \in jobs' PROVE n \in SaveJob /\ ArgFits(n.op, n.arg)
    BY <1>6, <2>1 DEF SettingsTyped
  <2>2. QED
    BY <1>2, <1>3, <1>4, <2>1 DEF SettingsTyped
<1>8. ASSUME NEW n \in jobs' PROVE Held(n, file') /\ Salvaged(n, file', tail')
  <2>1. PICK i \in jobs \ {j} :
               /\ n \in SaveJob /\ n.op = i.op /\ n.arg = i.arg /\ n.stage = i.stage
               /\ n.proc = i.proc /\ (n = i \/ ~ n.clean)
               /\ (n.proc = j.proc => n = i /\ n.stage # "holding")
               /\ (n.proc # j.proc => n = Marked(i))
    BY <1>6
  <2>2. n.stage = "holding" => ~ n.clean
    <3>1. i \in SaveJob
      BY DEF SettingsTyped
    <3>2. QED
      BY <2>1, <3>1, MarkedIs
  <2>3. n.op = "repair" => tail # "none"
    BY <2>1 DEF SaveInv, Salvaged
  <2>4. QED
    BY <1>2, <2>2, <2>3 DEF Held, Salvaged
<1>9. ASSUME NEW n \in jobs', NEW m \in jobs', n.stage = "holding", m.stage = "holding",
             n.proc = m.proc
      PROVE  n = m
  <2>1. PICK i \in jobs : n.stage = i.stage /\ n.proc = i.proc /\ n = Marked(i)
    BY <1>6, <1>9
  <2>2. PICK k \in jobs : m.stage = k.stage /\ m.proc = k.proc /\ m = Marked(k)
    BY <1>6, <1>9
  <2>3. i = k
    BY <1>9, <2>1, <2>2 DEF SaveInv
  <2>4. QED
    BY <2>1, <2>2, <2>3
<1>10. QED
  BY <1>7, <1>8, <1>9 DEF SaveInv

LEMMA StrayWrites ==
  ASSUME SettingsTyped, SaveInv, NEW t \in Themes, StrayWrite(t)
  PROVE  SettingsTyped' /\ SaveInv'
<1>1. /\ jobs' = {Marked(j) : j \in jobs} /\ tail = "none" /\ tail' = "there"
      /\ UNCHANGED <<dashEnabled, webCfg, saves>>
  BY DEF StrayWrite, Marked
<1>2. file' \in Configs
  BY DEF StrayWrite, SettingsTyped, Configs
<1>3. \A i \in jobs : i \in SaveJob /\ ArgFits(i.op, i.arg) /\ i.op # "repair"
  BY <1>1 DEF SettingsTyped, SaveInv, Salvaged
<1>4. ASSUME NEW n \in jobs' PROVE \E i \in jobs : n = Marked(i)
  BY <1>1, <1>4
<1>5. ASSUME NEW n \in jobs' PROVE n \in SaveJob /\ ArgFits(n.op, n.arg) /\ n.op # "repair" /\ ~ n.clean
  BY <1>3, <1>4, <1>5, MarkedIs
<1>6. ASSUME NEW n \in jobs', NEW m \in jobs', n.stage = "holding", m.stage = "holding",
             n.proc = m.proc
      PROVE  n = m
  <2>1. PICK i \in jobs : n = Marked(i)
    BY <1>4
  <2>2. PICK k \in jobs : m = Marked(k)
    BY <1>4
  <2>3. i.stage = "holding" /\ k.stage = "holding" /\ i.proc = k.proc
    BY <1>3, <1>6, <2>1, <2>2, MarkedIs
  <2>4. QED
    BY <2>1, <2>2, <2>3 DEF SaveInv
<1>7. SettingsTyped'
  BY <1>1, <1>2, <1>5 DEF SettingsTyped
<1>8. \A n \in jobs' : Held(n, file') /\ Salvaged(n, file', tail')
  BY <1>5 DEF Held, Salvaged
<1>9. QED
  BY <1>6, <1>7, <1>8 DEF SaveInv

LEMMA SettingsStep ==
  ASSUME SettingsTyped, SaveInv, [SettingsNext]_settingsVars
  PROVE  SettingsTyped' /\ SaveInv'
<1> USE DEF SettingsTyped
<1>1. CASE UNCHANGED settingsVars
  BY <1>1 DEF settingsVars, SaveInv
<1>2. ASSUME NEW t \in Themes, ChooseTheme(t) \/ WebTheme(t) PROVE SettingsTyped' /\ SaveInv'
  <2>1. PICK proc \in Servers \cup {Dash} : StartSave(proc, "theme", t)
    BY <1>2 DEF ChooseTheme, WebTheme
  <2>2. QED
    BY <1>2, <2>1, SaveStarts DEF ChooseTheme, WebTheme, Operations, Arguments, ArgFits
<1>3. ASSUME NEW t \in Themes, StrayWrite(t) PROVE SettingsTyped' /\ SaveInv'
  BY <1>3, StrayWrites
<1>4. ASSUME NEW a \in SavedAccounts, ToggleEntry(a) PROVE SettingsTyped' /\ SaveInv'
  <2>1. dashEnabled' \in [SavedAccounts -> BOOLEAN]
    BY <1>4 DEF ToggleEntry
  <2> DEFINE arg == DashboardConfigProviders(dashEnabled')
  <2>2. arg \in Entries
    <3>1. arg \in [SavedAccounts -> EntryShape]
      BY <2>1 DEF DashboardConfigProviders, Entry, EntryShape
    <3>2. QED
      BY <3>1 DEF Entries
  <2>3. StartSave(Dash, "providers", arg) /\ UNCHANGED <<file, tail, webCfg>>
    BY <1>4 DEF ToggleEntry
  <2> HIDE DEF arg
  <2>4. QED
    BY <2>1, <2>2, <2>3, SaveStarts DEF Operations, Arguments, ArgFits
<1>5. ASSUME NEW a \in SavedAccounts, AddAccount(a) PROVE SettingsTyped' /\ SaveInv'
  BY <1>5, SaveStarts DEF AddAccount, Operations, Arguments, ArgFits
<1>6. ASSUME NEW a \in SavedAccounts, NEW b \in BOOLEAN, HideCosts(a, b)
      PROVE  SettingsTyped' /\ SaveInv'
  BY <1>6, SaveStarts DEF HideCosts, Operations, Arguments, ArgFits
<1>7. ASSUME NEW a \in SavedAccounts, DeleteAccount(a) PROVE SettingsTyped' /\ SaveInv'
  <2> DEFINE arg == [webCfg EXCEPT !.detected = @ \ {a},
                                   !.providers = Put(@, a, Entry(FALSE, FALSE))]
  <2>1. Put(webCfg.providers, a, Entry(FALSE, FALSE)) \in Entries
    BY PutType DEF Configs, Entry, EntryShape
  <2>2. arg \in Configs
    BY <2>1 DEF Configs
  <2>3. StartSave("web", "all", arg) /\ "web" \in Servers /\ UNCHANGED <<file, tail, dashEnabled, webCfg>>
    BY <1>7 DEF DeleteAccount
  <2> HIDE DEF arg
  <2>4. /\ arg \in Arguments /\ ArgFits("all", arg) /\ "all" \in Operations
        /\ dashEnabled' \in [SavedAccounts -> BOOLEAN]
    BY <2>2, <2>3 DEF Operations, Arguments, ArgFits
  <2> HIDE DEF SettingsTyped
  <2>5. QED
    BY <2>3, <2>4, SaveStarts
<1>8. ASSUME NEW a \in SavedAccounts, NEW b \in BOOLEAN, SetAccountVisibility(a, b)
      PROVE  SettingsTyped' /\ SaveInv'
  <2> DEFINE arg == [webCfg EXCEPT !.providers = SetVisible(@, a, b)]
  <2>1. SetVisible(webCfg.providers, a, b) \in Entries
    BY PutType, EntryType DEF SetVisible, Configs, Entry, EntryShape
  <2>2. arg \in Configs
    BY <2>1 DEF Configs
  <2>3. StartSave("web", "visible", arg) /\ "web" \in Servers
        /\ UNCHANGED <<file, tail, dashEnabled, webCfg>>
    BY <1>8 DEF SetAccountVisibility
  <2> HIDE DEF arg
  <2>4. /\ arg \in Arguments /\ ArgFits("visible", arg) /\ "visible" \in Operations
        /\ dashEnabled' \in [SavedAccounts -> BOOLEAN]
    BY <2>2, <2>3 DEF Operations, Arguments, ArgFits
  <2> HIDE DEF SettingsTyped
  <2>5. QED
    BY <2>3, <2>4, SaveStarts
<1>9. ASSUME NEW found \in SUBSET SavedAccounts, ResolveAccounts(found)
      PROVE  SettingsTyped' /\ SaveInv'
  <2>1. StartSave("daemon", "detected", found) /\ "daemon" \in Servers
        /\ UNCHANGED <<file, tail, dashEnabled, webCfg>>
    BY <1>9 DEF ResolveAccounts
  <2>2. /\ found \in Arguments /\ ArgFits("detected", found) /\ "detected" \in Operations
        /\ dashEnabled' \in [SavedAccounts -> BOOLEAN]
    BY <2>1 DEF Operations, Arguments, ArgFits
  <2> HIDE DEF SettingsTyped
  <2>3. QED
    BY <2>1, <2>2, SaveStarts
<1>10. ASSUME NEW p \in Servers \cup {Dash}, LoadSalvages(p) PROVE SettingsTyped' /\ SaveInv'
  BY <1>10, SaveStarts DEF LoadSalvages, Operations, Arguments, ArgFits
<1>11. ASSUME NEW j \in jobs, Lock(j) \/ Rename(j) PROVE SettingsTyped' /\ SaveInv'
  BY <1>11, SaveLocks, SaveRenames
<1>12. QED
  BY <1>1, <1>2, <1>3, <1>4, <1>5, <1>6, <1>7, <1>8, <1>9, <1>10, <1>11 DEF SettingsNext

(* However the saves queue, one that is not disturbed by another process,    *)
(* and is not the web server's deletion, leaves alone what it is not about.  *)
THEOREM SavesLeaveTheRest == SettingsSpec => SavesKeepOthers
<1> DEFINE Kept == \A j \in jobs : Rename(j) /\ j.clean /\ j.op # "all" => OthersKept(j)
<1>1. ASSUME SettingsTyped, SaveInv, [SettingsNext]_settingsVars PROVE Kept
  <2>1. SUFFICES ASSUME NEW j \in jobs, Rename(j), j.clean, j.op # "all" PROVE OthersKept(j)
    OBVIOUS
  <2>2. /\ j.op \in Operations /\ ArgFits(j.op, j.arg) /\ file \in Configs
        /\ file' = Apply(j.op, j.arg, file)
        /\ j.op = "repair" => j.arg = file
    BY <1>1, <2>1 DEF Rename, SettingsTyped, SaveInv, Held, Salvaged, SaveJob
  <2>3. file.providers \in Entries
    BY <2>2 DEF Configs
  <2>4. CASE j.op = "theme"
    BY <2>2, <2>4, AppliedTo DEF OthersKept, SameBut, About, Configs
  <2>5. CASE j.op = "detected"
    BY <2>2, <2>5, AppliedTo DEF OthersKept, SameBut, About, Configs
  <2>6. CASE j.op = "repair"
    BY <2>2, <2>6, AppliedTo DEF OthersKept, SameBut, About, Configs
  <2>7. CASE j.op \in {"providers", "visible"}
    BY <2>2, <2>7, AppliedTo DEF OthersKept, SameBut, About, Configs
  <2>8. CASE j.op = "hide"
    <3>1. j.arg[1] \in SavedAccounts /\ j.arg[2] \in BOOLEAN
      BY <2>2, <2>8 DEF ArgFits
    <3>2. /\ file'.providers = HideOne(file.providers, j.arg[1], j.arg[2])
          /\ file'.theme = file.theme /\ file'.detected = file.detected
      BY <2>2, <2>8, AppliedTo DEF Configs
    <3>3. \A a \in DOMAIN file.providers :
            /\ file'.providers[a].on = file.providers[a].on
            /\ a # j.arg[1] => file'.providers[a] = file.providers[a]
      BY <2>3, <3>1, <3>2, HideOneType
    <3>4. QED
      BY <2>8, <3>2, <3>3 DEF OthersKept, SameBut, About
  <2>9. CASE j.op = "account"
    <3>1. j.arg \in SavedAccounts
      BY <2>2, <2>9 DEF ArgFits
    <3>2. /\ file'.providers = EnsureEntry(file.providers, j.arg)
          /\ file'.theme = file.theme /\ file'.detected = file.detected
      BY <2>2, <2>9, AppliedTo DEF Configs
    <3>3. QED
      BY <2>3, <2>9, <3>1, <3>2, EnsureEntryType DEF OthersKept, SameBut, About
  <2>10. QED
    BY <2>1, <2>2, <2>4, <2>5, <2>6, <2>7, <2>8, <2>9 DEF Operations
<1>2. SettingsTyped /\ SaveInv /\ [SettingsNext]_settingsVars => [Kept]_settingsVars
  BY <1>1
<1>3. QED
  BY <1>2, SettingsTypedInit, SettingsStep, PTL DEF SettingsSpec, SavesKeepOthers

===============================================================================
