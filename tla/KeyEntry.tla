------------------------------- MODULE KeyEntry --------------------------------
(***************************************************************************)
(* Entering credentials in the terminal dashboard: the editor and the      *)
(* browser picker of the settings' API KEYS tab, and the add-account       *)
(* modal.  A key press starts a command (validating against the provider,  *)
(* saving, listing browsers), which runs beside the user interface; its    *)
(* answer is handled as a message of its own, when the user may have typed *)
(* something else, closed the editor or opened it for another account.     *)
(* A command's effect and the handling of its answer are one step: what    *)
(* the user does in between is covered by what he does before.             *)
(***************************************************************************)
EXTENDS Integers, FiniteSets

CONSTANTS
  KeyAccounts,      (* accounts of providers with an API key                 *)
  BrowserAccounts,  (* accounts of providers with a browser session          *)
  Keys,             (* the texts one may type: members of a small set        *)
  Accepted,         (* the <<account, key>> pairs the providers accept       *)
  MaxRunning        (* bound: commands running at once                       *)

Accounts == KeyAccounts \cup BrowserAccounts
NoKey    == "empty"
NoOne    == "no account"

VARIABLES
  show,       (* settings.show                                               *)
  editor,     (* [on, id, input, validating] of the API KEYS tab             *)
  picker,     (* [on, id, loading] of the API KEYS tab                       *)
  add,        (* the add-account modal: [on, id, key, env, validating]       *)
  addPicker,  (* its browser picker: [on, id, loading]                       *)
  running,    (* commands: [do, id, key, moved]                              *)
  keys,       (* credentials.json: Accounts -> a key or NoKey                *)
  validated,  (* history: pairs the provider has accepted                    *)
  excused     (* history: pairs saved that another field or mode changed     *)

entryVars == <<show, editor, picker, add, addPicker, running, keys, validated, excused>>

NoPicker == [on |-> FALSE, id |-> NoOne, loading |-> FALSE]
NoEditor == [on |-> FALSE, id |-> NoOne, input |-> NoKey, validating |-> FALSE]
NoAdd    == [on |-> FALSE, id |-> NoOne, key |-> NoKey, env |-> FALSE, validating |-> FALSE]

Init ==
  /\ show = FALSE /\ editor = NoEditor /\ picker = NoPicker
  /\ add = NoAdd /\ addPicker = NoPicker
  /\ running = {} /\ keys = [a \in Accounts |-> NoKey]
  /\ validated = {} /\ excused = {}

-------------------------------------------------------------------------------
Command(do, id, key) == [do |-> do, id |-> id, key |-> key, moved |-> FALSE]

(* The editor changes: validations under way are no longer of its input.     *)
Moved == {IF c.do = "validate" THEN [c EXCEPT !.moved = TRUE] ELSE c : c \in running}

Start(c) == Cardinality(running) < MaxRunning /\ running' = running \cup {c}

StoreSame == UNCHANGED <<keys, validated, excused>>
AddSame   == UNCHANGED <<add, addPicker>>

OpenSettings ==
  /\ ~ show /\ ~ add.on /\ show' = TRUE
  /\ editor' = [NoEditor EXCEPT !.id = editor.id] /\ running' = Moved
  /\ add' = NoAdd /\ addPicker' = NoPicker
  /\ StoreSame /\ UNCHANGED picker

(* Esc, which resets the editor, when no editor, picker or modal takes the   *)
(* key, or a click outside, which resets nothing.                            *)
CloseSettings ==
  /\ show /\ show' = FALSE
  /\ \/ /\ ~ editor.on /\ ~ picker.on /\ ~ add.on
        /\ editor' = [NoEditor EXCEPT !.id = editor.id] /\ running' = Moved
        /\ add' = NoAdd /\ addPicker' = NoPicker
     \/ UNCHANGED <<editor, running, add, addPicker>>
  /\ StoreSame /\ UNCHANGED picker

(* Enter on a row; a click on a row reaches the tab under everything else.   *)
OpenEditor(a) ==
  /\ show /\ a \in KeyAccounts
  /\ editor' = [NoEditor EXCEPT !.on = TRUE, !.id = a] /\ running' = Moved
  /\ AddSame /\ StoreSame /\ UNCHANGED <<show, picker>>

InEditor == show /\ editor.on /\ ~ add.on

TypeKey(k) ==
  /\ InEditor /\ editor' = [editor EXCEPT !.input = k, !.validating = FALSE]
  /\ running' = Moved
  /\ AddSame /\ StoreSame /\ UNCHANGED <<show, picker>>

CancelEdit ==
  /\ InEditor /\ editor' = [NoEditor EXCEPT !.id = editor.id] /\ running' = Moved
  /\ AddSame /\ StoreSame /\ UNCHANGED <<show, picker>>

SubmitKey ==
  /\ InEditor /\ editor.input # NoKey /\ ~ editor.validating
  /\ editor' = [editor EXCEPT !.validating = TRUE]
  /\ Start(Command("validate", editor.id, editor.input))
  /\ AddSame /\ StoreSame /\ UNCHANGED <<show, picker>>

ValidateKeyResultIgnored(c) ==   \* mutant: the answer of the provider is not looked at
  /\ c \in running /\ c.do = "validate"
  /\ editor' = [editor EXCEPT !.validating = FALSE]
  /\ running' = (running \ {c})
                  \cup {[Command("save", c.id, editor.input) EXCEPT !.moved = c.moved]}
  /\ AddSame /\ UNCHANGED <<show, picker, keys, validated, excused>>

(* handleValidateKeyResultMsg: an accepted key leads to saving, under the    *)
(* answer's account, what the editor holds now.                              *)
ValidateKeyResult(c) ==
  /\ c \in running /\ c.do = "validate"
  /\ \/ /\ <<c.id, c.key>> \in Accepted
        /\ validated' = validated \cup {<<c.id, c.key>>}
        /\ editor' = [editor EXCEPT !.validating = FALSE]
        /\ running' = (running \ {c})
                        \cup {[Command("save", c.id, editor.input) EXCEPT !.moved = c.moved]}
     \/ /\ editor' = [editor EXCEPT !.validating = FALSE]
        /\ running' = running \ {c} /\ UNCHANGED validated
  /\ AddSame /\ UNCHANGED <<show, picker, keys, excused>>

Stored(c) ==
  /\ keys' = [keys EXCEPT ![c.id] = c.key]
  /\ excused' = IF c.moved THEN excused \cup {<<c.id, c.key>>} ELSE excused

(* SaveCredential refuses an empty key and may fail; handleCredentialSavedMsg *)
(* closes whatever editor is open.                                           *)
CredentialSaved(c) ==
  /\ c \in running /\ c.do = "save" /\ running' = running \ {c}
  /\ \/ /\ c.key # NoKey /\ Stored(c)
        /\ editor' = [NoEditor EXCEPT !.id = editor.id]
     \/ /\ editor' = [editor EXCEPT !.validating = FALSE] /\ UNCHANGED <<keys, excused>>
  /\ AddSame /\ UNCHANGED <<show, picker, validated>>

DeleteCredential(a) ==
  /\ show /\ ~ editor.on /\ ~ picker.on /\ ~ add.on /\ a \in KeyAccounts
  /\ editor' = [editor EXCEPT !.validating = FALSE]
  /\ Start(Command("delete", a, NoKey))
  /\ AddSame /\ StoreSame /\ UNCHANGED <<show, picker>>

CredentialDeleted(c) ==
  /\ c \in running /\ c.do = "delete" /\ running' = running \ {c}
  /\ \/ keys' = [keys EXCEPT ![c.id] = NoKey]
     \/ UNCHANGED keys
  /\ AddSame /\ UNCHANGED <<show, editor, picker, validated, excused>>

-------------------------------------------------------------------------------
(* startBrowserSessionConnect and the picker.  Reading the cookie ends in    *)
(* the Sessions of the credentials, not in the keys: it is left out.         *)
OpenPicker(a) ==
  /\ show /\ ~ editor.on /\ ~ picker.on /\ ~ add.on /\ a \in BrowserAccounts
  /\ picker' = [on |-> TRUE, id |-> a, loading |-> TRUE]
  /\ Start(Command("browsers", a, NoKey))
  /\ AddSame /\ StoreSame /\ UNCHANGED <<show, editor>>

(* Esc; Enter once it has something to choose from.                          *)
LeavePicker ==
  /\ show /\ picker.on /\ ~ editor.on /\ ~ add.on /\ picker' = NoPicker
  /\ AddSame /\ StoreSame /\ UNCHANGED <<show, editor, running>>

AvailableBrowsersForAdd(c) ==   \* mutant: the list goes to the other picker
  /\ c \in running /\ c.do = "browsers" /\ running' = running \ {c}
  /\ addPicker' = IF addPicker.on /\ addPicker.id = c.id
                    THEN [addPicker EXCEPT !.loading = FALSE] ELSE addPicker
  /\ StoreSame /\ UNCHANGED <<show, editor, picker, add>>

AvailableBrowsersLoaded(c) ==
  /\ c \in running /\ c.do = "browsers" /\ running' = running \ {c}
  /\ picker' = IF picker.on /\ picker.id = c.id
                 THEN [picker EXCEPT !.loading = FALSE] ELSE picker
  /\ AddSame /\ StoreSame /\ UNCHANGED <<show, editor>>

-------------------------------------------------------------------------------
(* The add-account modal, from the dashboard or from the settings.           *)
OpenAddAccount(a) ==
  /\ ~ add.on /\ ~ (show /\ (editor.on \/ picker.on))
  /\ add' = [NoAdd EXCEPT !.on = TRUE, !.id = a] /\ addPicker' = NoPicker
  /\ StoreSame /\ UNCHANGED <<show, editor, picker, running>>

InAdd == add.on /\ ~ addPicker.on
AddStep == StoreSame /\ UNCHANGED <<show, editor, picker, addPicker>>

(* Another provider, which empties the fields, or just another account id.   *)
AddChoose(a) ==
  /\ InAdd
  /\ \/ add' = [NoAdd EXCEPT !.on = TRUE, !.id = a, !.env = add.env]
     \/ (a \in KeyAccounts <=> add.id \in KeyAccounts) /\ add' = [add EXCEPT !.id = a]
  /\ UNCHANGED running /\ AddStep

AddTypeKey(k) ==
  /\ InAdd /\ add.id \in KeyAccounts /\ ~ add.env
  /\ add' = [add EXCEPT !.key = k] /\ UNCHANGED running /\ AddStep

(* Between a key typed in directly and the name of an environment variable.  *)
AddSwitchMode ==
  /\ InAdd /\ add.id \in KeyAccounts
  /\ add' = [add EXCEPT !.env = ~ @] /\ UNCHANGED running /\ AddStep

CancelAdd ==
  /\ add.on /\ add' = NoAdd /\ addPicker' = NoPicker
  /\ StoreSame /\ UNCHANGED <<show, editor, picker, running>>

(* submitAddAccount.  The name of the variable has a default, so that only a *)
(* direct key is validated, and one left behind by a switch of modes is      *)
(* saved with the account.                                                   *)
SubmitAddAccount ==
  /\ InAdd /\ ~ add.validating
  /\ IF add.id \in BrowserAccounts
       THEN /\ addPicker' = [on |-> TRUE, id |-> add.id, loading |-> TRUE]
            /\ Start(Command("browsers", add.id, NoKey)) /\ UNCHANGED add
     ELSE IF ~ add.env /\ add.key # NoKey
       THEN /\ add' = [add EXCEPT !.validating = TRUE] /\ UNCHANGED addPicker
            /\ Start(Command("validateNew", add.id, add.key))
     ELSE /\ Start(Command("saveNew", add.id, add.key)) /\ UNCHANGED <<add, addPicker>>
  /\ StoreSame /\ UNCHANGED <<show, editor, picker>>

(* The key of the answer is saved, not the field's; the account's own record *)
(* is saved beside it, which is "saveNew" without a key.                     *)
ValidateNewResult(c) ==
  /\ c \in running /\ c.do = "validateNew"
  /\ \/ /\ <<c.id, c.key>> \in Accepted
        /\ validated' = validated \cup {<<c.id, c.key>>}
        /\ add' = NoAdd /\ addPicker' = NoPicker
        /\ running' = (running \ {c})
                        \cup {Command("save", c.id, c.key), Command("saveNew", c.id, NoKey)}
     \/ /\ add' = [add EXCEPT !.validating = FALSE]
        /\ running' = running \ {c} /\ UNCHANGED <<validated, addPicker>>
  /\ UNCHANGED <<show, editor, picker, keys, excused>>

(* Two files: the credential is stored and then the account, or either fails *)
(* and the modal stays.                                                      *)
AccountSaved(c) ==
  /\ c \in running /\ c.do = "saveNew" /\ running' = running \ {c}
  /\ \/ /\ IF c.key = NoKey THEN UNCHANGED <<keys, excused>>
                            ELSE Stored([c EXCEPT !.moved = TRUE])
        /\ \/ add' = NoAdd /\ addPicker' = NoPicker
           \/ UNCHANGED <<add, addPicker>>
     \/ c.key # NoKey /\ UNCHANGED <<keys, excused, add, addPicker>>
  /\ UNCHANGED <<show, editor, picker, validated>>

Answered(c) ==
    \/ ValidateKeyResult(c) \/ CredentialSaved(c) \/ CredentialDeleted(c)
    \/ AvailableBrowsersLoaded(c) \/ ValidateNewResult(c) \/ AccountSaved(c)

User ==
  \/ OpenSettings \/ CloseSettings \/ CancelEdit \/ SubmitKey \/ LeavePicker
  \/ AddSwitchMode \/ CancelAdd \/ SubmitAddAccount
  \/ \E a \in Accounts : OpenEditor(a) \/ DeleteCredential(a) \/ OpenPicker(a)
                         \/ OpenAddAccount(a) \/ AddChoose(a)
  \/ \E k \in Keys \cup {NoKey} : TypeKey(k) \/ AddTypeKey(k)

Next == User \/ \E c \in running : Answered(c)

Spec == Init /\ [][Next]_entryVars

(* Every command has a time limit of its own, 5 to 15 s, and answers.        *)
Ends(do) == \E c \in running : c.do = do /\ Answered(c)

Fairness == \A do \in {"validate", "validateNew", "save", "saveNew", "delete", "browsers"} :
              WF_entryVars(Ends(do))

FairSpec == Spec /\ Fairness

-------------------------------------------------------------------------------
(* Every key in the credentials was accepted by its provider, unless the     *)
(* editor changed while it was being validated, or it was typed in the modal *)
(* before switching to an environment variable: through every order of       *)
(* answers, deletions and reopened editors.                                  *)
SavedKeysAreExplained ==
  \A a \in Accounts : keys[a] # NoKey => <<a, keys[a]>> \in validated \cup excused

(* Nobody waits for ever: a validation ends in the modal and in the editor,  *)
(* and the picker of the API KEYS tab lists its browsers.                    *)
WaitingEnds ==
  /\ editor.validating ~> ~ editor.validating
  /\ add.validating ~> ~ add.validating
  /\ picker.loading ~> ~ picker.loading

================================================================================
