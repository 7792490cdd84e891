---------------------------- MODULE VaultSaveKey ----------------------------
(***************************************************************************)
(* The "Save Recovery Key" page of the vault creation wizard               *)
(* (dfmplugin-vault/views/createvaultview/vaultactivesavekeyfileview.cpp). *)
(* The user picks the default key path or another location chosen with a  *)
(* file chooser; the Next button's enabled state is kept by the slots of   *)
(* the radio group and of the chooser, and Next hands the page's key path *)
(* to setEncryptInfo.  All slots run on the GUI thread, one at a time.     *)
(*                                                                         *)
(* A chosen path is a model value; Writable are those whose parent        *)
(* directory grants QFileDevice::WriteUser.                                *)
(***************************************************************************)
CONSTANTS
    Paths,      \* file names the chooser may return
    Writable    \* those whose directory is writable by the user

Default == "default"   \* kVaultBasePath/<kRSAPUBKeyFileName>.key
NoText == "none"       \* the chooser's line edit is empty

VARIABLES
    radio,      \* the checked button: "default" or "other"
    editOn,     \* selectfileSavePathEdit->isEnabled()
    text,       \* selectfileSavePathEdit->text()
    nextOn,     \* nextBtn->isEnabled()
    hint,       \* otherRadioBtnHitMsg is shown
    shown,      \* the page is visible
    keyPaths    \* history: every keyPath Next has handed on

vars == <<radio, editOn, text, nextOn, hint, shown, keyPaths>>

-----------------------------------------------------------------------------
\* initUI: default checked, chooser disabled, warning hidden.
Init ==
    /\ radio = "default" /\ editOn = FALSE /\ text = NoText
    /\ nextOn = TRUE /\ hint = FALSE /\ shown = FALSE
    /\ keyPaths = {}

(* slotSelectRadioBtn, on a click of either button (the group makes it     *)
(* the checked one): the default path enables Next; the other location     *)
(* enables the chooser and disables Next only while its text is empty.    *)
SlotSelectRadioBtn(btn) ==
    /\ shown
    /\ radio' = btn
    /\ \/ btn = "default" /\ editOn' = FALSE /\ nextOn' = TRUE
       \/ /\ btn = "other" /\ editOn' = TRUE
          /\ nextOn' = IF text = NoText THEN FALSE ELSE nextOn
    /\ UNCHANGED <<text, hint, shown, keyPaths>>

(* slotChangeEdit, when the enabled chooser returns file f (its text is   *)
(* then f): an unwritable directory disables Next and shows the warning;  *)
(* a writable one hides it and enables Next.                              *)
SlotChangeEdit(f) ==
    /\ shown /\ editOn
    /\ text' = f
    /\ \/ f \notin Writable /\ nextOn' = FALSE /\ hint' = TRUE
       \/ f \in Writable /\ nextOn' = TRUE /\ hint' = FALSE
    /\ UNCHANGED <<radio, editOn, shown, keyPaths>>

(* showEvent: the default button is checked with setChecked, which does   *)
(* not emit buttonClicked, the text cleared and the warning hidden; the   *)
(* chooser's and Next's enabled states are left as they were.             *)
ShowEvent ==
    /\ ~shown
    /\ shown' = TRUE
    /\ radio' = "default" /\ text' = NoText /\ hint' = FALSE
    /\ UNCHANGED <<editOn, nextOn, keyPaths>>

\* The wizard moves to another page.
Hide ==
    /\ shown
    /\ shown' = FALSE
    /\ UNCHANGED <<radio, editOn, text, nextOn, hint, keyPaths>>

(* Next clicked: accepted, and the wizard takes setEncryptInfo's keyPath: *)
(* the default path when its button is checked, else the chooser's text.  *)
Accept ==
    /\ shown /\ nextOn
    /\ keyPaths' = keyPaths \cup {IF radio = "default" THEN Default ELSE text}
    /\ UNCHANGED <<radio, editOn, text, nextOn, hint, shown>>

Next ==
    \/ \E btn \in {"default", "other"} : SlotSelectRadioBtn(btn)
    \/ \E f \in Paths : SlotChangeEdit(f)
    \/ ShowEvent \/ Hide \/ Accept

Spec == Init /\ [][Next]_vars

-----------------------------------------------------------------------------
(* The key is only ever saved where the user may write it: Next hands on  *)
(* the default path or a chosen file in a writable directory, as the      *)
(* "No permission, please reselect" warning of slotChangeEdit intends -   *)
(* however the radio buttons and the chooser were used before.            *)
KeyPathWritable == keyPaths \subseteq {Default} \cup Writable

=============================================================================
