---------------------------- MODULE SidebarItems ----------------------------
(***************************************************************************)
(* The sidebar's item slots (SideBarEventReceiver::handleItemAdd, Remove,  *)
(* Update and Insert in dfmplugin-sidebar/events/sidebareventreceiver.cpp) *)
(* keep two records of the items: the SideBarInfoCacheMananger cache,      *)
(* which every slot consults first, and the shared sidebar model           *)
(* (SideBarWidget::kSidebarModelIns) that shows them.  Items are           *)
(* identified by their url; the item info besides the url is abstracted.   *)
(*                                                                         *)
(* Calls into code outside the receiver are inputs: createItemByInfo may   *)
(* return null, SideBarWidget::addItem may return -1 and insertItem may    *)
(* return false (only when CallsFail); the windows come and go, while the  *)
(* model instance, once created with the first sidebar, stays.             *)
(***************************************************************************)
EXTENDS FiniteSets

CONSTANTS
    Urls,        \* item urls
    CallsFail    \* whether the widget calls may fail

VARIABLES
    cache,       \* urls held by SideBarInfoCacheMananger
    model,       \* urls of the items in kSidebarModelIns
    windows,     \* SideBarHelper::allSideBar() is not empty
    modelIns,    \* SideBarWidget::kSidebarModelIns != nullptr
    ret,         \* the value the last slot returned
    failed       \* history: urls whose item a widget call failed to create or add

vars == <<cache, model, windows, modelIns, ret, failed>>

\* Outcomes of a call that may fail.
Outcome == IF CallsFail THEN BOOLEAN ELSE {TRUE}

-----------------------------------------------------------------------------
(* Mutants: plausible slips in the slots.                                  *)

\* History: the url of an item a widget call failed to create or add.
Failed(u, callFailed) ==
    failed' = IF callFailed THEN failed \cup {u} ELSE failed

\* Slip: the not-ready branch forgets to roll the cache back.
HandleItemAddNoRollback(u) ==
    /\ u \notin cache
    /\ \E created \in Outcome, added \in Outcome :
         /\ Failed(u, ~created \/ (windows /\ ~added))
         /\ \/ ~created /\ ret' = FALSE /\ UNCHANGED <<cache, model>>
            \/ /\ created /\ windows /\ cache' = cache \cup {u}
               /\ model' = IF added THEN model \cup {u} ELSE model
               /\ ret' = added
            \/ /\ created /\ ~windows /\ cache' = cache \cup {u}
               /\ model' = IF modelIns THEN model \cup {u} ELSE model
               /\ ret' = modelIns
    /\ UNCHANGED <<windows, modelIns>>

-----------------------------------------------------------------------------
(* handleItemAdd: refused when the url is cached; the cache entry is made  *)
(* before the item is handed to the first sidebar widget, or appended to   *)
(* the model directly when no widget exists; without a model the cache     *)
(* entry is removed again.                                                 *)
HandleItemAdd(u) ==
    /\ u \notin cache
    /\ \E created \in Outcome, added \in Outcome :
         /\ Failed(u, ~created \/ (windows /\ ~added))
         /\ \/ ~created /\ ret' = FALSE /\ UNCHANGED <<cache, model>>
            \/ /\ created /\ windows /\ cache' = cache \cup {u}
               /\ model' = IF added THEN model \cup {u} ELSE model
               /\ ret' = added
            \/ /\ created /\ ~windows /\ modelIns
               /\ cache' = cache \cup {u} /\ model' = model \cup {u}
               /\ ret' = TRUE
            \/ /\ created /\ ~windows /\ ~modelIns
               /\ ret' = FALSE /\ UNCHANGED <<cache, model>>
    /\ UNCHANGED <<windows, modelIns>>

\* The slots' early return when the cache check fails.
Refused == ret' = FALSE /\ UNCHANGED <<cache, model, windows, modelIns, failed>>

(* handleItemRemove: only a cached url is removed; the cache entry goes    *)
(* first, then the model row if there is a model.                          *)
HandleItemRemove(u) ==
    \/ u \notin cache /\ Refused
    \/ /\ u \in cache
       /\ cache' = cache \ {u}
       /\ model' = model \ {u}
       /\ ret' = (modelIns /\ u \in model)
       /\ UNCHANGED <<windows, modelIns, failed>>

\* Slip: a new url is cached but the widget's item is not renamed.
HandleItemUpdateNoRename(u, nu) ==
    \/ u \notin cache /\ Refused
    \/ /\ u \in cache
       /\ LET urlUpdated == nu # u
              afterRemove == IF urlUpdated THEN cache \ {u} ELSE cache
          IN \/ /\ windows
                /\ cache' = IF urlUpdated THEN afterRemove \cup {nu} ELSE cache
                /\ ret' = (~urlUpdated \/ nu \notin afterRemove)
                /\ UNCHANGED model
             \/ /\ ~windows
                /\ cache' = afterRemove
                /\ ret' = FALSE
                /\ UNCHANGED model
       /\ failed' = IF u \in failed THEN failed \cup {nu} ELSE failed
       /\ UNCHANGED <<windows, modelIns>>

(* handleItemUpdate with properties whose url is nu (nu = u when the url   *)
(* is absent or equal): a new url takes the old entry out of the cache at  *)
(* once; only when a sidebar widget exists is the new info cached and the  *)
(* item updated (renamed) through the first widget.                        *)
HandleItemUpdate(u, nu) ==
    \/ u \notin cache /\ Refused
    \/ /\ u \in cache
       /\ LET urlUpdated == nu # u
              afterRemove == IF urlUpdated THEN cache \ {u} ELSE cache
          IN \/ /\ windows
                /\ cache' = IF urlUpdated THEN afterRemove \cup {nu} ELSE cache
                /\ model' = IF urlUpdated /\ u \in model
                               THEN (model \ {u}) \cup {nu} ELSE model
                \* addItemInfoCache refuses a url already cached
                /\ ret' = (~urlUpdated \/ nu \notin afterRemove)
             \/ /\ ~windows
                /\ cache' = afterRemove
                /\ ret' = FALSE
                /\ UNCHANGED model
       \* the item keeps its history under its new url
       /\ failed' = IF u \in failed THEN failed \cup {nu} ELSE failed
       /\ UNCHANGED <<windows, modelIns>>

(* handleItemInsert: refused when cached or when there is no sidebar       *)
(* widget; otherwise the info is cached, then the item is created and      *)
(* inserted through the first widget.                                      *)
HandleItemInsert(u) ==
    \/ u \in cache /\ Refused
    \/ u \notin cache /\ ~windows /\ Refused
    \/ /\ u \notin cache /\ windows
       /\ cache' = cache \cup {u}
       /\ \E created \in Outcome, inserted \in Outcome :
            /\ model' = IF created /\ inserted THEN model \cup {u} ELSE model
            /\ ret' = (created /\ inserted)
            /\ Failed(u, ~(created /\ inserted))
       /\ UNCHANGED <<windows, modelIns>>

\* Environment: a file manager window (with its sidebar) opens; the first
\* one creates the shared model.
OpenWindow ==
    /\ ~windows
    /\ windows' = TRUE /\ modelIns' = TRUE
    /\ UNCHANGED <<cache, model, ret, failed>>

\* Environment: the last window closes; the model instance stays.
CloseWindows ==
    /\ windows
    /\ windows' = FALSE
    /\ UNCHANGED <<cache, model, modelIns, ret, failed>>

Init ==
    /\ cache = {} /\ model = {}
    /\ windows = FALSE /\ modelIns = FALSE
    /\ ret = FALSE
    /\ failed = {}

Next ==
    \/ \E u \in Urls :
         \/ HandleItemAdd(u) \/ HandleItemRemove(u) \/ HandleItemInsert(u)
         \/ \E nu \in Urls : HandleItemUpdate(u, nu)
    \/ OpenWindow \/ CloseWindows

Spec == Init /\ [][Next]_vars

-----------------------------------------------------------------------------
(* Every url the cache holds has its item in the sidebar model: otherwise  *)
(* handleItemAdd and handleItemInsert refuse the url as "already added"    *)
(* while no sidebar shows it.                                              *)
CacheInModel == cache \subseteq model

(* Every item the model shows is in the cache: otherwise handleItemRemove  *)
(* and handleItemUpdate refuse it as "not found" and it can never be       *)
(* removed from the sidebar.                                               *)
ModelItemsRemovable == model \subseteq cache

(* Before the first sidebar (and its model) exists nothing stays cached,   *)
(* whatever the widget calls return: handleItemAdd rolls its cache entry   *)
(* back when it finds no model, so the plugin can add the item again once  *)
(* the sidebar is ready instead of being told it is already there.         *)
NothingCachedBeforeModel == ~modelIns => cache = {}

(* A url the cache holds without an item in the model is one whose item a  *)
(* widget call (createItemByInfo, addItem, insertItem) failed to create or *)
(* add, possibly renamed since: every path of the four slots themselves,    *)
(* across windows opening and closing, keeps the cache and the model in    *)
(* step (the partial failures at lines 95 and 215 are the only way out).   *)
CachedWithoutItemOnlyAfterFailure == cache \ model \subseteq failed

=============================================================================
