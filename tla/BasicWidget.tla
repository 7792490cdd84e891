----------------------------- MODULE BasicWidget -----------------------------
(***************************************************************************)
(* The "Basic info" section of a property dialog                          *)
(* (dfmplugin-propertydialog/views/basicwidget.cpp).  Each dialog has its  *)
(* own BasicWidget; selectFileUrl loads the file's fields, starts a        *)
(* FileStatisticsJob for a folder and asks FileInfoHelper for media        *)
(* attributes.  Answers come back as signals handled on the GUI thread:    *)
(* the job's dataNotify, FileInfoHelper::mediaDataFinished - one signal of *)
(* a process-wide singleton, connected to every widget that asked - and    *)
(* the widget's MediaInfoFetchWorker's durationReady.                      *)
(*                                                                         *)
(* A field's value is abstracted to the url whose data it shows (NoUrl:    *)
(* empty, Placeholder: the "0 item" of a folder before its statistics);    *)
(* the media attributes of a url are the constants Dims, DurIn and       *)
(* HasProps.  The fields no handler below touches (type, location, times) *)
(* are left out.                                                           *)
(***************************************************************************)
EXTENDS Naturals, Sequences

CONSTANTS
    Widgets,      \* the open property dialogs
    Urls,         \* files a dialog may show
    Kind,         \* Kind[u]: "dir", "image", "video", "audio" or "other"
    Dims,         \* Dims[u]: width and height are known (properties or QImageReader)
    DurIn,        \* DurIn[u]: the media properties carry a duration
    HasProps,     \* HasProps[u]: the fetch of u's media attributes returns some
    Filters,      \* field sets basicFieldFilter may hide for a url
    NoUrl, Placeholder

\* The PropertyItems this model follows (BasicFieldExpandEnum).
Fields == {"size", "count", "res", "dur"}

MediaKinds == {"image", "video", "audio"}

VARIABLES
    wid,       \* per widget: m_currentUrl, the items, the connected slots, its worker
    fetching   \* urls whose media attributes FileInfoHelper is still fetching

vars == <<wid, fetching>>

Values == Urls \cup {NoUrl, Placeholder}

WidgetState ==
    [url : Urls \cup {NoUrl}, vis : [Fields -> BOOLEAN], val : [Fields -> Values],
     slot : {"none"} \cup MediaKinds, stats : SUBSET Urls,
     durq : Seq(Urls)]

TypeOK ==
    /\ wid \in [Widgets -> WidgetState]
    /\ fetching \subseteq Urls

-----------------------------------------------------------------------------
(* Helpers on one widget's state r.                                        *)

\* item.visible = b for the fields of F.
SetVisible(r, F, b) ==
    [r EXCEPT !.vis = [f \in Fields |-> IF f \in F THEN b ELSE r.vis[f]]]

\* updatePropertyItem: the item's value (and its label's text).
UpdatePropertyItem(r, f, v) == [r EXCEPT !.val[f] = v]

\* refreshLayout: a row is visible when its item is visible and not empty.
Shown(r, f) == r.vis[f] /\ r.val[f] # NoUrl

\* The duration is fetched asynchronously: a durationReady lambda is
\* connected and getDuration(u) queued to the worker thread.  Every lambda
\* runs on every durationReady with the same effect, so they are not counted.
AsyncDuration(r, u) == [r EXCEPT !.durq = Append(@, u)]

(* imageExtenInfo: another url, or no properties, hides the resolution;    *)
(* so do dimensions that neither the properties nor QImageReader give.     *)
ImageExtenInfo(r, u, props) ==
    IF u # r.url \/ ~props \/ ~Dims[u] THEN SetVisible(r, {"res"}, FALSE)
    ELSE SetVisible(UpdatePropertyItem(r, "res", u), {"res"}, TRUE)

(* videoExtenInfo: another url, or no properties, hides both media fields; *)
(* else the resolution is set, the duration taken from the properties or   *)
(* fetched, and both fields shown.                                         *)
VideoExtenInfo(r, u, props) ==
    IF u # r.url \/ ~props THEN SetVisible(r, {"res", "dur"}, FALSE)
    ELSE LET r1 == UpdatePropertyItem(r, "res", u)
             r2 == IF DurIn[u]
                   THEN SetVisible(UpdatePropertyItem(r1, "dur", u), {"dur"}, TRUE)
                   ELSE AsyncDuration(r1, u)
         IN SetVisible(r2, {"res", "dur"}, TRUE)

(* audioExtenInfo: like the video slot without a resolution, which it      *)
(* hides.                                                                   *)
AudioExtenInfo(r, u, props) ==
    IF u # r.url \/ ~props THEN SetVisible(r, {"res", "dur"}, FALSE)
    ELSE LET r1 == SetVisible(r, {"res"}, FALSE)
         IN IF DurIn[u]
            THEN SetVisible(UpdatePropertyItem(r1, "dur", u), {"dur"}, TRUE)
            ELSE AsyncDuration(r1, u)

\* The slot a widget connected to mediaDataFinished, applied to (u, props).
ExtenInfo(r, u, props) ==
    CASE r.slot = "image" -> ImageExtenInfo(r, u, props)
      [] r.slot = "video" -> VideoExtenInfo(r, u, props)
      [] r.slot = "audio" -> AudioExtenInfo(r, u, props)
      [] OTHER            -> r

(* loadSizeAndCountInfo: the size from the file info; a folder shows      *)
(* "0 item" and starts the statistics job, a file hides the count.         *)
LoadSizeAndCountInfo(r, u) ==
    LET r1 == UpdatePropertyItem(r, "size", u)
    IN IF Kind[u] = "dir"
       THEN [UpdatePropertyItem(r1, "count", Placeholder) EXCEPT !.stats = @ \cup {u}]
       ELSE SetVisible(r1, {"count"}, FALSE)

(* loadMediaInfo: both media fields hidden; for a media file the matching  *)
(* slot is connected, applied at once when mediaInfoAttributes already has *)
(* the properties (sync), and then the kind's fields are made visible.     *)
LoadMediaInfo(r, u, sync) ==
    LET r0 == [SetVisible(r, {"res", "dur"}, FALSE) EXCEPT !.slot =
                  IF Kind[u] \in MediaKinds THEN Kind[u] ELSE @]
        r1 == IF sync THEN ExtenInfo(r0, u, TRUE) ELSE r0
    IN CASE Kind[u] = "video" -> SetVisible(r1, {"res", "dur"}, TRUE)
         [] Kind[u] = "image" -> SetVisible(r1, {"res"}, TRUE)
         [] Kind[u] = "audio" -> SetVisible(r1, {"dur"}, TRUE)
         [] OTHER             -> r0

\* basicFieldFilter: the items of the filtered fields are made invisible.
BasicFieldFilter(r, F) == SetVisible(r, F, FALSE)

-----------------------------------------------------------------------------
(* selectFileUrl (loadFileData), once per dialog: m_currentUrl set, the    *)
(* filter applied, then sizes and media loaded; when mediaInfoAttributes   *)
(* has nothing yet, FileInfoHelper fetches the attributes.                 *)
SelectFileUrl(w, u) ==
    /\ wid[w].url = NoUrl
    /\ \E F \in Filters, sync \in BOOLEAN :
         /\ wid' = [wid EXCEPT ![w] =
                      LoadMediaInfo(LoadSizeAndCountInfo(
                          BasicFieldFilter([@ EXCEPT !.url = u], F), u), u, sync)]
         /\ fetching' = IF Kind[u] \in MediaKinds /\ ~sync
                        THEN fetching \cup {u} ELSE fetching

\* updateFileUrl: the dialog's file got another url.
UpdateFileUrl(w, u) ==
    /\ wid[w].url \notin {NoUrl, u}
    /\ wid' = [wid EXCEPT ![w].url = u]
    /\ UNCHANGED fetching

(* FileInfoHelper emits mediaDataFinished(u, properties): every widget     *)
(* whose loadMediaInfo connected a slot runs it, whatever url it shows.    *)
MediaDataFinished(u) ==
    /\ u \in fetching
    /\ wid' = [w \in Widgets |-> ExtenInfo(wid[w], u, HasProps[u])]
    /\ fetching' = fetching \ {u}

(* The statistics job's dataNotify: slotFileCountAndSizeChange sets size   *)
(* and count from the job's totals, with no check of m_currentUrl.         *)
SlotFileCountAndSizeChange(w) ==
    /\ \E u \in wid[w].stats :
         wid' = [wid EXCEPT ![w] = [UpdatePropertyItem(UpdatePropertyItem(@,
                                     "size", u), "count", u) EXCEPT !.stats = @ \ {u}]]
    /\ UNCHANGED fetching

(* The worker answers the oldest getDuration; each connected lambda shows  *)
(* the duration, or hides the field when it is empty.                      *)
DurationReady(w) ==
    /\ wid[w].durq # <<>>
    /\ \E found \in BOOLEAN :
         LET u == Head(wid[w].durq)
             r == [wid[w] EXCEPT !.durq = Tail(@)]
         IN wid' = [wid EXCEPT ![w] =
                      IF found THEN SetVisible(UpdatePropertyItem(r, "dur", u), {"dur"}, TRUE)
                      ELSE SetVisible(r, {"dur"}, FALSE)]
    /\ UNCHANGED fetching

\* The constructor and initializePropertyItems: every item visible and empty.
Init ==
    /\ wid = [w \in Widgets |->
                [url |-> NoUrl, vis |-> [f \in Fields |-> TRUE],
                 val |-> [f \in Fields |-> NoUrl], slot |-> "none",
                 stats |-> {}, durq |-> <<>>]]
    /\ fetching = {}

Next ==
    \/ \E w \in Widgets, u \in Urls : SelectFileUrl(w, u) \/ UpdateFileUrl(w, u)
    \/ \E u \in Urls : MediaDataFinished(u)
    \/ \E w \in Widgets : SlotFileCountAndSizeChange(w) \/ DurationReady(w)

Spec == Init /\ [][Next]_vars

-----------------------------------------------------------------------------
(* Once a dialog shows its file's resolution, only a change of that        *)
(* dialog's own file may hide it again: media answers meant for another     *)
(* dialog must leave it alone (imageExtenInfo and videoExtenInfo hide the   *)
(* field for any url other than m_currentUrl).                              *)
ResolutionStaysShown ==
    [][\A w \in Widgets :
          Shown(wid[w], "res") /\ wid'[w].url = wid[w].url => Shown(wid'[w], "res")]_vars

=============================================================================
