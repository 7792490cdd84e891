----------------------------- MODULE IndexTasks -----------------------------
(***************************************************************************)
(* The full-text index tasks of src/src/services/textindex/task/          *)
(* taskhandler.cpp: CreateIndexHandler and UpdateIndexHandler, run on a    *)
(* task thread, walk the directory tree breadth first                      *)
(* (traverseDirectoryCommon) and add a document per regular file to the    *)
(* index; another thread may clear the shared `running` flag at any time.  *)
(*                                                                         *)
(* The file system is what lstat shows: a directory graph whose extra      *)
(* edges are bind mounts (symbolic links are neither S_ISREG nor S_ISDIR   *)
(* and are skipped).  A path is the sequence of directories from the root; *)
(* a document is <<path, file>>, keyed by its full path as in the code.    *)
(* A file carries its modification time (whole seconds, as stored in the  *)
(* "modified" field) and whether isSupportedFile accepts its suffix; a     *)
(* document is the pair of its key and the stored time.  Each file's      *)
(* handling may fail (an exception from Lucene or DocParser, a null       *)
(* FileInfo in checkNeedUpdate); processFile and updateFile swallow it and *)
(* the walk goes on.                                                       *)
(***************************************************************************)
EXTENDS Naturals, Sequences, FiniteSets

CONSTANTS
    FileSystems,  \* [root, sub, files, bind, mtime, supported]: the trees the task may meet
    Tasks,        \* the handlers considered: "create", "update"
    OldIndexes,   \* index contents an update may start from
    RootSlashes,  \* currentPath.count('/') of the root path
    DepthLimit,   \* the 20 of currentPath.count('/') > 20
    WriterFails,  \* whether Lucene may throw from the writer
    FileFails     \* whether handling a single file may fail

VARIABLES
    fs,        \* the file system of this run
    task,      \* which handler runs
    running,   \* the std::atomic_bool shared with the task manager
    pc,        \* "start", "traverse", "readdir", "finish", "done"
    queue,     \* dirQueue
    visited,   \* visitedDirs
    cur,       \* currentPath while its directory is read
    unread,    \* entries readdir has not returned yet
    index,     \* documents <<key, modified>> in the Lucene index
    result,    \* the handler's return value
    base,      \* history: the index when the walk started
    failed     \* history: keys whose processFile/updateFile call failed

vars == <<fs, task, running, pc, queue, visited, cur, unread, index, result,
          base, failed>>

historyVars == <<base, failed>>

\* The outcomes of one file's handling: it succeeds, or (with FileFails) it
\* throws or checkNeedUpdate returns false on a null FileInfo.
Outcomes == IF FileFails THEN BOOLEAN ELSE {TRUE}

Last(p) == p[Len(p)]

\* The entries of the directory at path p: subdirectories and files.
Entries(p) == fs.sub[Last(p)] \cup fs.files[Last(p)]

\* Paths the outer loop drops: bind targets listed in fstab, and paths
\* deeper than the limit.
Skipped(p) ==
    \/ p \in fs.bind
    \/ RootSlashes + Len(p) - 1 > DepthLimit

\* isSupportedFile: the suffix matches kSupportFiles.
Supported(f) == f \in fs.supported

-----------------------------------------------------------------------------
(* The documents a complete walk indexes, as a recursive depth-first       *)
(* reference: the files of every path from the root reached without        *)
(* passing through a skipped path.                                         *)
RECURSIVE Walk(_)
Walk(p) ==
    IF Skipped(p) THEN {}
    ELSE {<<p, f>> : f \in {g \in fs.files[Last(p)] : Supported(g)}}
         \cup UNION {Walk(Append(p, d)) : d \in fs.sub[Last(p)]}

Expected == Walk(<<fs.root>>)

\* The document createFileDocument builds for key k = <<path, file>>.
FileDocument(k) == <<k, fs.mtime[k[2]]>>

\* The documents a complete walk leaves, each with its current time.
Fresh == {FileDocument(k) : k \in Expected}

\* The documents of the index stored under key k.
DocsOf(k) == {d \in index : d[1] = k}

-----------------------------------------------------------------------------
(* Mutants: plausible slips in the handlers.                               *)

\* Slip: the head of the queue is read but not removed (head for dequeue).
NextDirPeek ==
    /\ pc = "traverse" /\ queue # <<>> /\ running
    /\ LET p == Head(queue)
       IN IF Skipped(p) \/ p \in visited
          THEN UNCHANGED <<visited, cur, unread, pc>>
          ELSE /\ visited' = visited \cup {p}
               /\ cur' = p /\ unread' = Entries(p) /\ pc' = "readdir"
    /\ UNCHANGED <<fs, task, running, queue, index, result>>
    /\ UNCHANGED historyVars

\* Slip: updateFile calls addDocument for a changed file as well.
UpdateFileAlwaysAdd(k, ok) ==
    IF ~ok THEN index
    ELSE IF DocsOf(k) = {} \/ \A d \in DocsOf(k) : d[2] # fs.mtime[k[2]]
    THEN index \cup {FileDocument(k)}
    ELSE index

FinishIgnoresRunning ==
    /\ pc = "finish"
    /\ result' = TRUE
    /\ pc' = "done"
    /\ UNCHANGED <<fs, task, running, queue, visited, cur, unread, index>>
    /\ UNCHANGED historyVars

-----------------------------------------------------------------------------
(* CreateIndexHandler opens the writer with create = true and deletes all  *)
(* documents; UpdateIndexHandler opens the existing index.  Both then      *)
(* start traverseDirectoryCommon with the root path queued.               *)
Start ==
    /\ pc = "start"
    /\ index' = IF task = "create" THEN {} ELSE index
    /\ queue' = <<<<fs.root>>>>
    /\ pc' = "traverse"
    /\ base' = index'
    /\ UNCHANGED <<fs, task, running, visited, cur, unread, result, failed>>

(* One turn of the outer loop: dequeue a path; a skipped or visited path  *)
(* is dropped, otherwise its directory is opened.                         *)
NextDir ==
    /\ pc = "traverse" /\ queue # <<>> /\ running
    /\ LET p == Head(queue)
       IN IF Skipped(p) \/ p \in visited
          THEN UNCHANGED <<visited, cur, unread, pc>>
          ELSE /\ visited' = visited \cup {p}
               /\ cur' = p /\ unread' = Entries(p) /\ pc' = "readdir"
    /\ queue' = Tail(queue)
    /\ UNCHANGED <<fs, task, running, index, result>>
    /\ UNCHANGED historyVars

(* processFile: a supported file is added with addDocument; when         *)
(* createFileDocument or addDocument throws, the catch leaves it out.      *)
ProcessFile(k, ok) == IF ok THEN index \cup {FileDocument(k)} ELSE index

(* updateFile: checkNeedUpdate finds the path's document (at most one hit  *)
(* is read); a file without one is added, one whose stored time differs    *)
(* from the file's replaces it (updateDocument on the path term, with the  *)
(* new document built first), and an unchanged one is left alone.  A       *)
(* failure - checkNeedUpdate's false on a null FileInfo or an exception,   *)
(* or a throw from createFileDocument, addDocument or updateDocument -     *)
(* leaves the file's documents as they were.                               *)
UpdateFile(k, ok) ==
    IF ~ok THEN index
    ELSE IF DocsOf(k) = {} THEN index \cup {FileDocument(k)}
    ELSE IF \E d \in DocsOf(k) : d[2] # fs.mtime[k[2]]
    THEN (index \ DocsOf(k)) \cup {FileDocument(k)}
    ELSE index

(* One readdir entry, in any order: a supported file goes to processFile   *)
(* or updateFile, whose outcome is an input; a directory is queued.        *)
ReadEntry ==
    /\ pc = "readdir" /\ running
    /\ \E e \in unread, ok \in Outcomes :
         /\ unread' = unread \ {e}
         /\ IF e \in fs.files[Last(cur)]
            THEN /\ index' = IF ~Supported(e) THEN index
                             ELSE IF task = "create" THEN ProcessFile(<<cur, e>>, ok)
                             ELSE UpdateFile(<<cur, e>>, ok)
                 /\ failed' = IF Supported(e) /\ ~ok THEN failed \cup {<<cur, e>>}
                               ELSE failed
                 /\ UNCHANGED queue
            ELSE /\ queue' = Append(queue, Append(cur, e))
                 /\ UNCHANGED <<index, failed>>
    /\ UNCHANGED <<fs, task, running, pc, visited, cur, result, base>>

\* The readdir loop ends: no entry left, or running cleared.
EndDir ==
    /\ pc = "readdir" /\ (unread = {} \/ ~running)
    /\ pc' = "traverse"
    /\ UNCHANGED <<fs, task, running, queue, visited, cur, unread, index, result>>
    /\ UNCHANGED historyVars

(* The outer loop ends (queue empty, or running cleared) and              *)
(* traverseDirectory returns.                                              *)
EndTraverse ==
    /\ pc = "traverse" /\ (queue = <<>> \/ ~running)
    /\ pc' = "finish"
    /\ UNCHANGED <<fs, task, running, queue, visited, cur, unread, index, result>>
    /\ UNCHANGED historyVars

(* After the walk: CreateIndexHandler returns false when running was       *)
(* cleared, else optimizes and returns true; UpdateIndexHandler optimizes  *)
(* and returns true.  The writer is closed (committed) either way.         *)
Finish ==
    /\ pc = "finish"
    /\ result' = (task = "update" \/ running)
    /\ pc' = "done"
    /\ UNCHANGED <<fs, task, running, queue, visited, cur, unread, index>>
    /\ UNCHANGED historyVars

(* A LuceneException or std::exception from opening the writer (or a     *)
(* missing source directory) before the walk, or from optimize after it:  *)
(* caught, the writer closed by its FinallyUtil, and false returned.  The *)
(* documents already written stay.                                        *)
WriterError ==
    /\ WriterFails
    /\ pc \in {"start", "finish"}
    /\ result' = FALSE
    /\ pc' = "done"
    /\ UNCHANGED <<fs, task, running, queue, visited, cur, unread, index>>
    /\ UNCHANGED historyVars

\* Another thread stops the task.
Stop ==
    /\ running /\ pc # "done"
    /\ running' = FALSE
    /\ UNCHANGED <<fs, task, pc, queue, visited, cur, unread, index, result>>
    /\ UNCHANGED historyVars

Done == pc = "done" /\ UNCHANGED vars

Init ==
    /\ fs \in FileSystems
    /\ task \in Tasks
    /\ running = TRUE
    /\ pc = "start"
    /\ queue = <<>> /\ visited = {} /\ cur = <<>> /\ unread = {}
    /\ index \in (IF task = "create" THEN {{}} ELSE OldIndexes)
    /\ result = FALSE
    /\ base = index /\ failed = {}

TaskStep == Start \/ NextDir \/ ReadEntry \/ EndDir \/ EndTraverse \/ Finish \/ WriterError

Next == TaskStep \/ Stop \/ Done

\* The task thread runs until its handler returns; stopping is optional.
Spec == Init /\ [][Next]_vars /\ WF_vars(TaskStep)

-----------------------------------------------------------------------------
(* A handler that reports success has indexed every supported file the   *)
(* walk can reach with its current time (a created index holds exactly     *)
(* those documents), however a stop request from the task manager          *)
(* interleaves with the task's steps.                                      *)
IndexOnSuccess ==
    pc = "done" /\ result =>
        IF task = "create" THEN index = Fresh ELSE Fresh \subseteq index

(* CreateIndexHandler reports success only for a complete walk: its index  *)
(* then holds, each with its current time, exactly the reachable          *)
(* supported files except those whose processFile failed - the catch at   *)
(* its end swallows the failure, so success does not mean every file.     *)
CreateOnSuccess ==
    pc = "done" /\ result /\ task = "create" =>
        index = {FileDocument(k) : k \in Expected \ failed}

\* The documents the index held for key k when the walk started.
OldDocsOf(k) == {d \in base : d[1] = k}

(* An update that ran to the end and returned true leaves one document    *)
(* per reachable file, holding the file's current time, whatever the old  *)
(* index held - checkNeedUpdate and updateDocument replace a stale         *)
(* document instead of adding a second one, and keep an unchanged one -   *)
(* except that a file whose updateFile failed keeps its old documents,     *)
(* stale or none.                                                          *)
UpdateKeepsOneCurrentDoc ==
    pc = "done" /\ task = "update" /\ running /\ result =>
        \A k \in Expected :
            DocsOf(k) = IF k \in failed THEN OldDocsOf(k) ELSE {FileDocument(k)}

HandlerReturns == <>(pc = "done")

=============================================================================
