-------------------------- MODULE AutoUpdateModel --------------------------
(***************************************************************************)
(* The wallet's update download: AutoUpdateModel (src/src/autoupdatemodel. *)
(* cpp), the GUI that drives it (OverviewPage in src/src/qt/overviewpage.  *)
(* cpp) and the shutdown that destroys it (ReleaseContext).               *)
(*                                                                         *)
(* Actors.  The GUI thread runs the Qt event loop: it handles the queued  *)
(* progress notifications of the worker and the newVersionAvailable       *)
(* signal, and the user's clicks on the alert links.  Each click on       *)
(* "Download" may start a worker thread (DownloadUpdateUrlFileThread),    *)
(* whose steps are split where it reads or writes state the GUI and the   *)
(* destructor share: cancel_, the files in <datadir>/update and the       *)
(* notification queue.  libcurl calls the progress callback periodically  *)
(* whether data arrives or not, and the callback reads cancel_.           *)
(*                                                                         *)
(* Data abstraction: there is one release URL; the release file at the    *)
(* final path and its ".tmp" download are "absent", "partial" or          *)
(* "complete"; a notification carries its progress value (0..100, or 101 *)
(* for DOWNLOAD_THREAD_EXIT) and NewVersion stands for the                *)
(* newVersionAvailable signal.  Log text, speed and the strings shown are *)
(* left out.                                                               *)
(***************************************************************************)
EXTENDS Integers, Sequences, FiniteSets

CONSTANTS
    MaxDownloads,     \* bound on the number of worker threads ever started
    MaxChunks,        \* data callbacks of one download (total size / chunk)
    MaxSignals,       \* bound on the notification queue, for the stall callbacks
    Builds            \* the builds considered: TRUE debug (assert() aborts), FALSE NDEBUG

Workers == 1..MaxDownloads
NoThread == 0
NewVersion == -1                 \* the newVersionAvailable() signal
ThreadExit == 101                \* DOWNLOAD_THREAD_EXIT
Banners == {"none", "available", "ready", "downloading"}   \* newVersionNotification: "", msg1, msg2, msg3
Files == {"absent", "partial", "complete"}
PCs == {"idle", "created", "reset", "fetch", "notify", "exiting", "gone"}

VARIABLES
    available,    \* bUpdateAvailable_
    handle,       \* the thread workerThread_ holds (NoThread before the first)
    joined,       \* threads already joined (no longer joinable)
    pc,           \* worker -> where its thread is
    chunks,       \* worker -> data received so far
    cancel,       \* cancel_
    progress,     \* progress_
    localFile,    \* <datadir>/update/<name>
    tmpFile,      \* <datadir>/update/<name>.tmp
    signals,      \* notifications queued to the GUI thread, in order
    banner,       \* OverviewPage::newVersionNotification
    app,          \* "running", "shutdown" (StartShutdown / window closed),
                  \* "waiting" (~AutoUpdateModel in Wait), "destroyed", "aborted"
    opened,       \* the release file as the "Open" link found it ("none" before)
    asserts       \* this binary was built with assertions (fixed for a run)

vars == <<available, handle, joined, pc, chunks, cancel, progress,
          localFile, tmpFile, signals, banner, app, opened, asserts>>

-----------------------------------------------------------------------------
(* Helpers translated from the code                                        *)

\* The progress computed from the chunk about to arrive.
ProgressOffByOne(c) == (100 * (c + 1)) \div MaxChunks

\* progress_ = 100.0 * now / total once data has arrived.
Progress(c) == (100 * c) \div MaxChunks

\* IsDownloadRunning: workerThread_ is set, joinable, and try_join_for(1ms)
\* does not join it.  The 1 ms wait is a bounded delay; a thread that ends
\* within it is the interleaving in which Exit happens first.
Running == handle # NoThread /\ handle \notin joined /\ pc[handle] # "gone"

\* The join that try_join_for performs on a finished thread.
JoinIfDone == IF handle # NoThread /\ pc[handle] = "gone" THEN joined \cup {handle} ELSE joined

(* Plausible slips in the code, each the body of the definition it is    *)
(* named after, used to show that a property can detect them.            *)

\* updateNewVersionAvailability asking IsDownloadRunning before FindLocalFile.
BannerForRunningFirst ==
    IF Running THEN "downloading"
    ELSE IF available /\ localFile # "absent" THEN "ready"
    ELSE IF available THEN "available" ELSE "none"

\* updateNewVersionAvailability: msg2 if the release file is there, msg3
\* while a download runs, msg1 if an update is announced.
BannerFor ==
    IF available /\ localFile # "absent" THEN "ready"
    ELSE IF Running THEN "downloading"
    ELSE IF available THEN "available" ELSE "none"

\* The GUI's refresh: the banner and the join IsDownloadRunning did.
Refresh ==
    /\ banner' = BannerFor
    /\ joined' = JoinIfDone

\* The notifications that make updateNewVersionDownloadProgress refresh.
Refreshes(s) == s = NewVersion \/ s = 0 \/ s > 100

-----------------------------------------------------------------------------
Init ==
    /\ available = FALSE
    /\ handle = NoThread
    /\ joined = {}
    /\ pc = [w \in Workers |-> "idle"]
    /\ chunks = [w \in Workers |-> 0]
    /\ cancel = FALSE
    /\ progress = 0
    /\ localFile = "absent"
    /\ tmpFile = "absent"
    /\ signals = <<>>
    /\ banner = "none"
    /\ app = "running"
    /\ opened = "none"
    /\ asserts \in Builds

-----------------------------------------------------------------------------
(* The worker thread: DownloadUpdateUrlFileThread and                    *)
(* DownloadUpdateUrlFileImpl.  The process is gone after an abort.        *)

\* ResetState(): progress_ = 0, cancel_ = false, latestRunError_ cleared.
ResetState(w) ==
    /\ pc[w] = "created"
    /\ pc' = [pc EXCEPT ![w] = "reset"]
    /\ progress' = 0
    /\ cancel' = FALSE
    /\ UNCHANGED <<available, handle, joined, chunks, localFile, tmpFile, signals, banner, app, opened, asserts>>

\* GetUpdateUrlFile, create the update folder, remove an old release file
\* and an old .tmp, then hand over to CURLDownloadToFile.
PrepareFiles(w) ==
    /\ pc[w] = "reset"
    /\ pc' = [pc EXCEPT ![w] = "fetch"]
    /\ localFile' = "absent"
    /\ tmpFile' = "absent"
    /\ UNCHANGED <<available, handle, joined, chunks, cancel, progress, signals, banner, app, opened, asserts>>

\* A progress callback after data arrived: cancel_ is clear, progress_ is
\* updated and NotifyUpdateDownloadProgress queues it to the GUI.
Receive(w) ==
    /\ pc[w] = "fetch"
    /\ ~cancel
    /\ chunks[w] < MaxChunks
    /\ chunks' = [chunks EXCEPT ![w] = @ + 1]
    /\ tmpFile' = IF chunks'[w] = MaxChunks THEN "complete" ELSE "partial"
    /\ progress' = Progress(chunks'[w])
    /\ signals' = Append(signals, progress')
    /\ UNCHANGED <<available, handle, joined, pc, cancel, localFile, banner, app, opened, asserts>>

\* A progress callback with no new data (libcurl calls it periodically):
\* the current progress_ is queued again.
Stall(w) ==
    /\ pc[w] = "fetch"
    /\ ~cancel
    /\ Len(signals) < MaxSignals
    /\ signals' = Append(signals, progress)
    /\ UNCHANGED <<available, handle, joined, pc, chunks, cancel, progress, localFile, tmpFile, banner, app, opened, asserts>>

(* Plausible slips in the code, each the body of the definition it is    *)
(* named after, used to show that a property can detect them.            *)

\* The failure branch renaming the .tmp file as the success branch does.
NetFailRenamed(w) ==
    /\ pc[w] = "fetch"
    /\ pc' = [pc EXCEPT ![w] = "notify"]
    /\ localFile' = IF tmpFile # "absent" THEN tmpFile ELSE localFile
    /\ tmpFile' = "absent"
    /\ UNCHANGED <<available, handle, joined, chunks, cancel, progress, signals, banner, app, opened, asserts>>

\* The transfer fails (network or server error): CURLDownloadToFile returns
\* false and the .tmp file is removed.
NetFail(w) ==
    /\ pc[w] = "fetch"
    /\ pc' = [pc EXCEPT ![w] = "notify"]
    /\ tmpFile' = "absent"
    /\ UNCHANGED <<available, handle, joined, chunks, cancel, progress, localFile, signals, banner, app, opened, asserts>>

\* The progress callback finds cancel_ set and returns CURL_CANCEL_DOWNLOAD;
\* the download fails and the .tmp file is removed.
Cancelled(w) ==
    /\ pc[w] = "fetch"
    /\ cancel
    /\ pc' = [pc EXCEPT ![w] = "notify"]
    /\ tmpFile' = "absent"
    /\ UNCHANGED <<available, handle, joined, chunks, cancel, progress, localFile, signals, banner, app, opened, asserts>>

\* Every byte arrived: CURLDownloadToFile returns true and the .tmp file is
\* renamed to the release file.
Complete(w) ==
    /\ pc[w] = "fetch"
    /\ chunks[w] = MaxChunks
    /\ pc' = [pc EXCEPT ![w] = "notify"]
    /\ localFile' = tmpFile
    /\ tmpFile' = "absent"
    /\ UNCHANGED <<available, handle, joined, chunks, cancel, progress, signals, banner, app, opened, asserts>>

\* NotifyUpdateDownloadProgress("", DOWNLOAD_THREAD_EXIT), then the log
\* line and the return that end the thread.
Notify(w) ==
    /\ pc[w] = "notify"
    /\ pc' = [pc EXCEPT ![w] = "exiting"]
    /\ signals' = Append(signals, ThreadExit)
    /\ UNCHANGED <<available, handle, joined, chunks, cancel, progress, localFile, tmpFile, banner, app, opened, asserts>>

Exit(w) ==
    /\ pc[w] = "exiting"
    /\ pc' = [pc EXCEPT ![w] = "gone"]
    /\ UNCHANGED <<available, handle, joined, chunks, cancel, progress, localFile, tmpFile, signals, banner, app, opened, asserts>>

Worker(w) ==
    /\ app # "aborted"
    /\ \/ ResetState(w) \/ PrepareFiles(w) \/ Receive(w) \/ Stall(w)
       \/ NetFail(w) \/ Cancelled(w) \/ Complete(w) \/ Notify(w) \/ Exit(w)

-----------------------------------------------------------------------------
(* The GUI thread (OverviewPage) and shutdown                              *)

\* The update checker calls SetUpdateAvailable(true, tag, file) and the
\* client model emits newVersionAvailable.
Announce ==
    /\ ~available
    /\ available' = TRUE
    /\ signals' = Append(signals, NewVersion)
    /\ UNCHANGED <<handle, joined, pc, chunks, cancel, progress, localFile, tmpFile, banner, app, opened, asserts>>

\* The event loop delivers the oldest notification; a start (0), an exit
\* (> 100) or newVersionAvailable calls updateNewVersionAvailability.
HandleSignal ==
    /\ app = "running"
    /\ signals # <<>>
    /\ signals' = Tail(signals)
    /\ IF Refreshes(Head(signals)) THEN Refresh ELSE UNCHANGED <<banner, joined>>
    /\ UNCHANGED <<available, handle, pc, chunks, cancel, progress, localFile, tmpFile, app, opened, asserts>>

\* DownloadUpdateUrlFile with its "Download in progress" check removed.
ClickDownloadUnguarded ==
    /\ app = "running"
    /\ banner = "available"
    /\ handle < MaxDownloads
    /\ handle' = handle + 1
    /\ pc' = [pc EXCEPT ![handle + 1] = "created"]
    /\ joined' = JoinIfDone
    /\ UNCHANGED <<available, chunks, cancel, progress, localFile, tmpFile, signals, banner, app, opened, asserts>>

\* The "Download" link of msg1, or "Download now" in its message box:
\* alertLinkActivated("Download") calls DownloadUpdateUrlFile, which
\* refuses while IsDownloadRunning and otherwise replaces workerThread_
\* by a new thread.  The URL is never empty here: msg1 needs
\* bUpdateAvailable_, and SetUpdateAvailable asserts a URL with it.
ClickDownload ==
    /\ app = "running"
    /\ banner = "available"
    /\ joined' = JoinIfDone
    /\ \/ /\ Running
          /\ UNCHANGED <<handle, pc>>
       \/ /\ ~Running
          /\ handle < MaxDownloads
          /\ handle' = handle + 1
          /\ pc' = [pc EXCEPT ![handle + 1] = "created"]
    /\ UNCHANGED <<available, chunks, cancel, progress, localFile, tmpFile, signals, banner, app, opened, asserts>>

\* The "Open" link of msg2, or its message box: FindLocalFile finds the
\* release file, StartShutdown, and the file is opened.  (The "Local file
\* was not found" branch needs the file gone while msg2 shows, and nothing
\* removes it then: a new download needs msg1.)
ClickOpen ==
    /\ app = "running"
    /\ banner = "ready"
    /\ localFile # "absent"
    /\ opened' = localFile
    /\ app' = "shutdown"
    /\ UNCHANGED <<available, handle, joined, pc, chunks, cancel, progress, localFile, tmpFile, signals, banner, asserts>>

\* The user closes the wallet.
Close ==
    /\ app = "running"
    /\ app' = "shutdown"
    /\ UNCHANGED <<available, handle, joined, pc, chunks, cancel, progress, localFile, tmpFile, signals, banner, opened, asserts>>

\* ReleaseContext destroys the model: assert(!IsDownloadRunning()) aborts a
\* debug build while a download runs; then Cancel() sets cancel_ and Wait()
\* joins the worker.
Destroy ==
    /\ app = "shutdown"
    /\ IF asserts /\ Running
       THEN /\ app' = "aborted"
            /\ UNCHANGED <<joined, cancel>>
       ELSE /\ app' = "waiting"
            /\ cancel' = TRUE
            /\ joined' = IF asserts THEN JoinIfDone ELSE joined
    /\ UNCHANGED <<available, handle, pc, chunks, progress, localFile, tmpFile, signals, banner, opened, asserts>>

\* Wait() returns once join() does: the worker thread has ended.
WaitDone ==
    /\ app = "waiting"
    /\ ~Running
    /\ app' = "destroyed"
    /\ joined' = IF handle = NoThread THEN joined ELSE joined \cup {handle}
    /\ UNCHANGED <<available, handle, pc, chunks, cancel, progress, localFile, tmpFile, signals, banner, opened, asserts>>

\* The process has exited (or aborted): nothing happens any more.
Terminated ==
    /\ app \in {"destroyed", "aborted"}
    /\ UNCHANGED vars

Next ==
    \/ \E w \in Workers : Worker(w)
    \/ Announce \/ HandleSignal \/ ClickDownload \/ ClickOpen \/ Close
    \/ Destroy \/ WaitDone \/ Terminated

Spec == Init /\ [][Next]_vars

\* Threads are scheduled, the event loop runs, shutdown proceeds, and
\* libcurl keeps calling the progress callback and returns once every byte
\* is in.  Data arriving, the network failing and the user are not fair:
\* a server may stall forever and a user may never click.
FairSpec ==
    /\ Spec
    /\ \A w \in Workers :
           /\ WF_vars(ResetState(w)) /\ WF_vars(PrepareFiles(w))
           /\ WF_vars(Cancelled(w)) /\ WF_vars(Complete(w))
           /\ WF_vars(Notify(w)) /\ WF_vars(Exit(w))
    /\ WF_vars(HandleSignal) /\ WF_vars(Destroy) /\ WF_vars(WaitDone)

-----------------------------------------------------------------------------
(* Properties                                                              *)

Alive == {"created", "reset", "fetch", "notify", "exiting"}

TypeOK ==
    /\ available \in BOOLEAN
    /\ handle \in {NoThread} \cup Workers /\ joined \subseteq Workers
    /\ pc \in [Workers -> PCs] /\ chunks \in [Workers -> 0..MaxChunks]
    /\ cancel \in BOOLEAN /\ progress \in 0..100
    /\ localFile \in Files /\ tmpFile \in Files
    /\ signals \in Seq({NewVersion, ThreadExit} \cup 0..100)
    /\ banner \in Banners
    /\ app \in {"running", "shutdown", "waiting", "destroyed", "aborted"}
    /\ opened \in {"none"} \cup Files
    /\ asserts \in BOOLEAN

\* AutoUpdateModel implements UpdateDownload: the downloads in progress are
\* the worker threads that have not ended, and the release is the file at
\* the final path.  One download at a time (DownloadUpdateUrlFile replaces
\* workerThread_ only when IsDownloadRunning says the previous thread has
\* ended); the release file changes only inside a download and becomes
\* complete only by the rename on success, so "Close wallet and start
\* update" only ever opens a complete release.
Download == INSTANCE UpdateDownload
                WITH running <- Cardinality({w \in Workers : pc[w] \in Alive}),
                     release <- localFile

UpdateDownloadRefined == Download!Spec

\* Once a download has completed, its thread has queued the exit
\* notification and the GUI has handled every notification, msg2 ("ready
\* for installation") shows, even if the thread has not ended yet:
\* updateNewVersionAvailability looks for the file before asking whether
\* the thread still runs.
ReadyBannerCurrent ==
    /\ app = "running" /\ signals = <<>> /\ localFile = "complete"
    /\ \A w \in Workers : pc[w] \in {"idle", "exiting", "gone"}
    => banner = "ready"

\* Shutdown completes: ~AutoUpdateModel cancels the download and Wait()
\* returns.  A Cancel() that comes before the new thread's ResetState() is
\* undone by it, and a stalled download then keeps Wait() blocked.
ShutdownCompletes == app = "shutdown" ~> app \in {"destroyed", "aborted"}

====
