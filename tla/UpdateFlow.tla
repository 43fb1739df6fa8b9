----------------------------- MODULE UpdateFlow -----------------------------
(***************************************************************************)
(* From the check for a new release to the hand-over to the install helper:  *)
(* the state the main window keeps about the update, its dialog and message *)
(* boxes with their nested event loops, the worker jobs in the update pool  *)
(* (one thread), and the transaction lock of UpdateService, which is         *)
(* re-entrant in the process and gets a new id each time it is taken anew.  *)
(***************************************************************************)
EXTENDS Naturals, Sequences

CONSTANTS Newest,        \* bound: releases newer than the running program
          MaxDownloads,  \* bound: downloads the user starts
          MaxInstalls    \* bound: installations the user confirms

ASSUME UpdateAssumption == Newest \in Nat /\ MaxDownloads \in Nat /\ MaxInstalls \in Nat

VARIABLES
  latest,     \* the latest release on GitHub, 0 the running version
  info,       \* _update_info, 0 none
  staged,     \* _staged_update
  identity,   \* _update_download_identity, 0 none
  skipped,    \* the setting skipped_update_version
  checking,   \* _update_check_worker is there
  manual,     \* _update_check_manual
  operation,  \* _update_operation_id and its _update_download_worker, 0 none
  cancelled,  \* that worker was told to stop
  installing, \* _update_install_worker is there
  button,     \* the tool bar shows the update button
  dialog,     \* what the update dialog looks like
  shown,      \* its latest_version
  windows,    \* the modal windows, the one that takes input last
  jobs,       \* the update pool: a running worker and those behind it
  events,     \* its signals the main thread has not handled
  txn,        \* _transaction_id while the lock is held, 0 otherwise
  other,      \* another process holds the lock file
  txns,       \* transaction ids made so far
  roots,      \* staged directories on the disk
  helpers,    \* the updates whose install helper took over
  quit,       \* request_quit was called or the user closed the window
  downloads, installs,   \* how many the user started
  undercut    \* a staged update was discarded while a worker was busy with one

books   == <<info, staged, identity, skipped>>
workers == <<checking, manual, operation, cancelled, installing>>
view    == <<button, dialog, shown, windows>>
lock    == <<txn, other, txns>>
counts  == <<downloads, installs, undercut>>
vars    == <<latest, books, workers, view, jobs, events, lock, roots, helpers, quit, counts>>

Versions == 0..Newest
Updates  == [ver : Versions, txn : Nat]
Nothing  == [ver |-> 0, txn |-> 0]

Job(kind, id, u, phase) == [kind |-> kind, id |-> id, upd |-> u, phase |-> phase]
Jobs   == [kind : {"check", "download", "install"}, id : 0..MaxDownloads, upd : Updates,
           phase : {"queued", "fetching", "fetched", "staging", "verified", "planned"}]
Event(kind, id, u, outcome) == [kind |-> kind, id |-> id, upd |-> u, outcome |-> outcome]
Events == [kind : {"checked", "checkOver", "downloaded", "downloadOver", "installed", "installOver"},
           id : 0..MaxDownloads, upd : Updates, outcome : {"ok", "error", "tampered"}]
Window(kind, u, outcome) == [kind |-> kind, upd |-> u, outcome |-> outcome]
Windows == [kind : {"dialog", "question", "warning"}, upd : Updates,
            outcome : {"ok", "error", "tampered"}]
Looks  == {"none", "available", "downloading", "ready", "installing", "error"}

TypeOK ==
  /\ latest \in Versions /\ info \in Versions /\ identity \in Versions
  /\ skipped \in Versions /\ shown \in Versions
  /\ staged \in Updates
  /\ checking \in BOOLEAN /\ manual \in BOOLEAN /\ cancelled \in BOOLEAN
  /\ installing \in BOOLEAN /\ button \in BOOLEAN /\ other \in BOOLEAN
  /\ quit \in BOOLEAN /\ undercut \in BOOLEAN
  /\ operation \in 0..MaxDownloads
  /\ dialog \in Looks /\ windows \in Seq(Windows)
  /\ jobs \in Seq(Jobs) /\ events \in Seq(Events)
  /\ txns \in Nat /\ txn \in 0..txns
  /\ roots \subseteq Updates /\ helpers \subseteq Updates
  /\ downloads \in 0..MaxDownloads /\ installs \in 0..MaxInstalls

Check == Job("check", 0, Nothing, "queued")

\* 1.8 seconds after the start the automatic check is in the pool.
Init ==
  /\ latest \in Versions /\ skipped \in Versions
  /\ info = 0 /\ staged = Nothing /\ identity = 0
  /\ checking = TRUE /\ manual = FALSE /\ operation = 0 /\ cancelled = FALSE /\ installing = FALSE
  /\ button = FALSE /\ dialog = "none" /\ shown = 0 /\ windows = <<>>
  /\ jobs = <<Check>> /\ events = <<>>
  /\ txn = 0 /\ other \in BOOLEAN /\ txns = 0
  /\ roots = {} /\ helpers = {} /\ quit = FALSE
  /\ downloads = 0 /\ installs = 0 /\ undercut = FALSE

-----------------------------------------------------------------------------
(* What the user sees *)

Free       == ~quit /\ windows = <<>>
Top(kind)  == ~quit /\ windows # <<>> /\ windows[Len(windows)].kind = kind
TopUpdate  == windows[Len(windows)].upd
Popped     == SubSeq(windows, 1, Len(windows) - 1)

\* dialog.show: raise_ does not lift an open dialog over a box that is modal.
Show(ws) == IF \E i \in DOMAIN ws : ws[i].kind = "dialog" THEN ws
            ELSE Append(ws, Window("dialog", Nothing, "ok"))

\* _show_update_dialog for the release v with s staged.
ShowDialog(v, s) ==
  /\ dialog' = IF installing THEN "installing"
               ELSE IF s # Nothing THEN "ready"
               ELSE IF operation # 0 THEN "downloading"
               ELSE IF dialog = "error" /\ shown = v THEN "error" ELSE "available"
  /\ shown' = v
  /\ windows' = Show(windows)

-----------------------------------------------------------------------------
(* The transaction lock *)

HasLock == txn # 0

Current == IF HasLock THEN txn ELSE txns + 1   \* the id _acquire_update_lock returns
MadeIds == IF HasLock THEN txns ELSE txns + 1

AcquireLock == ~other /\ txn' = Current /\ txns' = MadeIds /\ UNCHANGED other
ReleaseLock == txn' = 0 /\ UNCHANGED <<other, txns>>
KeepLock    == UNCHANGED lock
Refused     == other /\ UNCHANGED lock
LoseLock    == ~other /\ txn' = 0 /\ txns' = MadeIds /\ UNCHANGED other  \* acquired, then released

\* Another instance, or the helper of an earlier update, on the same file.
OtherTakes  == ~HasLock /\ ~other /\ other' = TRUE
               /\ UNCHANGED <<latest, books, workers, view, jobs, events, txn, txns, roots, helpers,
                              quit, counts>>
OtherLeaves == other /\ other' = FALSE
               /\ UNCHANGED <<latest, books, workers, view, jobs, events, txn, txns, roots, helpers,
                              quit, counts>>

-----------------------------------------------------------------------------
(* The user *)

Release == /\ latest < Newest /\ latest' = latest + 1
           /\ UNCHANGED <<books, workers, view, jobs, events, lock, roots, helpers, quit, counts>>

\* check_for_updates(manual=True), from the menu, the button or the settings.
AskCheck ==
  /\ Free
  /\ IF operation # 0
       THEN /\ IF info # 0 THEN ShowDialog(info, staged) ELSE UNCHANGED <<dialog, shown, windows>>
            /\ UNCHANGED <<checking, manual, jobs>>
       ELSE /\ checking' = TRUE /\ manual' = TRUE
            /\ jobs' = IF checking THEN jobs ELSE Append(jobs, Check)
            /\ UNCHANGED <<dialog, shown, windows>>
  /\ UNCHANGED <<latest, books, operation, cancelled, installing, button, events, lock, roots,
                 helpers, quit, counts>>

\* _on_update_button_clicked with a release to show.
OpenDialog ==
  /\ Free /\ button /\ info # 0
  /\ ShowDialog(info, staged)
  /\ UNCHANGED <<latest, books, workers, button, jobs, events, lock, roots, helpers, quit, counts>>

\* Later, Esc, or the dialog's own close.
CloseDialog ==
  /\ Top("dialog")
  /\ windows' = Popped
  /\ UNCHANGED <<latest, books, workers, button, dialog, shown, jobs, events, lock, roots, helpers,
                 quit, counts>>

Skip ==
  /\ Top("dialog") /\ dialog = "available"
  /\ skipped' = shown /\ button' = FALSE /\ windows' = Popped
  /\ UNCHANGED <<latest, info, staged, identity, workers, dialog, shown, jobs, events, lock, roots,
                 helpers, quit, counts>>

\* The primary button of a dialog that is available or shows an error, and
\* _start_update_download.
StartDownload ==
  /\ Top("dialog") /\ dialog \in {"available", "error"}
  /\ dialog' = "downloading"
  /\ IF info # 0 /\ shown = info /\ operation = 0
       THEN /\ downloads < MaxDownloads
            /\ downloads' = downloads + 1
            /\ operation' = downloads + 1 /\ cancelled' = FALSE
            /\ identity' = info /\ button' = TRUE
            /\ jobs' = Append(jobs, Job("download", downloads + 1, [ver |-> info, txn |-> 0], "queued"))
       ELSE UNCHANGED <<downloads, operation, cancelled, identity, button, jobs>>
  /\ UNCHANGED <<latest, info, staged, skipped, checking, manual, installing, shown, windows,
                 events, lock, roots, helpers, quit, installs, undercut>>

\* _confirm_update_install up to its question.
AskInstall ==
  /\ Top("dialog") /\ dialog = "ready"
  /\ IF staged = Nothing \/ shown # staged.ver \/ staged.ver # identity
       THEN dialog' = "error" /\ UNCHANGED windows
       ELSE /\ windows' = IF installing THEN windows ELSE Append(windows, Window("question", staged, "ok"))
            /\ UNCHANGED dialog
  /\ UNCHANGED <<latest, books, workers, button, shown, jobs, events, lock, roots, helpers, quit, counts>>

AnswerNo ==
  /\ Top("question")
  /\ windows' = Popped /\ dialog' = "ready"
  /\ UNCHANGED <<latest, books, workers, button, shown, jobs, events, lock, roots, helpers, quit, counts>>

\* The rest of _confirm_update_install and _launch_staged_update, with the
\* staged update it had read before the question.
AnswerYes ==
  /\ Top("question") /\ installs < MaxInstalls
  /\ windows' = Popped /\ dialog' = "installing"
  /\ installing' = TRUE
  /\ IF installing THEN UNCHANGED <<jobs, installs>>
     ELSE /\ jobs' = Append(jobs, Job("install", 0, TopUpdate, "queued"))
          /\ installs' = installs + 1
  /\ UNCHANGED <<latest, books, checking, manual, operation, cancelled, button, shown, events, lock,
                 roots, helpers, quit, downloads, undercut>>

Forget  == Nothing

WholeTransaction(u) == {r \in roots : r.txn = u.txn}   \* slip: all roots of the transaction
Discarded(u)        == {u}

\* A download or an installation runs, waits or has not been heard of yet.
Pending == \/ \E i \in DOMAIN jobs : jobs[i].kind # "check"
           \/ \E i \in DOMAIN events : events[i].kind \in {"downloaded", "installed"}

\* The end of _on_update_installer_result behind its warning: after a security
\* error discard_staged_update and the window forgets the update.
DismissWarning ==
  /\ Top("warning")
  /\ windows' = Popped
  /\ IF windows[Len(windows)].outcome = "tampered"
       THEN /\ roots' = roots \ Discarded(TopUpdate)
            /\ ReleaseLock
            /\ staged' = Forget /\ identity' = 0
            /\ dialog' = "error" /\ button' = TRUE
            /\ undercut' = (undercut \/ Pending)
       ELSE /\ dialog' = "ready"
            /\ UNCHANGED <<roots, lock, staged, identity, button, undercut>>
  /\ UNCHANGED <<latest, info, skipped, workers, shown, jobs, events, helpers, quit, downloads, installs>>

\* The user closes the program with no box open: _shutdown_before_close.
Close ==
  /\ Free
  /\ quit' = TRUE /\ cancelled' = (operation # 0)
  /\ UNCHANGED <<latest, books, checking, manual, operation, installing, view, jobs, events, lock,
                 roots, helpers, counts>>

User == AskCheck \/ OpenDialog \/ CloseDialog \/ Skip \/ StartDownload \/ AskInstall \/ AnswerNo
        \/ AnswerYes \/ DismissWarning \/ Close

-----------------------------------------------------------------------------
(* The thread of the update pool *)

Running(kind, phase) == jobs # <<>> /\ Head(jobs).kind = kind /\ Head(jobs).phase = phase
Active == Head(jobs)

\* The job goes on to its next phase with the transaction id t.
Continue(phase, t) ==
  /\ jobs' = <<[Active EXCEPT !.phase = phase, !.upd.txn = t]>> \o Tail(jobs)
  /\ UNCHANGED events

ResultOf == [check |-> "checked", download |-> "downloaded", install |-> "installed"]
OverOf   == [check |-> "checkOver", download |-> "downloadOver", install |-> "installOver"]

\* run emits the result and, in finally, that it is finished.
End(u, outcome) ==
  /\ jobs' = Tail(jobs)
  /\ events' = events \o <<Event(ResultOf[Active.kind], Active.id, u, outcome),
                           Event(OverOf[Active.kind], Active.id, Nothing, "ok")>>

poolOnly == <<latest, books, workers, view, quit, counts>>

\* check_for_update: the release as it is now, or an error.
RunCheck ==
  /\ Running("check", "queued")
  /\ End([ver |-> latest, txn |-> 0], "ok") \/ End(Nothing, "error")
  /\ UNCHANGED <<poolOnly, lock, roots, helpers>>

\* download_update: the lock, then the transfer.
BeginDownload ==
  /\ Running("download", "queued")
  /\ \/ AcquireLock /\ Continue("fetching", Current)
     \/ Refused /\ End(Nothing, "error")
  /\ UNCHANGED <<poolOnly, roots, helpers>>

Completed == ReleaseLock                       \* slip: released in a finally
Holds     == KeepLock

EndFetch ==
  /\ Running("download", "fetching")
  /\ \/ Continue("fetched", Active.upd.txn) /\ Holds
     \/ ReleaseLock /\ End(Nothing, "error")
  /\ UNCHANGED <<poolOnly, roots, helpers>>

Matching(t) == Active.upd.txn = t

\* stage_update up to the extraction: the stop request; the checks that raise
\* and keep the lock; the lock, which may have got another id.
BeginStage ==
  /\ Running("download", "fetched")
  /\ \/ cancelled /\ ReleaseLock /\ End(Nothing, "error")
     \/ ~cancelled /\ UNCHANGED lock /\ End(Nothing, "error")
     \/ ~cancelled /\ Refused /\ End(Nothing, "error")
     \/ ~cancelled /\ AcquireLock /\ Matching(Current) /\ Continue("staging", Active.upd.txn)
     \/ ~cancelled /\ LoseLock /\ ~Matching(Current) /\ End(Nothing, "error")
  /\ UNCHANGED <<poolOnly, roots, helpers>>

EndStage ==
  /\ Running("download", "staging")
  /\ \/ roots' = roots \cup {Active.upd} /\ UNCHANGED lock /\ End(Active.upd, "ok")
     \/ ReleaseLock /\ UNCHANGED roots /\ End(Nothing, "error")
  /\ UNCHANGED <<poolOnly, helpers>>

\* create_installer_plan up to the lock; none of its errors releases the lock.
VerifyStaged ==
  /\ Running("install", "queued")
  /\ \/ Active.upd \in roots /\ Continue("verified", Active.upd.txn)
     \/ \E outcome \in {"error", "tampered"} : End(Nothing, outcome)
  /\ UNCHANGED <<poolOnly, lock, roots, helpers>>

\* The rest of create_installer_plan, which writes the script.
PlanInstall ==
  /\ Running("install", "verified")
  /\ \/ Refused /\ End(Nothing, "error")
     \/ AcquireLock /\ Matching(Current) /\ Continue("planned", Active.upd.txn)
     \/ LoseLock /\ End(Nothing, "error")
  /\ UNCHANGED <<poolOnly, roots, helpers>>

\* launch_installer: the helper reports ready, or it is terminated.
LaunchInstaller ==
  /\ Running("install", "planned")
  /\ \/ helpers' = helpers \cup {Active.upd} /\ UNCHANGED lock /\ End(Active.upd, "ok")
     \/ ReleaseLock /\ UNCHANGED helpers /\ End(Nothing, "error")
  /\ UNCHANGED <<poolOnly, roots>>

Pool == RunCheck \/ BeginDownload \/ EndFetch \/ BeginStage \/ EndStage \/ VerifyStaged
        \/ PlanInstall \/ LaunchInstaller

\* The process ends when the pool is done, and with it its lock.
Exit ==
  /\ quit /\ jobs = <<>> /\ HasLock
  /\ ReleaseLock
  /\ UNCHANGED <<poolOnly, jobs, events, roots, helpers>>

-----------------------------------------------------------------------------
(* The signals, handled in the event loop of the window or of a box *)

Signal(kind) == ~quit /\ events # <<>> /\ Head(events).kind = kind
Arrived      == Head(events)
Handled      == events' = Tail(events)

Never(v)    == FALSE                           \* slip: the old update stays staged
Outdated(v) == staged.ver # v

\* _on_update_check_result.
HandleChecked ==
  /\ Signal("checked") /\ Handled
  /\ LET v == Arrived.upd.ver IN
     CASE Arrived.outcome = "error" -> UNCHANGED <<info, staged, view>>
       [] Arrived.outcome = "ok" /\ v = 0 ->
            /\ IF staged = Nothing THEN info' = 0 /\ button' = FALSE ELSE UNCHANGED <<info, button>>
            /\ UNCHANGED <<staged, dialog, shown, windows>>
       [] Arrived.outcome = "ok" /\ v # 0 /\ operation # 0 -> UNCHANGED <<info, staged, view>>
       [] OTHER ->
            /\ info' = v
            /\ staged' = IF Outdated(v) THEN Nothing ELSE staged
            /\ IF skipped = v /\ ~manual
                 THEN button' = FALSE /\ UNCHANGED <<dialog, shown, windows>>
                 ELSE button' = TRUE /\ ShowDialog(v, staged')
  /\ UNCHANGED <<latest, identity, skipped, workers, jobs, lock, roots, helpers, quit, counts>>

HandleCheckOver ==
  /\ Signal("checkOver") /\ Handled
  /\ checking' = FALSE /\ manual' = FALSE
  /\ UNCHANGED <<latest, books, operation, cancelled, installing, view, jobs, lock, roots, helpers,
                 quit, counts>>

\* _on_update_download_result.
HandleDownloaded ==
  /\ Signal("downloaded") /\ Handled
  /\ IF Arrived.id # operation
       THEN UNCHANGED <<staged, view>>
       ELSE /\ button' = TRUE
            /\ CASE Arrived.outcome = "error" ->
                      dialog' = "error" /\ windows' = Show(windows) /\ UNCHANGED staged
                 [] Arrived.outcome = "ok" /\ Arrived.upd.ver # identity ->
                      dialog' = "error" /\ UNCHANGED <<staged, windows>>
                 [] OTHER ->
                      staged' = Arrived.upd /\ dialog' = "ready" /\ windows' = Show(windows)
            /\ UNCHANGED shown
  /\ UNCHANGED <<latest, info, identity, skipped, workers, jobs, lock, roots, helpers, quit, counts>>

Missed(id) == FALSE                            \* slip: the finished signal is lost
Over(id)   == id = operation

HandleDownloadOver ==
  /\ Signal("downloadOver") /\ Handled
  /\ IF Over(Arrived.id) THEN operation' = 0 ELSE UNCHANGED operation
  /\ UNCHANGED <<latest, books, checking, manual, cancelled, installing, view, jobs, lock, roots,
                 helpers, quit, counts>>

\* _on_update_installer_result: the warning is modal, what follows it comes in
\* DismissWarning; after a hand-over the program quits and its windows close.
HandleInstalled ==
  /\ Signal("installed") /\ Handled
  /\ CASE staged = Nothing -> UNCHANGED <<windows, quit, cancelled>>
       [] staged # Nothing /\ Arrived.outcome = "ok" ->
            /\ windows' = <<>>
            /\ quit' = TRUE /\ cancelled' = (operation # 0)
       [] OTHER ->
            /\ windows' = Append(windows, Window("warning", staged, Arrived.outcome))
            /\ UNCHANGED <<quit, cancelled>>
  /\ UNCHANGED <<latest, books, checking, manual, operation, installing, button, dialog, shown, jobs,
                 lock, roots, helpers, counts>>

Kept == installing                             \* slip: the worker stays registered
Gone == FALSE

HandleInstallOver ==
  /\ Signal("installOver") /\ Handled
  /\ installing' = Gone
  /\ UNCHANGED <<latest, books, checking, manual, operation, cancelled, view, jobs, lock, roots,
                 helpers, quit, counts>>

Handle == HandleChecked \/ HandleCheckOver \/ HandleDownloaded \/ HandleDownloadOver
          \/ HandleInstalled \/ HandleInstallOver

Next == Release \/ OtherTakes \/ OtherLeaves \/ User \/ Pool \/ Exit \/ Handle

\* The pool thread runs (the network has timeouts) and the main thread handles
\* signals, in a nested loop too; users, releases and other processes need not act.
Spec == Init /\ [][Next]_vars /\ WF_vars(Pool) /\ WF_vars(Handle)

-----------------------------------------------------------------------------
(* Properties *)

\* A download never runs while a finished one is offered: it would delete the
\* directory that an installation takes its files from.
NoDownloadOverStaged ==
  staged # Nothing => \A i \in DOMAIN jobs : jobs[i].kind # "download"

\* While files are transferred and staged the lock is held under the same id, so
\* that no other instance works in the same place; the exception is a discarded
\* update behind whose warning the user started another one.
Working == jobs # <<>> /\ Head(jobs).phase \in {"fetching", "fetched", "staging"}
LockedWhileWorking == Working /\ ~undercut => txn = Head(jobs).upd.txn

\* A helper that took over starts from the files that were checked.
HelperHasSource == ~undercut => helpers \subseteq roots

\* Every download and every installation comes to an end for the window.
DownloadEnds == (operation # 0) ~> (operation = 0 \/ quit)
InstallEnds  == installing ~> (~installing \/ quit)

-----------------------------------------------------------------------------
(* What the program says and the code does not do *)

Reporting(h) == \E i \in DOMAIN events : events[i].kind = "installed" /\ events[i].upd = h

\* main_window.py:3530 tells the user that MailDesk closes and starts again once
\* the helper has taken over.
ClosesAfterHandOver == ~quit => \A h \in helpers : Reporting(h)

\* The tool tip of the button says the update is checked and a click installs it:
\* with nothing under way it belongs to the transaction that is open.
ReadyInstalls ==
  (staged # Nothing /\ jobs = <<>> /\ events = <<>> /\ windows = <<>> /\ ~quit) => txn = staged.txn
=============================================================================
