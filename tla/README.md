# A verification development of MailDesk

MailDesk is a desktop program (Python, PySide6, SQLite) that keeps many mail
accounts, fetches their mail in parallel, shows, translates and sends mail and
updates itself. This directory holds TLA+ specifications of the parts of it that
are hard to test, TLC configurations that check them on small instances, and
proofs that TLAPS checks for every value of the constants. Source paths are
relative to the root of the repository; `src/mailbox_manager/` is the package.

## 1. The system

| part | state it keeps | operations | talks to |
|---|---|---|---|
| main window (`gui/main_window.py`) | `_workers`, `_stop_event`, `_fetch_total`, `_fetch_results`, toolbar, `_staged_update`, `_security_consent_workers`, tree selection, timers | start/stop/schedule a fetch, import, file, delete, settings, jobs, update flow, quit | all others; Qt signals bring worker results back to its thread |
| fetch workers and service (`gui/workers.py`, `services/fetch_service.py`) | locals of one `fetch_account` | resolve route, throttle, fetch, EML, rules, store, status | protocol clients, stores, throttle |
| store (`storage/*.py`, `services/eml_store.py`) | SQLite tables, EML directories | insert, update, delete; one transaction per call | main thread and workers, each with its own connection |
| registry (`storage/enterprise_repositories.py`, settings, import and group dialogs) | groups, tags, proxies, webhooks, rules, schedules, settings | filing, import, deletion with cascades, saving of settings | store, schedules, router |
| proxy router (`services/client_factory.py`, `proxy_service.py`) | the stored switch and list | route of a booked account | fetch workers |
| schedules (`services/scheduler_service.py`) | `next_run_at` per group | `run_due`, `mark_run` | QTimer of the main window |
| account jobs (`services/discovery_service.py`, `security_audit.py`, `security_authorization.py`) | a job each, the dialog of a device code | self-test, discovery, audit, consent | store, servers, main window by signals |
| throttle (`services/throttle.py`) | semaphore and next start per identity | `slot`, replaced by `set_throttle` | worker threads |
| protocol clients (`protocols/`) | connection, known transport ids | fetch, act on a message, token refresh | mail servers |
| automation and webhooks | rules | per message side effects | servers |
| sending (`gui/compose_dialog.py`, `services/send_service.py`, `protocols/smtp_client.py`) | the draft, `_send_worker`, results of a batch | compose, confirm, send from each account | servers, main window |
| reading (`gui/mail_viewer_dialog.py`, main window's pane, `services/translation_service.py`, `mail/remote_images.py`) | shown message, generations, translation, images | select, translate, load images, save attachments | workers, store |
| start-up (`app.py`, `config.py`, `storage/crypto.py`) | instance lock, migration marker, key file | health report, migration of legacy data, opening of store and key | helpers, other processes |
| update service (`services/update_service.py`) | transaction lock, staging directory | check, download, stage, plan, launch | update worker thread, main window |
| install helpers (two scripts inside `update_service.py`) | three paths beside the program, helper lock, result file | wait, verify, copy, two renames, watch, roll back | the old and the new process of the program |
| pure parts | none | mail parser, HTML, filters, TOTP, reports, version order, path checks | - |

What makes it hard:

* *threads and queued signals*: workers write the database while the main
  thread handles their signals later, in order per worker but interleaved;
* *nested event loops*: a modal dialog runs timers and slots, so what was read
  before the dialog may be false after it;
* *reused identities*: rowids of deleted accounts and groups are handed out
  again, and update transactions reuse their id within one process;
* *interruption*: an install helper, a migration, or the program, can be killed
  between any two steps;
* *handlers of several transactions*: an exception in the middle keeps the first
  ones, and the window does not know;
* *late answers*: translations, images, consents and discoveries come back for
  messages, accounts and dialogs that have changed;
* *limits and retries*: pool and semaphore sizes, deadlines, the schedule clock.

The list of hazards with their lines is in `PROJECT.json`.

What makes each part correct: the books agree with the threads and every batch
ends (main window); stored data belongs to the account it is filed under
(store, jobs); a tree of groups is a forest and what hangs on it exists, filing
survives imports (registry); a route is one the user has asked for (router); no
more than the configured number of fetches per identity, spaced as configured
(throttle); no due schedule is lost (schedules); every message is stored once and
none is skipped (clients); a mail leaves as it was confirmed and the result says
what happened (sending); a pane shows its message and asks the network only when
told to (reading); legacy data is neither lost nor locked away (start-up); the
lock is held while an update works (update service); a version of the
program is given up only while a tested one is there (helpers).

## 2. Modules

| module | what it is |
|---|---|
| `FetchBatch`, `MCFetchBatch`, `FetchBatchProofs` | main window, worker threads and store during fetch batches |
| `Replacement` | abstract: what a replacement of the program promises |
| `InstallHelper`, `MCInstallHelper`, `InstallHelperProofs` | both install scripts, several helpers, the new process |
| `UpdateFlow`, `MCUpdateFlow`, `UpdateFlowProofs` | from the check for a release to the hand-over to the helper |
| `ComplianceThrottle`, `MCComplianceThrottle`, `FetchAccountProofs` | limit and spacing of the fetches of one network identity |
| `MailSync`, `MCMailSync`, `FetchAccountProofs` | one account's mail from the server through the clients and the rules into the store |
| `Startup`, `MCStartup`, `StartupProofs` | several processes from their start to the window: migration, locks, key |
| `Outbox`, `MCOutbox`, `OutboxProofs` | composing, confirming and sending a mail from several accounts |
| `Reader`, `MCReader`, `ReaderProofs` | the reading pane and the viewer |
| `Registry` | accounts, groups, tags, proxies, rules, schedules, settings, routes |
| `AccountJobs`, `MCAccountJobs`, `AccountJobsProofs` | extends `Registry`: the jobs of one account beside everything the registry allows |

`MC...` is the instance for TLC, `...Proofs` holds theorems. `FetchAccountProofs`
extends two models, the slot a worker waits for and the mails it then fetches; they
share no state and have a specification each. `AccountJobs` is a
composition: its next-state relation contains the user's edits and the background
of `Registry`, and all its runs and theorems are about both together.

### FetchBatch

A mailbox is a number (`box`) that never comes back; an id is a rowid, which
does. `owner[a]` is the row: which mailbox has the id `a`. `stored[a]` and
`eml[a]` are the mailboxes whose mail and originals lie under the id, so mail
of a deleted mailbox that outlives it is seen. `task[a]` is the `QRunnable` with
the locals of `fetch_account` (`pc` is its place in the function), `inbox[a]`
the signals the main thread has not handled; signals of one worker keep their
order, those of different workers interleave freely.

`_fetch_completed`, logging and the view updates (`refresh_accounts`,
`_worker_result`) are left out: nothing reads them to decide. The nine account statuses
are the ones the properties tell apart: `network_error` stands for every
classified error. The dashboards, tags and groups are left out, a group being
any set of rows. Adding accounts while a message box is open is excluded because
the box is modal; the schedule timer is not excluded, because the nested event
loop of the box delivers it. `lastRun`, `raced` and `leftover` record what
happened for the properties and guard nothing.

| action | code |
|---|---|
| `Import` | `_confirm_import_preview`, `AccountRepository.add_many` |
| `AskDelete`, `CancelDelete`, `ConfirmDelete` | `delete_selected_accounts` before, in and after its message box |
| `StartFetch`, `ScheduleTick`, `QueueFetch` | `start_fetch`, `fetch_active_account`, `_run_due_schedules`, `_queue_fetch` |
| `StopFetch` | `stop_fetch` |
| `BeginRun` ... `FinishFailed` | `FetchWorker.run` and the stretches of `fetch_account` between two accesses to shared state |
| `HandleStatus`, `HandleFinished` | `_worker_status`, `_worker_finished` |

An operation on the database is one action since each repository call is one
transaction. `faults` caps how many of them fail.

### InstallHelper and Replacement

A helper is named after the release it installs. What lies at a path is a
version, `"none"` or `"wreck"` (part of a program). One action is a stretch of
the script between two observable changes of the disk or of a process. Where the
two scripts differ the actions test `platform`: the macOS script ignores errors
of its rollback and goes on, the Windows script ends it; the macOS lock is a
directory that stays when its maker is killed, the Windows lock a file handle the
system closes and the same file the program itself locks; Windows cannot rename or
remove a directory a program runs from (`Pinned`).

Several helpers exist because the update lock is re-entrant within the process
(`_acquire_update_lock`) and because the main window forgets a launched
helper when a newer release is found before it quits. They share the ready,
health and result paths when they share a transaction id.

`Replacement` states the promise of README.md and docs/MACOS.md: a version is
discarded only while another one, seen to start, is still complete on the disk.
`KeepsPromise` is `Replacement`'s specification with `copies` mapped to the
complete programs at the three paths and `proven` to the versions a helper has
seen healthy.

`opened` says for each helper which program it has started last and not stopped
again. `Reopen` starts what lies at the path, `Drop` is the new version that ends or is
stopped. A failure reports (`ReportFailure`), restarts the old version (`RestartOld`)
and only then gives the lock up (`ReleaseLock`, or the end of the Windows script), in
the order of both scripts. `ProgramReopened` therefore asks each helper for a start of
its own: after a success the release it tested, after a rollback the very program it
found. A helper that waits behind the lock meanwhile is turned away and starts the
program a second time. That is what the code does, and the property asks for it: what
lies at the path must have been started by that helper too, unless the other one has
it moved away. The second process is turned away by the instance lock (`Alone` of
`Startup`). A start of a complete program is taken to succeed; whether it goes on
living is `ChildRuns`.

Not in the model: the removal of the staging directory (`CleanupPath`), the
eight seconds `launch_installer` waits for the ready token (its SIGTERM is a
`Crash` while waiting), a user who starts the program by hand during the swap.

### UpdateFlow

Four parties act: the user at the windows, the one thread of the update pool,
the main thread handling its signals, and the world (releases, another process at
the lock file). `windows` is the stack of modal windows: the update dialog, the
question before the installation, the warning after one that failed. Only the
top one takes input, but the nested event loop of each delivers signals, so every
`Handle` action is possible behind a box; `DismissWarning` is what
`_on_update_installer_result` does after its box returns, with the staged update it
had read before. `jobs` is the pool with the running job at its head; a job's
`phase` says how far `download_update` and `stage_update`, or
`create_installer_plan` and `launch_installer`, have got. `txn` is the transaction
id while the lock is held; the lock is re-entrant, several errors keep it, and one
taken anew has a new id.

| action | code |
|---|---|
| `AskCheck`, `OpenDialog` | `check_for_updates`, `_on_update_button_clicked`, `_show_update_dialog` |
| `CloseDialog`, `Skip`, `StartDownload` | the buttons of `UpdateDialog`, `_skip_update_version`, `_start_update_download` |
| `AskInstall`, `AnswerNo`, `AnswerYes` | `_confirm_update_install` before and after its question, `_launch_staged_update` |
| `RunCheck` | `check_for_update` in `UpdateCheckWorker.run` |
| `BeginDownload`, `EndFetch` | `download_update` |
| `BeginStage`, `EndStage` | `stage_update` |
| `VerifyStaged`, `PlanInstall`, `LaunchInstaller` | `create_installer_plan` to the lock, from the lock on, `launch_installer` |
| `HandleChecked` ... `HandleInstallOver` | the slots `_on_update_*` |
| `Close`, `Exit` | `closeEvent`, the end of the process |

A release is its version; a release published again under the same version is not
in the model. The program is a packaged one (a source checkout cannot install).
Progress, status lines and the boxes of a manual check only display something.
The menu action for checks is left out, because the settings offer the same
check when it is disabled. The user closes the program with no box open.
`undercut` records that a staged update was discarded while another job was
pending, and guards nothing. `InstallHelper` begins where `LaunchInstaller` ends:
that `helpers` can have several elements with one transaction id is why it has
several helpers that share paths.

### ComplianceThrottle

`made` are the arguments of the throttle objects made so far; a thread keeps the one
it entered (`slot`). Times are seconds relative to now, so `Tick` lowers them: a
reservation stays at 0 once it is past, which is `max(now, ...)` of the code, and a
start is remembered for `Horizon` seconds, which guards nothing. Each identity has
its own semaphore and reservation, identities share no state; two slots that do not
share state are exercised by two throttles. The names of the module (`ThrottleSpec`,
`at` for the place of a thread) differ from those of `MailSync`, whose proofs share a
module with its own.

| action | code |
|---|---|
| `SetThrottle` | `show_settings`, `FetchService.set_throttle` |
| `EnterSlot` | `fetch_account` up to the `with` statement |
| `Acquire`, `Reserve`, `Wake`, `LeaveSlot` | `ComplianceThrottle.slot` |

### MailSync

One account whose fetches follow one another (`FetchBatch` says when that is so). A
mail is a number: its order of arrival, its UID and its place in Graph's
newest-first listing; two mails of a folder may have one Message-ID (`setup.message`),
which is what the table's unique key goes by. `setup` fixes what the user has
chosen: the kind of client (POP3 with UIDL or with the numbers of the session), the
number of folders, the limit, the action of the request and of one rule. `server` is
what lies in the scanned folders; a mail that is moved leaves it like one that is
deleted, only `deleted` tells them apart.

| action | code |
|---|---|
| `Begin`, `Store`, `Raise` | `fetch_account` before and after `fetch_messages`, its `except` |
| `ListUnknown`, `SkipFolder` | the listing of `ImapClient` and `Pop3Client`; a folder refused |
| `ListPage`, `GraphRefuses` | a page of `OutlookGraphClient.fetch_messages`; an action that raises |
| `Download`, `SkipMail`, `NextListing` | the loops over messages, pages and folders |
| `Retry`, `Break` | the error paths of the three `fetch_messages` |
| `RunRules` | `AutomationService.process` on one message |
| `Close`, `Crash` | `client.close()`, with POP3's QUIT; the end of the process |

A listing is newest first: `NewestFirst` puts at each place the mail that has as many
at least as new. The identifiers known to the store are read from `rows` when they are needed,
because nothing but the end of the fetch writes the rows of its account. Pages of
Graph are cut by the last mail of the page before, and contents come with the page, as
they come with the batch of IMAP: a mail another client deletes between that and its
turn is downloaded all the same; a server that counts positions
could leave out more when mail is deleted between two pages. A POP3 mailbox is
taken to be locked until the client is closed. Not in the model: a change of
UIDVALIDITY, a target folder that is scanned itself, other mail expunged together
with ours, attachments, Graph identifiers that change.

`history` variables guard nothing. `lost` counts the errors that the code answers by
throwing downloaded mail away: a crash, an exception in `fetch_account`, and an error
of IMAP, even one after the mail was deleted on the server. `DeletedMailKept` and
`NotifiedOnce` say that there is no other way to lose a deleted mail or to tell of a
mail twice. Two restrictions are in the properties because the code needs them:
`Distinct` (copies of one Message-ID overwrite each other's transport id and come
back at every fetch) and `Drains` (such copies can use up a limited request; Graph
stops at the first known message).

### Startup

A data root is a directory with what matters of its files; `Portable(p)` is the
root beside the program of process `p`, and a run from the source tree, or an older
release, has the legacy root for its own. `temp[p]` is the `.migrating` directory.
A process is at `pc[p]`; each step ends where another process or a crash could see
a difference.

| action | code |
|---|---|
| `Start` | `run` up to `report_update_health`, which may ask to defer the clean-up |
| `NothingToMigrate`, `LegacyInUse`, `LockLegacy`, `Unlock` | `migrate_legacy_data_for_startup` and the legacy instance lock |
| `Copy`, `Switch`, `Mark`, `MigrationFails` | `migrate_legacy_data`: copy, rename, marker |
| `Clean`, `Remove`, `RemoveFails` | `cleanup_deferred_legacy_data`, `rmtree` file by file |
| `ConfigureLogging`, `AcquireInstanceLock`, `AlreadyRunning` | the log directory, `QLockFile` |
| `Initialize` | `Database.initialize` |
| `LoadKey`, `MakeKey`, `KeyRefused` | `CredentialCipher.load_or_create` |
| `CreateMainWindow` | the rest of `create_main_window`, with the key that was loaded or made |
| `Save`, `Quit`, `Crash` | an account saved; the end of a process |

A save is a number; the key it was encrypted with is kept, so that a database beside
another key is seen. `cipher[p]` is the key a process has loaded: it encrypts and opens
with that one until it ends, whatever has become of the file. Between the database and
the key a process may crash; the next start then finds a database without a key and
makes one. `late` and `handed` are history: they record what was saved in a
profile that had been handed over already, which the code does not protect (below).

What the model shows beside its properties, all of it visible in `Startup` by
asking TLC for the state: after a rollback of an update the older version goes on
saving in the legacy profile, and the next start of the newer one deletes it, later
saves included, because `cleanup_after_unlock` ignores the deferral when the
portable database is there (`app.py:199`); the removal runs after the legacy lock was
given back (`app.py:184`), so an old version may start meanwhile; two processes may
remove at once; a crash between the rename and the marker leaves the legacy profile
for good, one before the rename leaves a `.migrating` directory with the key in it; a
portable directory that holds only logs refuses every migration; an `rmtree` that is
stopped half-way can have taken the key before the database.

### Outbox

One mail from the dialog to the summary. A file's size may change on the disk
between its choice, the acceptance and the sending. `served` and `copies` are at the
servers. `SmtpStatus` is `_classify_smtp_send_error`, a table from what went wrong to
the status. The mail is built before the connection is made, and connection, STARTTLS
and login may answer with any of it but a refusal of the envelope.

| action | code |
|---|---|
| `Compose`, `Edit`, `ChooseAttachment`, `Accept`, `Decline`, `Confirm` | `show_compose_dialog`, `ComposeDialog.accept`, its question |
| `Begin`, `MakeClient`, `Connect`, `Submit`, `GraphSubmit` | `SendBatchWorker.run`, `send_batch`, `send_account`, both clients |
| `Report` | the end of the worker and its signals |
| `SendBatchResult`, `SendBatchFinished` | the slots of the main window |

`ResultsTruthful` excludes the statuses of a lost answer: after a timeout or a lost
connection the server may have taken the mail, and the code says "network error"
either way. The slot counts a partial success among the successes and shows the
rejected addresses nowhere (`main_window.py:2270-2302`).

### Reader

The main window's pane and the viewer dialog are the same machine; `kind` selects the
lines that differ. `gen` and `tgen` are the generations that mark answers as late.
The text of a mail is the number of requests its translation takes.

| action | code |
|---|---|
| `Open`, `Close` | `open_mail_viewer`, `closeEvent`, `_shutdown_before_close` |
| `Select`, `Refresh` | `_message_selected`, `_show_message`, `_set_displayed_messages` |
| `Translate`, `Agree`, `Cancel`, `Toggle` | `_translate_current_message` around its question, the toggle |
| `TranslateChunk`, `TranslationLoaded`, `TranslationFinished` | `TranslationService.translate`, its slots |
| `Settings` | `_apply_translation_settings`, `update_translation_settings` |
| `AutoLoad`, `ClickLoad`, `Download`, `ImagesLoaded`, `ImagesFinished` | the timer, the button, `load_remote_images_for_web`, its slots |
| `AskDirectory`, `SaveAll`, `SaveOne` | the attachments around their file dialogs |

What differs from what a user would expect, and is in the model as the code has it:
an open viewer keeps the setting for images it was opened with; a `QDialog` closed
with Escape gets no `closeEvent`; images that arrive after the main window was shut
down make its web view anew; "save all" reads the attachments again after its
directory dialog, so that a message shown meanwhile is the one saved
(`SavedAsAsked`, which does not hold and is not in a run). A name of a file is what it
becomes under `casefold`: a stem and the numbers `_unique_filename` has added.

### Registry and AccountJobs

A row keeps the mailbox its host and token belong to, a configuration stands for
secrets, ports and names, and groups are their rowids. One edit of the user is one
action, unless its handler makes several transactions: threads of the pool go on
between those. A save of the settings stores the switch (`StoreSettings`), then the
proxies, the webhook, the rule and the schedule, and shows the switch last; any step
may fail, which leaves the steps before it. `saving` is the handler that has the thread
of the window, so no signal, timer or user comes in between. The router of a fetch
reads the switch (`ReadSwitch`) and the list of proxies (`PooledRoute`) in transactions
of their own. `SessionsAssumption` says what store a session may open: one with a
forest of groups and, by the unique index of the schema, one row for an address and
protocol.

| action | code |
|---|---|
| `SelectGroup`, `CreateGroup`, `DeleteGroup` | the group tree, `GroupRepository`, cascades of the schema |
| `AddMany` | `smart_parser`, the preview, `add_many`, `AccountRepository.add` |
| `MoveAccounts`, `BindProxy`, `TagAccounts` | the context menu of the table |
| `TogglePool`, `AddProxy` | dashboard switch, proxy dialog |
| `StoreSettings` | `EnterpriseSettingsDialog`, `show_settings` up to the throttle |
| `SaveProxies`, `SaveHook`, `SaveRule`, `SaveSchedule` | the steps of `_save_enterprise_settings` |
| `ShowSwitch`, `SaveFails` | `_set_proxy_fetch_enabled` after it has stored; the box of `show_settings` |
| `StartFetch`, `Elapse`, `RunDue` | `_queue_fetch`, `_run_due_schedules`, `run_due`, `mark_run` |
| `FixedRoute`, `ReadSwitch`, `PooledRoute`, `FetchEnds` | `_proxy_for` in a worker; the rest of the fetch is `FetchBatch` |
| `StartJob`, `Delete` | the context menu of an account |
| `RunJob`, `AskForCode`, `Wake`, `Reply` | the workers of self-test, discovery, audit and consent |
| `HandleSignal`, `AnswerBox`, `CancelConsent` | their slots, the two boxes, the device code dialog |

`windows` is the stack of message boxes and device codes: only the newest takes input,
and each nested event loop delivers signals, so a code can open above a box and be
cancelled there. Two jobs of a kind for one account are two jobs (`copy`): nothing
keeps the user from starting the second.

`RoutesAsAsked` goes by the store and not by the window, which shows the switch only at
the end of a save and, when the save fails half-way, not at all: the window says the
saving failed and shows the old switch, but the routes follow the new one, and entering
the same webhook again fails again. A thread may take the switch as it was at any
moment since its account was booked; `told` collects what the user had stored in that
time. A list of proxies read a moment after the switch may have grown.

Two ways of the code are in the properties as exceptions, because it needs them.
`ResultsKeepTheirAccount` excludes rowids deleted while a job was about them
(`reused`): only fetch workers keep an account from deletion, so a token can come
back to the mailbox that has the rowid then. `CancelledInTime` lets a token through
whose request was under way when the user cancelled.

Also met on the way: an empty list of folders is stored without a check and makes
every fetch raise; each save of the settings puts the schedule's next run off, and
with "ungrouped" selected it sets the schedule of all accounts
(`main_window.py:3811-3818`); a discovery turns a row that was imported as Graph
meanwhile into IMAP, and the unique index may make it raise in its slot; a consent
accepts whoever signs in; audit boxes do not name their account; a row bound to
"direct" uses the pool when that is on; consents share the pool of the fetch
workers for up to half an hour and closing the window does not cancel them; a
click on "authorize" is ignored while a cancelled consent is registered.

## 3. Runs

| run | question | instance |
|---|---|---|
| `FetchBooks` | are the books right over two batches, does every batch end? | 2 ids, pool of 1, 2 mailboxes, 2 batches, no storage error |
| `FetchData` | whose data is under an id, is the summary true? | 2 ids, pool of 2, 3 mailboxes, 1 batch, 1 storage error |
| `InstallSwap` | does the swap keep its promise, tell the truth, leave the right program running, end? | 2 helpers, both platforms, any kill |
| `UpdateFlow` | do lock, disk and window agree, does every job end for the window? | 2 newer releases, 2 downloads, 2 installations |
| `ThrottleSlots` | limit, spacing, is everybody served? | 3 accounts of 1 identity, settings changed once |
| `MailSync` | is mail forgotten by the rules, told twice, lost, left behind? | 3 mails, 7 setups of the four kinds of client, 1 fault |
| `Startup` | does a migration lose anything, is a root worked on alone, do credentials open? | 2 installations, 2 processes of one of them, a source run, 3 starts, 2 saves, 3 keys |
| `StartupKey` | can a migrated profile be opened? *(no)* | the same |
| `Outbox` | does a mail leave as confirmed, are the results true, does a batch end? | SMTP and Graph account, 2 mails, 2 files, 1 change |
| `Reader` | what is shown, requested, overwritten; does a translation end? | 2 mails, 3 generations of each kind, 2 image workers, either kind of pane |
| `Accounts` | tree, routes, filing, jobs, consents | 4 sessions, 2 mailboxes, 2 rowids, 2 jobs at a time, 1 poll |
| `Schedules` | is every due schedule served? *(no)* | the same |

*Bounds.* Two ids are enough for interleaved workers, a pool of one for a queued
worker behind a running one, a second batch for a signal or stop event of the
first to be seen by it; the third mailbox of `FetchData` is the one that is
given the id of a deleted one while a worker of that is still running. One
storage error suffices to reach every error path, because each handler looks at
the last error only; a second error in the same worker repeats the same handler. Two
helpers are what it takes for one to meet the lock of the other. Two releases
are enough for one to be newer than the staged one, a second download and a second
installation for each to meet what the first left behind (its lock, its staged
directory, its late signals). Three accounts make one wait behind another with a
limit of two; intervals of one to two seconds and a horizon of two tell "too
early" from "in time". Three mails are the least for a backlog, a stored mail
in its midst and a copy; a page of one makes every fetch of Graph page; one fault at any
point gives every partial result, but not the IMAP retry that fails as well (its
second attempt is a first one with `Break`). Arrivals end, so a folder that gets mail
faster than the limit takes it, and starves the next folder, is not an instance.

Three starts are a migration that dies, a second one, and another process beside it;
the two processes of one folder are interchangeable and no property has a liveness
part, so `SYMMETRY Twins` is sound. A second save is what is made after the hand-over
or beside a copy. Sizes in `Outbox` are such that one file fits Graph's limit alone or
not at all and two may exceed the total; the forms have the same address typed
twice in one field and in two. Three generations are one message, a later one, and
its answer against both. The four sessions of `MCAccountJobs` split what one
instance could not hold: a filled store whose accounts are filed, deleted and
imported (3 edits), a store of one account whose groups change beside saves of the
settings (3), the filled one with settings and fetches (3, and schedules book without
an edit), and a mixed one with jobs and deletions (4). An edit is one operation of the user; the steps of
threads, slots and the clock are not counted. Two rowids force each deletion to be
followed by a reuse.

`CHECK_DEADLOCK FALSE` is used where the program may really come to rest: a batch is
over and the bounds allow no more, all helpers have ended, every account is served,
or the program has quit.

*A third helper.* On macOS the script removes its lock directory at its end and
once more in the EXIT trap. Between the two another helper may have made the
directory; its removal then admits a third one. With three helpers TLC finds
`OneInside`, `KeepsPromise` and `ResultsTruthful` violated in this way. Three
helpers need three confirmed updates in one session of the program, so the run
keeps two, and the hazard is listed.

*Faults of the rollback on macOS* (`rm` or `mv` fails, and `mv` puts the backup
inside the remaining directory) are in the actions but not in the instance:
with them the script reports `failed_and_rolled_back` of something that was not
rolled back, and `app.py` shows the reader of that result a message that is not
true. `Faults` in `MCInstallHelper` is where to add `<<"macos", "rollback">>` to
see it.

*Fairness.* `FetchBatch` assumes weak fairness of each worker thread and of the
handling of each worker's signals: every socket of the protocol clients has a
timeout, the pool starts queued runnables when a thread is free, and the main
thread returns to its event loop. The user, the schedule timer and the errors are not
fair. `InstallHelper` assumes weak fairness of each script: every loop in it
has a deadline. Neither the quitting of the program nor anything the new
version does is fair. `UpdateFlow` assumes it of the pool thread (each request has
a timeout, each wait in `launch_installer` a deadline) and of the handling of
signals, which goes on inside nested event loops; not of the user, of releases or
of other processes. `ComplianceThrottle` assumes it of time and of each thread: a
fetch inside the slot has timeouts, and a released permit wakes a waiting thread;
since an account enters once, nobody can be overtaken for ever. `MailSync` assumes it of
the steps of a fetch and of the next fetch (a schedule, or a user who keeps
refreshing), not of the server or of the faults. `Outbox` assumes it of the worker
and of the slots, `Reader` of workers and slots (translation requests have
timeouts; every slot of the model uses up a job or a timer, so one condition for all
of them is enough), `AccountJobs` of the event loop and of each account's
consent worker, whose sleep ends and whose requests have timeouts. `Startup` has no
liveness property and no fairness.

### Violations

* `StartupKey`: on macOS the Keychain entry of the credential key and the marker
  file that stands for it are named after the path of the key file
  (`crypto.py:72-86`). A migration copies the marker to another path, where the
  program refuses it: the migrated program does not start, and the legacy profile
  that could still be opened has been removed.
* `Schedules`: `run_due` calls the booking and `mark_run` for each due schedule; the
  booking of the second finds workers registered and returns with a status line, and
  its schedule is marked as run all the same.

Seven further disagreements have a configuration of their own to see the
counterexample with (`tlc -config X.cfg MCModule`); they are not among the runs of
`PROJECT.json`.

| configuration | module | property that does not hold | what happens |
|---|---|---|---|
| `FetchDelete.cfg` | `MCFetchBatch` | `DeletionIsComplete` | The guard "no worker is registered" is read before the message box of the deletion, the deletion is done after it. A schedule that fires in between starts a worker on the account; it writes an original after the directory has been removed. |
| `FetchStatus.cfg` | `MCFetchBatch` | `StoredStatusFinal` | `CONNECTING` is written by the slot in the main thread, the final status by the worker thread; when the slot runs late the row stays `connecting` until the next fetch. |
| `UpdateHandOver.cfg` | `MCUpdateFlow` | `ClosesAfterHandOver` | A check that reports a newer release while an installation is asked about or prepared clears the staged update; the hand-over is then taken for lost state and the program stays open, with a helper that waits for it to close. |
| `UpdateRetry.cfg` | `MCUpdateFlow` | `ReadyInstalls` | A launch that fails gives up the lock and with it the transaction the staged update belongs to; every further attempt is refused until the program is started again and the release downloaded again. |
| `SyncGap.cfg` | `MCMailSync` | `OlderPagesCached` | A Graph fetch that breaks after its first page stores that page; the next one, unlimited as well, finds it known and stops there. |
| `ThrottleSwap.cfg` | `MCComplianceThrottle` | `IdentityLimited` | Saving the settings makes a new throttle with free permits while threads hold those of the old one. |
| `ReaderButton.cfg` | `MCReader` | `ImagesOnDemand` | The viewer enables its button only when the answer for the message still shown arrives; a message selected meanwhile cannot have its images loaded. |

Three minor hazards are in no property: the staged directory of an old release stays
on the disk when a newer one is found (`main_window.py:3225`); the menu action for
checks stays disabled when an installation ends without its end being handled
(`3485`); the lock directory of a macOS helper that is killed stays.

Every module has a type invariant (`TypeOK`, `JobsTypeOK` for `AccountJobs`). It
holds on the instances above; the configurations do not list it, because a wrong
type there would come from the model and not from the code.

Each property of a passing run has a mutant: an operator beside the one it
replaces in the module, with the comment `slip`, that breaks the property as
a plausible bug would.

## 4. Proofs

Every safety property that a passing run checks, invariant, action property or
refinement, is a theorem for every value of the constants that the named assumptions
allow.

`FetchBatchProofs` proves for every finite set of positive ids, pool size and
bounds:

* `TypeCorrect`, `Registered`, `Quiet`, `ToolbarCorrect`: the type invariant and
  three invariants of the books;
* `StopHolds`: the action property of the stop event;
* `OwnMailOnly`: `ForeignOnlyByRace` of `FetchData`;
* `SummaryHolds`: the action property `SummaryTruthful`.

`WorkersRegistered` alone is not inductive: a handled "finished" takes the id
out of `_workers`, which is right only if that was the worker's last signal and
its run is over. `IInv` therefore adds `FinishedIsLast` (a "finished" is the last
element of an inbox and there only when no task is left) and
`RegisteredWhileActive` to the types and the toolbar. `BooksInvariant` is the
inductive argument: one lemma for what a worker does to the queue of its
signals (`WorkerBooks`), one for a handled signal (`HandleBooks`), one for the
start of a batch (`QueueBooks`). `OwnMailOnly` rests on a second invariant,
`Filing`, that says of which mailbox a running worker is a worker, and that uses
`IInv`: an account cannot be deleted outside the race while its worker lives.
`SummaryHolds` needs to know at the last "finished" what each account's fetch came to,
although the slot counts only what it was told. `CountInv` says how the results follow
the runs: what is still in an inbox and what has been handled never name another
outcome than the run had, whether or not the slot met a database error (`AllHeard`);
a cancelled run has seen the stop event (`Stopped`); and the total is that of the
accounts of this batch, who alone have results (`Totalled`).

The assumption is `BatchAssumption`; finiteness of `Ids` is used for the counts.

`UpdateFlowProofs` proves for any number of releases, downloads and installations
(`UpdateAssumption`):

* `TypeCorrect`: the type invariant;
* `LockHolds`: `LockedWhileWorking`. It is not inductive, because it says nothing of
  the jobs behind the head of the pool or of what `DismissWarning` may release.
  `LockInv` adds that only the head has begun (`OneBegun`) and that a check never
  holds a phase of its own (`ChecksQueued`), so that a discarded update undercuts
  exactly a download or an installation. Three lemmas (`QueueKeepsLock`,
  `ContinueKeepsLock`, `EndKeepsLock`) say what the pool's sequence operations do to
  it, and each action is one of them.
* `OfferHolds`: `NoDownloadOverStaged`. `OfferInv` adds that a staged update is the
  newest known release (`Offered`), that a download under way, or its signal, is of the
  known release and the current operation and that nothing is staged beside it
  (`Loading`), and that no signal brings an older release than the known one (`Fresh`).
* `SourceHolds`: `HelperHasSource`. Whether the files of a helper may go is decided in
  boxes that stand above each other, so `BoxInv` says how they can: a question is on
  top, and a check runs neither while a dialog stands above a warning nor beside a
  download behind one. `Source` then says that what was handed over is known as such
  before anything can discard it, and `RootInv` that its directory is there.

`InstallHelperProofs` proves for any number of helpers of the Windows script, and for
two of the macOS script if no `rm` or `mv` of its rollback fails (`HelperAssumption`
and `Contained`; the run `InstallSwap` is such an instance), whatever else fails and
wherever a helper is killed:

* `PromiseKept`: `KeepsPromise`, the refinement of `Replacement`: the initial states
  map to its initial state, and each step to `Bring`, `Prove`, `Discard` or a stutter.
  `At` says for each place of the script what lies at its paths, and `Guarded` that
  there is a proven version and, while a helper works, one that is not its own: the
  only version a rollback removes is the helper's own, and a clean-up comes after the
  new version is proven. Each action is one lemma (`StageKept` ... `RestoreKept`).
* `OneHolds`: `OneInside`, from `AloneInv`: a helper inside is alone there and holds
  the lock, or it runs on macOS and all others are over, so that nobody can take the
  lock the EXIT trap has removed. A third macOS helper could: hence `Contained`.
* `TruthHolds`: `ResultsTruthful`, from `At`.
* `ReopenedHolds`: `ProgramReopened`, from `OpenInv`: who watches a version has started
  it and not seen it end (`Watching`); who reports an undone swap has put back what it
  had found (`At`) and starts that before it gives the lock up, and who is turned away
  starts what lies at the path (`Told`); until a helper moves the old program away that
  is what lies there (`Whole`).

`Contained` is not a weakness of the argument: with an `rm` or `mv` that fails the
macOS script does break the promise (section 3).

`FetchAccountProofs` proves of the throttle, for any finite set of threads, any
identities, settings and number of throttles (`ThrottleAssumption`):

* `ThrottleTypes`: the type invariant;
* `LimitHolds`: `WithinLimit`, from the invariant that a semaphore has given out
  exactly as many permits as it has holders, and never more than its limit;
* `SpacingHolds`: `StartsSpaced`, from the invariant that every remembered start
  lies at least the smallest interval before the next reservation.

It proves of the mails, for any number of mails, folders and faults, any page size,
patterns and rules, and any setting of the user (`SyncAssumption`):

* `MailTypes`: the type invariant;
* `RulesHold`: `NoRuleForgotten`;
* `NotesHold`: `NotifiedOnce`;
* `DeletionsHold`: `DeletedMailKept`.

All three rest on one invariant, `Inv`. `Phases` says what is empty at each place of
`fetch_account`, `Sessions` that marks belong to one POP3 session and that its mails
stay until QUIT. `Ordered` is the order of a fetch, folder by folder and newest first
with nothing listed that was already downloaded; without it a mail could be in one
result twice. `Fresh` says that what is on its way is not stored yet, if its server
tells it from all other mails (`Alone`). On these rest what the properties are about:
`Witnessed` and `Heard` (each row, and each message the rules are through with, was put
to the rule), `CountedOnce` (a webhook told of a mail no more often than it was thrown
away, plus once if it is stored or among those seen), and `Kept` (a mail deleted or
marked is stored, was thrown away by a fault, or is on its way in a result that is not
about to be dropped). `NewestFirst` is a choice by rank; that it lists the mails of a
set in order, each once, is the lemma `NewestFirstLists`.

`AccountJobsProofs` proves of the composition of jobs and registry, for any accounts,
proxies, files, forms, bounds, and any store a session may open
(`RegistryAssumption`, `SessionsAssumption`, `JobsAssumption`):

* `TreeWhole`: `TreeIntact`. What a group is deleted with is closed under children
  (`BelowClosed`, from the definition of the descendants as what every closed set
  around the group holds), so no parent of a group that stays is lost; and a new
  group is younger than its parent, so that the forest needs no search for cycles.
* `RoutesHold`: the action property `RoutesAsAsked`, at every step of a save and of a
  thread. The stored switch is the one last asked for (`SwitchKept`), and every worker
  without a route has been told of it; one that has read it as on was told of that and
  is not bound to a proxy (`Booking`).
* `CancelHolds`: `CancelledInTime`, for any number of polls. Since every check of
  `wait_for_refresh_token` heeds a cancellation, a request is under way only for a
  consent not taken back before it (`Asks`), and so is what the queue of signals
  tells.
* `CodesHold`: `NoOrphanDialog`. `PhaseInv` says in which of five states a consent is,
  by what is in the queue of signals and who works for it: a code stays open only
  while its worker waits, or while the result that closes it is in the queue and
  "finished" right behind it.
* `WhoseHolds`: `ResultsKeepTheirAccount`. Jobs and signals name a mailbox and a rowid;
  the rowid still has that mailbox, or it was used again (`Whose`).
* `FilingHolds`: the action property `ImportKeepsFiling`, for files of any length.
  `add_many` is a fold along the file, and what it preserves (`Imports`, `Table`) is
  shown line by line. That a fold over `1..n` is as the theorem about one line says
  needs induction; see the end of this section.

`StartupProofs` proves for any folders, processes and bounds (`StartupAssumption`):

* `AloneHolds`: `Alone`. Who has got past a lock in its start holds it
  (`LockInv`); the lock itself is a function, so two cannot.
* `NothingLostHolds`: `NothingLost`, for crashes and failures at every step. The
  property is not inductive: that the removal of the legacy profile loses nothing
  has to be known when it begins. `SaveInv` says how far a migration has brought the
  data: a copy holds what the profile holds, or another root does; once renamed, or
  marked, or being removed, everything in the profile is in a portable root or was
  saved after the hand-over (`Backed`). It also needs that data lies only where a
  database file is (`Housed`), because the rename replaces a root without files, and
  `LockInv`, because nobody may save in a profile that is being copied.
* `CredentialsHold`: `CredentialsOpen`, from `KeyInv`: a profile that is not torn has
  the one key all its data was saved under (`Keyed`), and so has each copy under way; a
  process that has loaded a key has the one of its root, as long as that has a database
  and is whole (`Fits`). Every write is one of two lemmas (`KeyWrite`, `KeyAdds`), with
  `LockInv` for who may write where; only the opening of a root makes a key
  (`KeyOpens`), where the lock keeps everybody else out and a database without a key has
  no data.

`OutboxProofs` proves for any accounts, addresses, files, forms, selections and limits
(`OutboxAssumption`):

* `SentHolds`: `SentAsConfirmed`. The invariant follows the draft from the acceptance
  over the question to the worker: what is asked about is within the limits (`Asked`;
  `AcceptedWithin` is the arithmetic of the dialog, which counts an address once per
  field and so never too few), a worker sends what was confirmed with the client of
  its account (`Bound`, `Matched`), and an account it has not come to has handed in
  nothing, as no selection names an account twice (`SenderFresh`).
* `ResultsHold`: `ResultsTruthful`. The worker has one result for each account it is
  through with (`Listed`), of a draft that is for somebody (`Addressed`: a success that
  reached nobody would be none), and results of earlier accounts stay true because the
  later ones hand in nothing in their name.

`ReaderProofs` proves for any mail, languages, settings and bounds
(`ReaderAssumption`):

* `ShownHolds`: `ShowsCurrent`. `Faithful` is the property for closed panes as well;
  `Generations` says that a job or a question of the present generation is about the
  present message and language, and that everything else is older. A new message
  makes a new generation (`TextRenewed`), all other steps keep message and
  generation (`TextSteady`).
* `AskedHolds`: `ImagesOnlyAsked`. A timer takes the message that is shown when it
  fires, so the invariant is that while one is pending the current message is one
  whose images are wanted.
* `SavedHolds`: `NothingOverwritten`. `FreeName` says that the counter of
  `_unique_filename` ends at a name not in use: of one number more than there are used
  names one is free, and the least of them is taken. The fold over the attachments
  keeps the names written so far apart from each other and from those found
  (`Distinct`). The property is about directories that can be listed: in another one the
  code knows no names and may overwrite what is there.

Only model-checked: liveness (`BatchEnds`, `HelperEnds`, `DownloadEnds`,
`InstallEnds`, `EverybodyServed`, `BacklogDrains`, `BatchReported`,
`TranslationEnds`, `WindowComesBack`), because the prover has no rules for fairness
and `ENABLED`; and the type invariants of the modules that have no theorem about one.
The proofs for those modules carry the types their invariants need and no others.

The library's theorems on induction take an operator as a parameter, which none of
the provers can instantiate. Where a proof needs induction over numbers (`Upwards`,
`Largest`, and with them the folds of `AccountJobs`, `Reader` and the ranks of
`MailSync`) it goes by a least counterexample, from `WFMin` for `<` on the natural
numbers or from the cardinality of finite sets.

## 5. Not modelled, and the plan

Not modelled: the validation of release manifests and archives (signatures and hashes
are cryptography; version order, archive paths and symlink depth are pure functions
of their input, whose outcome is a choice in `UpdateFlow`); ciphers; parsing of mail,
rendering of HTML and the recognition of fields in an import (text without state
between calls); content filter, TOTP, export and audit report (formatting and
matching); styles, charts, toasts and layout; the wire protocols below one request;
search, and the reading state of messages; build and release tools. `PROJECT.json`
has the status of each component.

What could follow:

1. An abstract transaction (one update at a time, from the lock to the hand-over) that
   `UpdateFlow` implements while it is not undercut, and an abstract store ("every
   message once") that `MailSync` implements for mail whose Message-IDs differ.
2. The composition of `InstallHelper` with `Startup`: the health report and the
   deferred clean-up in one model with the rollback of the helper.
3. Version order and archive paths as operators, against reference definitions on
   bounded inputs.
4. Proofs: that `UpdateFlow` and `MailSync` implement the specifications of item 1;
   the safety part of what liveness needs, such as that a batch which has not ended has
   a worker or a signal left; the type invariants without a theorem.
